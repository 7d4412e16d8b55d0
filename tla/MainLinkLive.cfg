\* Connections break once the Node runs; a stopped Node is at rest.
CONSTANTS
  Clients = {c1, c2}
  Setups <- LiveSetups
  MaxFaults = 2
SPECIFICATION FairSpec
CHECK_DEADLOCK FALSE
PROPERTIES
  StopReturns
  LinkComesBack
