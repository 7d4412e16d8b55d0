\* The application looks a service up while the Node stops.
CONSTANTS
  Clients = {c1, c2}
  Setups <- LookupSetups
  MaxFaults = 1
SPECIFICATION Spec
CHECK_DEADLOCK FALSE
INVARIANTS
  StoppedIsClosed
