\* The connection to the main Node may break while the Node starts.
CONSTANTS
  Clients = {c1, c2}
  Setups <- EarlySetups
  MaxFaults = 1
SPECIFICATION Spec
CHECK_DEADLOCK FALSE
INVARIANTS
  LostLinkRecovers
