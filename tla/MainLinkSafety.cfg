\* Connections break and requests fail; a stopped Node is at rest.
CONSTANTS
  Clients = {c1, c2, c3}
  Setups <- SafetySetups
  MaxFaults = 2
SPECIFICATION Spec
CHECK_DEADLOCK FALSE
SYMMETRY ClientSymmetry
INVARIANTS
  TypeOK
  OneConnection
  PublishedIsLive
  RecoveryArmed
  StateRestored
