\* Two callers of one key, three placements, two invalidations of each kind.
CONSTANTS
  Keys = {k1}
  Callers = {c1, c2}
  Enabled = TRUE
  TTL = TRUE
  MaxPlacement = 2
  MaxInvalidations = 2
SPECIFICATION FairRouteSpec
INVARIANTS
  CachedRouteFresh
  ReturnedRouteFresh
  SingleFlight
  WaiterHasLeader
PROPERTIES
  LookupReturns
