\* n1 reconnects while services come and go and are looked up or watched.
CONSTANTS
  n1 = n1
  x = x
  w = w
  m = m
  Nodes = {n1}
  Main = main
  Sessions = {s1, s2}
  Services = {x, w}
  Names = {m}
  NameOf <- OneName
  Uses <- BothUses
  MaxQueue = 1
SPECIFICATION Spec
SYMMETRY SessionSymmetry
INVARIANTS
  SlotIsReleasable
  NoOrphanRegistration
  RoutesPushed
  IndexConsistent
  ToldTruth
