\* n1 reconnects and registers x again before the old session is cleaned up.
CONSTANTS
  n1 = n1
  x = x
  w = w
  m = m
  Nodes = {n1}
  Main = main
  Sessions = {s1, s2}
  Services = {x, w}
  Names = {m}
  NameOf <- OneName
  Uses <- Alone
  MaxQueue = 1
SPECIFICATION Spec
CHECK_DEADLOCK FALSE
INVARIANTS
  GrantedStaysRegistered
