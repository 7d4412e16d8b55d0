\* Two services call each other synchronously, or one calls another Node's.
\* The instance stops when its calls are made.
CONSTANTS
  A = A
  B = B
  R = R
  app = app
  c1 = c1
  c2 = c2
  c3 = c3
  App = app
  Loops = {A, B}
  RemoteLoops = {R}
  Calls = {c1, c2, c3}
  Plans <- CircleAndRemote
  Answers = {ok}
  MaxResponds = 2
SPECIFICATION FairSpec
CHECK_DEADLOCK FALSE
INVARIANTS
  ResponseFits
PROPERTIES
  KeepsContract
  CallsComplete
  StopReturns
