---------------------------- MODULE MCServiceCall ----------------------------
(* Instances of the calls between services. *)
EXTENDS ServiceCall, TLC

CONSTANTS A, B, R, app, c1, c2, c3

SyncCall(caller, target) == [caller |-> caller, target |-> target, sync |-> TRUE]
AsyncCall(caller, target) == [caller |-> caller, target |-> target, sync |-> FALSE]

\* The application calls A, whose handler waits for B, whose handler waits
\* for A: a circle of synchronous calls.
Circle == c1 :> AsyncCall(app, A) @@ c2 :> SyncCall(A, B) @@ c3 :> SyncCall(B, A)

\* The application calls A, whose handler calls R of another Node.
Onward == c1 :> AsyncCall(app, A) @@ c2 :> AsyncCall(A, R)

\* The application waits for R, and A's handler does.
Outward == c1 :> SyncCall(app, R)
Inward == c1 :> SyncCall(app, A) @@ c2 :> SyncCall(A, R)

CircleAndRemote == {Circle, Onward, Outward, Inward}
=============================================================================
