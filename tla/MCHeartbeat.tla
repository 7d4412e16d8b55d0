----------------------------- MODULE MCHeartbeat -----------------------------
(* The default options in quarters of a second: probes every 3 s, 2 s for an    *)
(* answer, 5 s for a connection.  Restoring is instant, short, as long as it may be,  *)
(* or too long.                                                               *)
EXTENDS Heartbeat

Quarters == {0, 1, 7, 10}

=============================================================================
