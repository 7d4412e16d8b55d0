---------------------------- MODULE MCMainLink ----------------------------
(* Instances of a Node's link to the main Node. *)
EXTENDS MainLink, TLC

ClientSymmetry == Permutations(Clients)

Always == {"Starting", "Running", "Stopping", "Stopped"}
Later == {"Running", "Stopping"}

Setup(n, jobs, breakIn) ==
    [services |-> n, jobs |-> jobs, breakIn |-> breakIn, failIn |-> LifeStates]

\* Connections may break at any time: one service and an application that
\* looks services up and subscribes, or two services by themselves.
SafetySetups == {Setup(1, {"lookup", "subscribe"}, Always), Setup(2, {}, Always)}

LiveSetups == {Setup(1, {"lookup"}, Later)}

\* The connection to the main Node may break while the Node starts.
EarlySetups == {Setup(2, {}, {"Starting", "Running", "Stopping"})}

\* The application looks a service up while the Node stops; nothing fails before
\* the Node runs.
LookupSetups == {[Setup(1, {"lookup"}, Later) EXCEPT !.failIn = Later]}
=============================================================================
