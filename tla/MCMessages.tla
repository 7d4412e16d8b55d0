----------------------------- MODULE MCMessages -----------------------------
(***************************************************************************)
(* What travels between Nodes outside the calls' own protocol: messages    *)
(* and requests on the wire (RpcWire), and discovery events (Discovery).   *)
(* The two have no state in common, so a behaviour is of one or the other. *)
(*                                                                         *)
(* On the wire, two senders of another Node, or one of them and one of the *)
(* receiving Node itself, send up to three messages each to the Services   *)
(* of a Node whose int has 3 bits (-4..3) where the sender's has more.     *)
(***************************************************************************)
EXTENDS RpcWire, Discovery

Echo == ServiceKey("echo", 1)
Chat == ServiceKey("chat", 1)

\* Cut down to 3 bits, the identifier 9 is 1.
Wide == ServiceKey("echo", 9)
Absent == ServiceKey("echo", 2)

M(source, target, id, payload, mode) ==
    [source |-> source, target |-> target, id |-> id, payload |-> payload,
     mode |-> mode]

MCHosted == {Echo, Chat}

MCScripts ==
    {[a |-> <<M(NoKey, Echo, StringID("ping"), "p1", "direct"),
              M(Chat, Echo, NumericID(1), "p2", "direct")>>,
      b |-> <<M(Chat, Wide, NumericID(7), "p3", "direct")>>],
     [a |-> <<M(Chat, Echo, NumericID(1), "p1", "direct"),
              M(NoKey, Absent, StringID("ping"), "p2", "sync")>>,
      b |-> <<M(NoKey, Echo, StringID("pong"), "p3", "sync")>>],
     [a |-> <<M(NoKey, Echo, NumericID(0), "p1", "direct"),
              M(NoKey, Echo, StringID("ping"), "p2", "direct")>>,
      local |-> <<M(Chat, Echo, NumericID(2), "p3", "direct"),
                  M(Chat, Echo, StringID("too long"), "p4", "direct"),
                  M(Chat, Echo, StringID("ping"), "p5", "direct")>>]}

MCInside == {"local"}

VARIABLE topic   \* what the behaviour is about: "wire" or "discovery"

MCInit ==
    /\ topic \in {"wire", "discovery"}
    /\ RpcWireInit /\ DiscoveryInit
    /\ topic = "wire" => where = "main" /\ registered = {}
    /\ topic = "discovery" => Senders = {"a", "local"}

MCNext ==
    \/ topic = "wire" /\ RpcWireNext /\ UNCHANGED <<topic, discoveryVars>>
    \/ topic = "discovery" /\ DiscoveryNext /\ UNCHANGED <<topic, wireVars>>

MCSpec == MCInit /\ [][MCNext]_<<topic, wireVars, discoveryVars>>

\* Which object of a pool, and which of the Services of a name, is which does
\* not matter.
Alike == Permutations(Objects) \cup Permutations(Responses)
            \cup Permutations(Instances)
=============================================================================
