---------------------------- MODULE CallContract ----------------------------
(***************************************************************************)
(* What CallServiceAsync, CallServiceSync and MessageContext.Respond       *)
(* promise, whatever the timing: a call that was refused is never told     *)
(* anything; another is told one outcome at most, which is the first       *)
(* answer of the called service, a timeout, or that the Node has stopped.  *)
(***************************************************************************)
EXTENDS Sequences

CONSTANTS
  Calls,   \* the calls made
  Answers  \* what a service may answer

VARIABLES
  stage,   \* idle, open, refused
  first,   \* the answers of the service that count: none or the first
  told,    \* the outcomes the caller was told of
  sync,    \* the calls made with CallServiceSync
  stopping \* Stop was called

vars == <<stage, first, told, sync, stopping>>

Init ==
  /\ stage = [c \in Calls |-> "idle"]
  /\ first = [c \in Calls |-> <<>>]
  /\ told = [c \in Calls |-> <<>>]
  /\ sync \in SUBSET Calls
  /\ stopping = FALSE

Open(c) ==
  /\ stage[c] = "idle"
  /\ stage' = [stage EXCEPT ![c] = "open"]
  /\ UNCHANGED <<first, told, sync, stopping>>

Refuse(c) ==
  /\ stage[c] \in {"idle", "open"} /\ told[c] = <<>>
  /\ stage' = [stage EXCEPT ![c] = "refused"]
  /\ UNCHANGED <<first, told, sync, stopping>>

Answer(c, a) ==
  /\ stage[c] = "open" /\ first[c] = <<>>
  /\ first' = [first EXCEPT ![c] = <<a>>]
  /\ UNCHANGED <<stage, told, sync, stopping>>

\* what the caller may be told
Outcomes(c) ==
  {a \in Answers : first[c] = <<a>>} \cup {"timeout"}
    \cup (IF c \in sync /\ stopping THEN {"stopped"} ELSE {})

Tell(c, o) ==
  /\ stage[c] = "open" /\ told[c] = <<>>
  /\ told' = [told EXCEPT ![c] = <<o>>]
  /\ UNCHANGED <<stage, first, sync, stopping>>

Stop ==
  /\ ~stopping /\ stopping' = TRUE
  /\ UNCHANGED <<stage, first, told, sync>>

Next ==
  \/ Stop
  \/ \E c \in Calls :
       \/ Open(c) \/ Refuse(c)
       \/ \E a \in Answers : Answer(c, a)
       \/ \E o \in Outcomes(c) : Tell(c, o)

Spec == Init /\ [][Next]_vars
=============================================================================
