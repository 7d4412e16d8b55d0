---------------------------- MODULE RpcWireProofs -----------------------------
(***************************************************************************)
(* Proofs about RpcWire, for any senders and messages, any number of       *)
(* pooled objects and connections, and any Services: who holds the pooled  *)
(* objects, that messages arrive as they were sent and in order, and that  *)
(* a caller gets the result that was given for its request.                *)
(***************************************************************************)
EXTENDS RpcWire, TLAPS

\* The objects of the two pools.
SendObjects == {<<"send", o>> : o \in Objects}
RecvObjects == {<<"recv", o>> : o \in Objects}

\* Who holds an object: a sender at work has a request object of its own, and it
\* may have a response object of its own; a reader at work has one too.
Shapes ==
    /\ DOMAIN pc = Senders /\ DOMAIN held = Senders /\ DOMAIN awaited = Senders
    /\ DOMAIN field = SendObjects \cup RecvObjects
    /\ DOMAIN answer = Responses /\ DOMAIN reader = Conns
    /\ sendPool \subseteq SendObjects /\ recvPool \subseteq RecvObjects
    /\ respPool \subseteq Responses

SendersOwn ==
    /\ \A s \in Senders : pc[s] = "idle" => held[s] = None
    /\ \A s \in Senders : pc[s] # "idle" => held[s] \in SendObjects \ sendPool
    /\ \A s, r \in Senders : s # r /\ pc[s] # "idle" /\ pc[r] # "idle" => held[s] # held[r]

CallersOwn ==
    /\ \A s \in Senders : awaited[s] = None \/ awaited[s] \in Responses \ respPool
    /\ \A s, r \in Senders : s # r => awaited[s] = None \/ awaited[s] # awaited[r]

ReadersOwn ==
    /\ \A c \in Conns : reader[c] # None =>
         "object" \in DOMAIN reader[c] /\ reader[c].object \in RecvObjects \ recvPool
    /\ \A c, d \in Conns : c # d /\ reader[c] # None /\ reader[d] # None =>
         reader[c].object # reader[d].object

BlankPools ==
    /\ \A o \in sendPool \cup recvPool : field[o] = Blank
    /\ \A r \in respPool : answer[r] = None

WireInv == Shapes /\ SendersOwn /\ CallersOwn /\ ReadersOwn /\ BlankPools

-----------------------------------------------------------------------------
\* The pools of requests to send and of requests received have no object in common.
LEMMA PoolsApart == SendObjects \cap RecvObjects = {}
  BY DEF SendObjects, RecvObjects

\* The objects and those who hold them at first.
LEMMA WireInit == RpcWireInit => WireInv
<1> SUFFICES ASSUME RpcWireInit PROVE WireInv
  OBVIOUS
<1>1. /\ pc = [s \in Senders |-> "idle"] /\ held = [s \in Senders |-> None]
      /\ awaited = [s \in Senders |-> None]
      /\ sendPool = SendObjects /\ recvPool = RecvObjects /\ respPool = Responses
      /\ field = [o \in SendObjects \cup RecvObjects |-> Blank]
      /\ answer = [r \in Responses |-> None] /\ reader = [c \in Conns |-> None]
  BY Zenon DEF RpcWireInit, SendObjects, RecvObjects
<1>2. Shapes
  BY <1>1 DEF Shapes
<1>3. SendersOwn /\ CallersOwn
  BY <1>1, Zenon DEF SendersOwn, CallersOwn
<1>4. ReadersOwn /\ BlankPools
  BY <1>1, Zenon DEF ReadersOwn, BlankPools
<1> QED
  BY <1>2, <1>3, <1>4 DEF WireInv

\* Every step hands objects over whole: an object is taken from a pool by one
\* goroutine, and goes back blank from the one that holds it.
LEMMA WireStep == WireInv /\ [RpcWireNext]_wireVars => WireInv'
<1> SUFFICES ASSUME WireInv, [RpcWireNext]_wireVars PROVE WireInv'
  OBVIOUS
<1> USE DEF WireInv, sendVars, poolVars, linkVars, recvVars, historyVars
<1>1. ASSUME DOMAIN script' = DOMAIN script, UNCHANGED <<pc, held, awaited, poolVars, reader>>
      PROVE  WireInv'
  BY <1>1 DEF Shapes, SendersOwn, CallersOwn, ReadersOwn, BlankPools, Senders
<1>2. ASSUME NEW s \in Senders, Refused(s) \/ SendInside(s) PROVE WireInv'
  BY <1>1, <1>2, Zenon DEF Refused, SendInside, Finished
<1>3. ASSUME NEW s \in Senders, Acquire(s) PROVE WireInv'
  <2>1. PICK o \in sendPool : held' = [held EXCEPT ![s] = o] /\ sendPool' = sendPool \ {o}
    BY <1>3, Zenon DEF Acquire
  <2>2. /\ pc' = [pc EXCEPT ![s] = "fill"] /\ pc[s] = "idle"
        /\ UNCHANGED <<script, awaited, recvPool, respPool, field, answer, reader>>
    BY <1>3, Zenon DEF Acquire, Goto
  <2>3. Shapes'
    BY <2>1, <2>2, Zenon DEF Shapes, Senders
  <2>4. SendersOwn'
    BY <2>1, <2>2 DEF Shapes, SendersOwn, Senders
  <2>5. CallersOwn' /\ ReadersOwn' /\ BlankPools'
    BY <2>1, <2>2, Zenon DEF CallersOwn, ReadersOwn, BlankPools, Senders
  <2> QED
    BY <2>3, <2>4, <2>5
<1>4. ASSUME NEW s \in Senders, Fill(s) PROVE WireInv'
  BY <1>4, PoolsApart DEF Fill, Goto, SendersOwn, Shapes, Senders, CallersOwn, ReadersOwn,
     BlankPools
<1>5. ASSUME NEW s \in Senders, NEW label \in {"wait", "release"}, pc[s] # "idle",
             pc' = [pc EXCEPT ![s] = label],
             UNCHANGED <<script, held, awaited, sendPool, recvPool, respPool, field, reader>>,
             answer' = answer \/ \E v : answer' = [answer EXCEPT ![awaited[s]] = v]
      PROVE  WireInv'
  BY <1>5, WireAssumption DEF Shapes, Senders, SendersOwn, CallersOwn, ReadersOwn,
     BlankPools
<1>6. ASSUME NEW s \in Senders, Send(s) PROVE WireInv'
  BY <1>5, <1>6, Zenon DEF Send, Goto
<1>7. ASSUME NEW s \in Senders, Result(s) PROVE WireInv'
  BY <1>5, <1>7, Zenon DEF Result, Goto
<1>8. ASSUME NEW s \in Senders, TimesOut(s) PROVE WireInv'
  BY <1>5, <1>8, Zenon DEF TimesOut, Goto
<1>9. ASSUME NEW s \in Senders, Release(s) PROVE WireInv'
  BY <1>9 DEF Release, Goto, Finished, Reset, Recycled, SendersOwn, Shapes, CallersOwn,
     Senders, ReadersOwn, BlankPools
<1>10. ASSUME NEW c \in Conns, Read(c) PROVE WireInv'
  <2>1. PICK o \in recvPool :
          /\ recvPool' = recvPool \ {o}
          /\ field' = [field EXCEPT ![o] = Head(wire[c]).request]
          /\ reader' = [reader EXCEPT ![c] =
               [object |-> o, packet |-> Head(wire[c]), fate |-> "unread"]]
    BY <1>10, Zenon DEF Read
  <2>2. UNCHANGED <<script, pc, held, awaited, sendPool, respPool, answer>>
    BY <1>10, Zenon DEF Read
  <2>3. Shapes'
    BY <2>1, <2>2, Zenon DEF Shapes, Senders
  <2>4. SendersOwn' /\ CallersOwn'
    BY <2>2 DEF SendersOwn, CallersOwn, Senders
  <2>5. ReadersOwn'
    BY <2>1 DEF Shapes, ReadersOwn
  <2>6. BlankPools'
    BY <2>1, <2>2, PoolsApart, Zenon DEF Shapes, BlankPools
  <2> QED
    BY <2>3, <2>4, <2>5, <2>6
<1>11. ASSUME NEW c \in Conns, Dispatch(c) PROVE WireInv'
  <2>1. PICK f : reader' = [reader EXCEPT ![c].fate = f]
    BY <1>11, Zenon DEF Dispatch
  <2>2. /\ reader[c] # None
        /\ UNCHANGED <<script, pc, held, awaited, sendPool, recvPool, respPool, field, answer>>
    BY <1>11, Zenon DEF Dispatch
  <2>3. "object" \in DOMAIN reader'[c] /\ reader'[c].object = reader[c].object
    BY <2>1, <2>2, Zenon DEF Shapes, ReadersOwn
  <2>4. \A d \in Conns : d # c => reader'[d] = reader[d]
    BY <2>1 DEF Shapes
  <2>5. ReadersOwn'
    BY <2>2, <2>3, <2>4 DEF ReadersOwn
  <2>6. Shapes'
    BY <2>1, <2>2, Zenon DEF Shapes, Senders
  <2>7. SendersOwn' /\ CallersOwn' /\ BlankPools'
    BY <2>2 DEF SendersOwn, CallersOwn, BlankPools, Senders
  <2> QED
    BY <2>5, <2>6, <2>7
<1>12. ASSUME NEW c \in Conns, Done(c) PROVE WireInv'
  BY <1>12 DEF Done, Reset, ReadersOwn, Shapes, Senders, SendersOwn, CallersOwn, BlankPools
<1>13. ASSUME \/ LateResult \/ Break \/ Reconnect
              \/ \E c \in Conns : Forget(c) \/ ReadUnregistered(c)
              \/ \E t \in Hosted : HandleDirect(t) \/ HandleRequest(t)
              \/ UNCHANGED wireVars
       PROVE  WireInv'
  BY <1>1, <1>13, Zenon DEF LateResult, Break, Reconnect, Forget, ReadUnregistered,
     HandleDirect, HandleRequest, wireVars
<1> QED
  BY <1>2, <1>3, <1>4, <1>6, <1>7, <1>8, <1>9, <1>10, <1>11, <1>12, <1>13, Zenon DEF
     RpcWireNext

\* The inductive invariant holds in every reachable state.
THEOREM WireInvariance == RpcWireSpec => []WireInv
  BY WireInit, WireStep, PTL DEF RpcWireSpec

\* What the pools hold is blank and nobody's: releaseDeliverSendRequest,
\* releaseDeliverReceiveRequest and releaseDeliverResponse reset an object on every
\* path before another goroutine can get it (rpc_wire.go:94-155).
THEOREM PoolsAreBlank == RpcWireSpec => []PoolsBlank
<1>1. WireInv => PoolsBlank
  BY Zenon DEF WireInv, SendersOwn, ReadersOwn, BlankPools, PoolsBlank
<1> QED
  BY <1>1, WireInvariance, PTL

-----------------------------------------------------------------------------
(* Messages: what arrives *)

\* The request that stands for message m.
Encoded(m) ==
    [source |-> m.source, target |-> m.target, number |-> m.id.number,
     text |-> m.id.text, payload |-> m.payload, mode |-> m.mode]

\* Who may send, and what is on its way where.
Everyone == UNION {DOMAIN of : of \in Scripts}
Payloads == {m.payload : m \in Messages}
WirePackets ==
    [request : {Encoded(m) : m \in Messages}, from : Everyone, asks : BOOLEAN,
     for : Payloads]
LoopTasks == [message : Messages, from : Everyone, over : {0} \cup Conns]
Fates == {"unread", "posted", "invalid_message", "service_not_found"}
InHand == [object : RecvObjects, packet : WirePackets, fate : Fates]

\* Messages wait in sequences: with the senders, on the wire and on the Loops.
Streams ==
    /\ Senders \subseteq Everyone /\ conn \in Conns
    /\ \A s \in Senders : script[s] \in Seq(Messages)
    /\ sent \in [{0} \cup Conns -> Seq(Messages)]
    /\ wire \in [Conns -> Seq(WirePackets)]
    /\ reader \in [Conns -> InHand \cup {None}]
    /\ loop \in [Hosted -> Seq(LoopTasks)]
    /\ handled \in [Hosted -> Seq(Messages)]

\* The payloads tell apart what is still to be sent and what was sent; what was
\* sent and is still in a script is the message its sender is at.
ScriptsApart ==
    \A s, r \in Senders : \A i \in DOMAIN script[s], j \in DOMAIN script[r] :
       script[s][i].payload = script[r][j].payload => s = r /\ i = j

SentApart ==
    \A c, d \in DOMAIN sent : \A k \in DOMAIN sent[c], l \in DOMAIN sent[d] :
       sent[c][k].payload = sent[d][l].payload => c = d /\ k = l

SentOnce ==
    \A c \in DOMAIN sent, s \in Senders :
       \A k \in DOMAIN sent[c], i \in DOMAIN script[s] :
          sent[c][k].payload = script[s][i].payload
             => i = 1 /\ pc[s] \in {"wait", "release"}

Distinct == ScriptsApart /\ SentApart /\ SentOnce

\* The object a sender holds is blank until it holds the message.
Filled ==
    \A s \in Senders :
       /\ pc[s] # "idle" => script[s] # <<>>
       /\ pc[s] \in {"fill", "send"} => validate(Message(s).id)
       /\ pc[s] = "fill" => field[held[s]] = Blank
       /\ pc[s] = "send" => field[held[s]] = Encoded(Message(s))

\* A packet of connection c is a message that was sent on it.
Carries(c, packet) ==
    \E k \in DOMAIN sent[c] :
       /\ packet.for = sent[c][k].payload /\ packet.request = Encoded(sent[c][k])
       /\ validate(sent[c][k].id)

Carried ==
    /\ \A c \in Conns : \A i \in DOMAIN wire[c] : Carries(c, wire[c][i])
    /\ \A c \in Conns : reader[c] # None =>
          /\ Carries(c, reader[c].packet)
          /\ reader[c].fate = "unread" => field[reader[c].object] = reader[c].packet.request

-----------------------------------------------------------------------------
\* Putting an element behind a sequence.
LEMMA AppendFacts ==
  ASSUME NEW S, NEW q \in Seq(S), NEW e \in S
  PROVE  /\ Append(q, e) \in Seq(S) /\ Len(q) \in Nat /\ Len(Append(q, e)) = Len(q) + 1
         /\ DOMAIN q = 1..Len(q) /\ DOMAIN Append(q, e) = 1..(Len(q) + 1)
         /\ \A i \in 1..Len(q) : Append(q, e)[i] = q[i]
         /\ Append(q, e)[Len(q) + 1] = e
  OBVIOUS

\* Taking the first element off a sequence.
LEMMA TailFacts ==
  ASSUME NEW S, NEW q \in Seq(S), q # <<>>
  PROVE  /\ Tail(q) \in Seq(S) /\ Len(q) \in Nat \ {0} /\ Len(Tail(q)) = Len(q) - 1
         /\ DOMAIN q = 1..Len(q) /\ DOMAIN Tail(q) = 1..(Len(q) - 1)
         /\ \A i \in 1..(Len(q) - 1) : i + 1 \in DOMAIN q /\ Tail(q)[i] = q[i + 1]
         /\ 1 \in DOMAIN q /\ Head(q) = q[1] /\ Head(q) \in S
OBVIOUS

\* initializeDeliverRequest on a blank object (rpc_wire.go:98-118).
LEMMA Encodes ==
  ASSUME NEW m \in Messages, NEW o, field[o] = Blank
  PROVE  initializeDeliverRequest(o, m) = Encoded(m)
<1>1. m.id.kind = "string" \/ m.id.kind = "numeric"
  BY ScriptAssumption DEF MessageIDs
<1>2. PICK a : a = [Blank EXCEPT !.source = m.source, !.target = m.target]
  OBVIOUS
<1>3. a = [source |-> m.source, target |-> m.target, number |-> 0, text |-> "",
           payload |-> None, mode |-> "direct"]
  BY <1>2 DEF Blank
<1>4. PICK b : b = [a EXCEPT !.payload = m.payload, !.mode = m.mode]
  OBVIOUS
<1>5. b = [source |-> m.source, target |-> m.target, number |-> 0, text |-> "",
           payload |-> m.payload, mode |-> m.mode]
  BY <1>3, <1>4
<1>6. initializeDeliverRequest(o, m) =
        IF m.id.kind = "string" THEN [b EXCEPT !.text = m.id.text]
        ELSE [b EXCEPT !.number = m.id.number]
  BY <1>2, <1>4, Zenon DEF initializeDeliverRequest
<1>7. CASE m.id.kind = "string"
  BY <1>7, ScriptAssumption, <1>5, <1>6, Zenon DEF MessageIDs, Encoded
<1>8. CASE m.id.kind = "numeric"
  BY <1>8, ScriptAssumption, <1>5, <1>6, Zenon DEF MessageIDs, Encoded
<1> QED
  BY <1>1, <1>7, <1>8

\* decodeDeliverRequest gives back what was encoded, or refuses it
\* (rpc_wire.go:219-305).
LEMMA Decodes ==
  ASSUME NEW m \in Messages, validate(m.id), decodeDeliverRequest(Encoded(m))
  PROVE  Decoded(Encoded(m)) = m /\ FromProto(Encoded(m).target) = m.target
<1>1. /\ m \in [source : Keys, target : Keys, id : MessageIDs, payload : Payloads,
                mode : {"direct", "sync"}]
      /\ m.source \in Keys /\ m.target \in Keys /\ m.id \in MessageIDs
  BY ScriptAssumption DEF Payloads
<1>2. rpcInt(m.source.id) /\ rpcInt(m.target.id)
  BY DEF decodeDeliverRequest, Encoded
<1>3. FromProto(m.source) = m.source /\ FromProto(m.target) = m.target
  BY <1>1, <1>2 DEF FromProto, rpcInt, Keys
<1>4. MessageIDOf(Encoded(m)) = m.id
  BY <1>1, Zenon DEF MessageIDOf, Encoded, NumericID, StringID, validate, MessageIDs
<1>5. /\ Encoded(m).source = m.source /\ Encoded(m).target = m.target
      /\ Encoded(m).payload = m.payload /\ Encoded(m).mode = m.mode
  BY DEF Encoded
<1>6. Decoded(Encoded(m)) = [source |-> m.source, target |-> m.target, id |-> m.id,
                             payload |-> m.payload, mode |-> m.mode]
  BY <1>3, <1>4, <1>5 DEF Decoded
<1> QED
  BY <1>1, <1>3, <1>5, <1>6

\* What was sent somewhere.
LEMMA SentSomewhere ==
  ASSUME NEW m
  PROVE  m \in AllSent <=> \E c \in DOMAIN sent : \E k \in DOMAIN sent[c] : m = sent[c][k]
  BY DEF AllSent, Range

\* The steps of RpcWire by what they do to the messages on their way: nothing,
\* connecting again, an end of a message's sending, or one of the steps by name.
LEMMA Flow ==
  ASSUME [RpcWireNext]_wireVars
  PROVE  \/ UNCHANGED <<script, sent, wire, reader, loop, handled, conn>>
         \/ conn' \in Conns /\ UNCHANGED <<script, sent, wire, reader, loop, handled>>
         \/ \E s \in Senders :
              /\ Refused(s) \/ Release(s)
              /\ Finished(s) /\ UNCHANGED <<sent, wire, reader, loop, handled, conn>>
         \/ \E s \in Senders : SendInside(s) \/ Send(s)
         \/ Break
         \/ \E c \in Conns : Read(c) \/ ReadUnregistered(c) \/ Dispatch(c) \/ Done(c)
         \/ \E t \in Hosted : HandleDirect(t) \/ HandleRequest(t)
<1> USE DEF sendVars, poolVars, linkVars, recvVars, historyVars
<1>1. ASSUME NEW s \in Senders, Acquire(s) \/ Fill(s) \/ Result(s) \/ TimesOut(s)
      PROVE  UNCHANGED <<script, sent, wire, reader, loop, handled, conn>>
  BY <1>1, Zenon DEF Acquire, Fill, Result, TimesOut
<1>2. ASSUME LateResult \/ UNCHANGED wireVars \/ \E c \in Conns : Forget(c)
      PROVE  UNCHANGED <<script, sent, wire, reader, loop, handled, conn>>
  BY <1>2, Zenon DEF LateResult, Forget, wireVars
<1>3. ASSUME NEW s \in Senders, Refused(s) \/ Release(s)
      PROVE  Finished(s) /\ UNCHANGED <<sent, wire, reader, loop, handled, conn>>
  BY <1>3, Zenon DEF Refused, Release
<1>4. ASSUME Reconnect
      PROVE  conn' \in Conns /\ UNCHANGED <<script, sent, wire, reader, loop, handled>>
  BY <1>4, Zenon DEF Reconnect
<1> QED
  BY <1>1, <1>2, <1>3, <1>4, Zenon DEF RpcWireNext

\* A handler takes the first task of its Loop.
LEMMA Handles ==
  ASSUME NEW t \in Hosted, HandleDirect(t) \/ HandleRequest(t)
  PROVE  /\ loop[t] # <<>> /\ loop' = [loop EXCEPT ![t] = Tail(@)]
         /\ handled' = [handled EXCEPT ![t] = Append(@, Head(loop[t]).message)]
         /\ UNCHANGED <<script, pc, held, field, sent, wire, reader, conn>>
  BY Zenon DEF HandleDirect, HandleRequest, sendVars, poolVars, linkVars

\* What a sender is at.
LEMMA AtHand ==
  ASSUME Streams, NEW s \in Senders, script[s] # <<>>
  PROVE  Message(s) \in Messages /\ 1 \in DOMAIN script[s] /\ Message(s) = script[s][1]
  BY TailFacts, Zenon DEF Streams, Message

\* A packet in hand that can be decoded is posted as it was sent.
LEMMA Posts ==
  ASSUME Streams, Carried, NEW c \in Conns, reader[c] # None, reader[c].fate = "unread",
         decodeDeliverRequest(field[reader[c].object])
  PROVE  \E k \in DOMAIN sent[c] :
           /\ sent[c][k] \in Messages
           /\ Task(c) = [message |-> sent[c][k], from |-> reader[c].packet.from, over |-> c]
           /\ FromProto(field[reader[c].object].target) = sent[c][k].target
           /\ sent[c][k].payload = reader[c].packet.for
<1>1. PICK k \in DOMAIN sent[c] :
        /\ reader[c].packet.for = sent[c][k].payload
        /\ field[reader[c].object] = Encoded(sent[c][k]) /\ validate(sent[c][k].id)
  BY Zenon DEF Carried, Carries
<1>2. sent[c] \in Seq(Messages)
  BY DEF Streams
<1>3. sent[c][k] \in Messages
  BY <1>1, <1>2
<1>4. /\ Decoded(Encoded(sent[c][k])) = sent[c][k]
      /\ FromProto(Encoded(sent[c][k]).target) = sent[c][k].target
  BY <1>1, <1>3, Decodes, Zenon
<1> QED
  BY <1>1, <1>3, <1>4, Zenon DEF Task

\* Messages stay in their sequences.
LEMMA StreamsStep ==
  ASSUME WireInv, Streams, Filled, Carried, [RpcWireNext]_wireVars
  PROVE  Streams'
<1>s. ASSUME UNCHANGED script
      PROVE  Senders' \subseteq Everyone /\ \A s \in Senders' : script'[s] \in Seq(Messages)
  BY <1>s, Zenon DEF Streams, Senders
<1>f. ASSUME NEW s \in Senders, script[s] # <<>>, Finished(s)
      PROVE  Senders' \subseteq Everyone /\ \A r \in Senders' : script'[r] \in Seq(Messages)
  BY <1>f, TailFacts, Zenon DEF Streams, Finished, Senders
<1>a. ASSUME NEW s \in Senders, script[s] # <<>>, NEW c \in {0} \cup Conns
      PROVE  [sent EXCEPT ![c] = Append(@, Message(s))] \in [{0} \cup Conns -> Seq(Messages)]
  BY <1>a, AtHand, AppendFacts DEF Streams
<1>t. ASSUME NEW c \in Conns, wire[c] # <<>>
      PROVE  /\ [wire EXCEPT ![c] = Tail(@)] \in [Conns -> Seq(WirePackets)]
             /\ Head(wire[c]) \in WirePackets
  BY <1>t, TailFacts, Zenon DEF Streams
<1>l. ASSUME NEW t \in Hosted, NEW e \in LoopTasks
      PROVE  [loop EXCEPT ![t] = Append(@, e)] \in [Hosted -> Seq(LoopTasks)]
  BY <1>l, AppendFacts, Zenon DEF Streams
<1>1. ASSUME NEW s \in Senders, Refused(s) \/ Release(s), Finished(s),
             UNCHANGED <<sent, wire, reader, loop, handled, conn>>
      PROVE  Streams'
  BY <1>1, <1>f, Zenon DEF Refused, Release, Filled, Streams
<1>2. ASSUME NEW s \in Senders, SendInside(s) PROVE Streams'
  BY <1>2, AtHand, <1>l, <1>a, <1>f, Zenon DEF SendInside, linkVars, LoopTasks, Streams
<1>3. ASSUME NEW s \in Senders, Send(s) PROVE Streams'
  <2>1. UNCHANGED <<script, reader, loop, handled, conn>> /\ script[s] # <<>> /\ conn \in Conns
    BY <1>3, Zenon DEF Send, recvVars, Filled, Streams
  <2>2. CASE UNCHANGED <<wire, sent>>
    BY <2>1, <2>2, <1>s, Zenon DEF Streams
  <2>3. CASE /\ sent' = [sent EXCEPT ![conn] = Append(@, Message(s))]
             /\ wire' = [wire EXCEPT ![conn] =
                  Append(@, [request |-> field[held[s]], from |-> s,
                             asks |-> Message(s).mode # "direct", for |-> Message(s).payload])]
    <3>1. Message(s) \in Messages /\ field[held[s]] = Encoded(Message(s)) /\ s \in Everyone
      BY <1>3, <2>1, AtHand, Zenon DEF Filled, Send, Streams
    <3>2. [request |-> field[held[s]], from |-> s, asks |-> Message(s).mode # "direct",
           for |-> Message(s).payload] \in WirePackets
      BY <3>1 DEF WirePackets, Payloads
    <3>3. Append(wire[conn], [request |-> field[held[s]], from |-> s,
            asks |-> Message(s).mode # "direct", for |-> Message(s).payload])
            \in Seq(WirePackets)
      BY <2>1, <3>2, AppendFacts DEF Streams
    <3>4. wire' \in [Conns -> Seq(WirePackets)]
      BY <2>3, <3>3, Zenon DEF Streams
    <3>5. sent' \in [{0} \cup Conns -> Seq(Messages)]
      BY <2>1, <2>3, <1>a, Zenon
    <3> QED
      BY <2>1, <3>4, <3>5, <1>s, Zenon DEF Streams
  <2> QED
    BY <1>3, <2>2, <2>3, Zenon DEF Send
<1>4. ASSUME Break PROVE Streams'
  <2>1. UNCHANGED <<script, sent, reader, loop, handled, conn>>
    BY <1>4, Zenon DEF Break, sendVars, recvVars, historyVars
  <2>2. PICK n \in 0..Len(wire[conn]) : wire' = [wire EXCEPT ![conn] = SubSeq(@, 1, n)]
    BY <1>4, Zenon DEF Break
  <2>3. SubSeq(wire[conn], 1, n) \in Seq(WirePackets)
    BY DEF Streams
  <2> QED
    BY <2>1, <2>2, <2>3, <1>s, Zenon DEF Streams
<1>5. ASSUME NEW c \in Conns, Read(c) PROVE Streams'
  <2>1. /\ UNCHANGED <<script, sent, loop, handled, conn>> /\ wire[c] # <<>>
        /\ wire' = [wire EXCEPT ![c] = Tail(@)]
    BY <1>5, Zenon DEF Read, sendVars, historyVars
  <2>2. PICK o \in recvPool : reader' = [reader EXCEPT ![c] =
          [object |-> o, packet |-> Head(wire[c]), fate |-> "unread"]]
    BY <1>5, Zenon DEF Read
  <2>3. o \in RecvObjects
    BY Zenon DEF WireInv, Shapes
  <2>4. [object |-> o, packet |-> Head(wire[c]), fate |-> "unread"] \in InHand
    BY <2>1, <2>3, <1>t DEF InHand, Fates
  <2> QED
    BY <2>1, <2>2, <2>4, <1>s, <1>t, Zenon DEF Streams
<1>6. ASSUME NEW c \in Conns, ReadUnregistered(c) PROVE Streams'
  BY <1>6, <1>s, <1>t, Zenon DEF ReadUnregistered, sendVars, recvVars, Streams
<1>7. ASSUME NEW c \in Conns, Dispatch(c) PROVE Streams'
  <2>1. /\ UNCHANGED <<script, sent, wire, handled, conn>>
        /\ reader[c] # None /\ reader[c].fate = "unread"
    BY <1>7, Zenon DEF Dispatch, sendVars, linkVars, historyVars
  <2> DEFINE request == field[reader[c].object]
             fate == Fate(request, reader[c].packet.asks)
  <2>2. reader' = [reader EXCEPT ![c].fate = fate] /\ fate \in Fates
    BY <1>7, Zenon DEF Dispatch, Fate, Fates
  <2>3. reader[c] \in InHand
    BY <2>1, Zenon DEF Streams
  <2>4. reader' \in [Conns -> InHand \cup {None}]
    BY <2>2, <2>3, Zenon DEF InHand, Streams
  <2>5. loop' \in [Hosted -> Seq(LoopTasks)]
    <3>1. CASE fate # "posted"
      BY <1>7, <3>1, Zenon DEF Dispatch, Streams
    <3>2. CASE fate = "posted"
      <4>1. decodeDeliverRequest(request) /\ FromProto(request.target) \in Hosted
        BY <3>2 DEF Fate
      <4>2. PICK k \in DOMAIN sent[c] :
              /\ sent[c][k] \in Messages
              /\ Task(c) = [message |-> sent[c][k], from |-> reader[c].packet.from,
                            over |-> c]
        BY <2>1, <4>1, Posts, Zenon
      <4>3. reader[c].packet.from \in Everyone
        BY <2>3 DEF InHand, WirePackets
      <4>4. Task(c) \in LoopTasks
        BY <4>2, <4>3 DEF LoopTasks
      <4>5. loop' = [loop EXCEPT ![FromProto(request.target)] = Append(@, Task(c))]
        BY <1>7, <3>2, Zenon DEF Dispatch, Posted
      <4> QED
        BY <4>1, <4>4, <4>5, <1>l, Zenon
    <3> QED
      BY <3>1, <3>2, Zenon
  <2> QED
    BY <2>1, <2>4, <2>5, <1>s, Zenon DEF Streams
<1>8. ASSUME NEW c \in Conns, Done(c) PROVE Streams'
  BY <1>8, <1>s, Zenon DEF Done, sendVars, Streams
<1>9. ASSUME NEW t \in Hosted, HandleDirect(t) \/ HandleRequest(t) PROVE Streams'
  <2>1. /\ loop[t] # <<>> /\ loop' = [loop EXCEPT ![t] = Tail(@)]
        /\ handled' = [handled EXCEPT ![t] = Append(@, Head(loop[t]).message)]
        /\ UNCHANGED <<script, sent, wire, reader, conn>>
    BY <1>9, Handles, Zenon
  <2>2. Tail(loop[t]) \in Seq(LoopTasks) /\ Head(loop[t]) \in LoopTasks
    BY <2>1, TailFacts, Zenon DEF Streams
  <2>3. Head(loop[t]).message \in Messages
    BY <2>2 DEF LoopTasks
  <2>4. Append(handled[t], Head(loop[t]).message) \in Seq(Messages)
    BY <2>3, AppendFacts, Zenon DEF Streams
  <2> QED
    BY <2>1, <2>2, <2>4, <1>s, Zenon DEF Streams
<1> QED
  BY <1>1, <1>2, <1>3, <1>4, <1>5, <1>6, <1>7, <1>8, <1>9, <1>s, Flow, Zenon DEF Streams

\* A message that its sender has not sent yet was not sent by anybody.
LEMMA Fresh ==
  ASSUME Streams, Distinct, NEW s \in Senders, script[s] # <<>>,
         pc[s] \notin {"wait", "release"}
  PROVE  \A c \in DOMAIN sent : \A k \in DOMAIN sent[c] :
            sent[c][k].payload # Message(s).payload
  BY AtHand DEF Distinct, SentOnce

\* The payloads keep telling the messages apart.
LEMMA DistinctStep ==
  ASSUME WireInv, Streams, Distinct, Filled, [RpcWireNext]_wireVars
  PROVE  Distinct'
<1> USE DEF sendVars, poolVars, linkVars, recvVars, historyVars
<1>p. DOMAIN pc = Senders /\ DOMAIN sent = {0} \cup Conns
  BY Zenon DEF WireInv, Shapes, Streams
<1>k. ASSUME UNCHANGED <<script, sent>>,
             \A s \in Senders : pc[s] \in {"wait", "release"} => pc'[s] \in {"wait", "release"}
      PROVE  Distinct'
  BY <1>k DEF Distinct, ScriptsApart, SentApart, SentOnce, Senders
<1>t. ASSUME NEW s \in Senders, script[s] # <<>>, Finished(s)
      PROVE  /\ Senders' = Senders /\ \A r \in Senders : r # s => script'[r] = script[r]
             /\ \A i \in DOMAIN script'[s] :
                   /\ i \in Nat \ {0} /\ i + 1 \in DOMAIN script[s]
                   /\ script'[s][i] = script[s][i + 1]
  BY <1>t, TailFacts DEF Finished, Senders, Streams
<1>u. ASSUME NEW s \in Senders, script[s] # <<>>, Finished(s)
      PROVE  ScriptsApart'
  <2> SUFFICES ASSUME NEW q \in Senders, NEW r \in Senders, NEW i \in DOMAIN script'[q],
                      NEW j \in DOMAIN script'[r],
                      script'[q][i].payload = script'[r][j].payload
               PROVE  q = r /\ i = j
    BY <1>u, <1>t, Zenon DEF ScriptsApart
  <2>0. \A x, y \in Senders : \A a \in DOMAIN script[x], b \in DOMAIN script[y] :
            script[x][a].payload = script[y][b].payload => x = y /\ a = b
    BY Zenon DEF Distinct, ScriptsApart
  <2>1. CASE q = s /\ r = s
    BY <1>u, <1>t, <2>0, <2>1
  <2>2. CASE q # s /\ r = s
    BY <1>u, <1>t, <2>0, <2>2
  <2>3. CASE q = s /\ r # s
    BY <1>u, <1>t, <2>0, <2>3
  <2>4. CASE q # s /\ r # s
    BY <1>u, <1>t, <2>0, <2>4
  <2> QED
    BY <2>1, <2>2, <2>3, <2>4, Zenon
<1>a. ASSUME NEW s \in Senders, script[s] # <<>>, pc[s] \notin {"wait", "release"},
             NEW c \in DOMAIN sent, sent' = [sent EXCEPT ![c] = Append(@, Message(s))]
      PROVE  /\ DOMAIN sent' = DOMAIN sent
             /\ \A d \in DOMAIN sent : \A k \in DOMAIN sent'[d] :
                   \/ k \in DOMAIN sent[d] /\ sent'[d][k] = sent[d][k]
                   \/ d = c /\ k = Len(sent[c]) + 1 /\ sent'[d][k] = Message(s)
  BY <1>a, AtHand DEF Streams
<1>b. ASSUME NEW s \in Senders, script[s] # <<>>, pc[s] \notin {"wait", "release"},
             NEW c \in DOMAIN sent, sent' = [sent EXCEPT ![c] = Append(@, Message(s))]
      PROVE  SentApart'
  BY <1>b, Fresh, <1>a DEF Distinct, SentApart
<1>1. ASSUME NEW s \in Senders, Refused(s) \/ Release(s), Finished(s), UNCHANGED sent
      PROVE  Distinct'
  <2>1. script[s] # <<>> /\ \A r \in Senders : r # s => pc'[r] = pc[r]
    BY <1>1, <1>p, Zenon DEF Refused, Release, Filled, Goto
  <2>2. SentOnce'
    <3> SUFFICES ASSUME NEW c \in DOMAIN sent, NEW r \in Senders, NEW k \in DOMAIN sent[c],
                        NEW i \in DOMAIN script'[r], sent[c][k].payload = script'[r][i].payload
                 PROVE  i = 1 /\ pc'[r] \in {"wait", "release"}
      BY <1>1, <2>1, <1>t DEF SentOnce
    <3>1. CASE r # s
      BY <1>1, <2>1, <3>1, <1>t DEF Distinct, SentOnce
    <3>2. CASE r = s
      BY <1>1, <2>1, <3>2, <1>t DEF Distinct, SentOnce
    <3> QED
      BY <3>1, <3>2, Zenon
  <2>3. SentApart'
    BY <1>1 DEF Distinct, SentApart
  <2> QED
    BY <1>1, <1>u, <2>1, <2>2, <2>3, Zenon DEF Distinct
<1>2. ASSUME NEW s \in Senders, SendInside(s) PROVE Distinct'
  <2>1. /\ script[s] # <<>> /\ Finished(s) /\ UNCHANGED pc
        /\ sent' = [sent EXCEPT ![0] = Append(@, Message(s))]
        /\ pc[s] = "idle" /\ pc[s] \notin {"wait", "release"} /\ 0 \in DOMAIN sent
    BY <1>2, <1>p, Zenon DEF SendInside
  <2>2. SentOnce'
    <3> SUFFICES ASSUME NEW c \in DOMAIN sent, NEW r \in Senders, NEW k \in DOMAIN sent'[c],
                        NEW i \in DOMAIN script'[r], sent'[c][k].payload = script'[r][i].payload
                 PROVE  i = 1 /\ pc[r] \in {"wait", "release"}
      BY <1>a, <2>1, <1>t DEF SentOnce
    <3>1. PICK j \in DOMAIN script[r] :
            script'[r][i] = script[r][j] /\ (j = i \/ r = s) /\ (r = s => j # 1)
      <4>1. CASE r # s
        BY <2>1, <4>1, <1>t, Zenon
      <4>2. CASE r = s
        <5>1. i \in Nat \ {0} /\ i + 1 \in DOMAIN script[s] /\ script'[s][i] = script[s][i + 1]
          BY <2>1, <4>2, <1>t, Zenon
        <5>2. i + 1 # 1
          BY <5>1
        <5> QED
          BY <4>2, <5>1, <5>2, Zenon
      <4> QED
        BY <4>1, <4>2, Zenon
    <3>2. CASE sent'[c][k] = Message(s)
      BY <2>1, AtHand, <3>1, <3>2 DEF Distinct, ScriptsApart
    <3>3. CASE k \in DOMAIN sent[c] /\ sent'[c][k] = sent[c][k]
      BY <2>1, <3>1, <3>3 DEF Distinct, SentOnce
    <3> QED
      BY <2>1, <1>a, <3>2, <3>3
  <2>3. ScriptsApart'
    BY <1>u, <2>1, Zenon
  <2>4. SentApart'
    BY <1>b, <2>1, Zenon
  <2> QED
    BY <2>2, <2>3, <2>4, Zenon DEF Distinct
<1>3. ASSUME NEW s \in Senders, Send(s) PROVE Distinct'
  <2>1. /\ UNCHANGED script /\ script[s] # <<>> /\ pc[s] = "send" /\ conn \in DOMAIN sent
        /\ pc'[s] \in {"wait", "release"} /\ \A r \in Senders : r # s => pc'[r] = pc[r]
    BY <1>3, <1>p, Zenon DEF Send, Goto, Filled, Streams
  <2>2. CASE UNCHANGED sent
    BY <1>k, <2>1, <2>2, Zenon
  <2>3. CASE sent' = [sent EXCEPT ![conn] = Append(@, Message(s))]
    <3>1. SentOnce'
      <4> SUFFICES ASSUME NEW c \in DOMAIN sent, NEW r \in Senders, NEW k \in DOMAIN sent'[c],
                          NEW i \in DOMAIN script[r], sent'[c][k].payload = script[r][i].payload
                   PROVE  i = 1 /\ pc'[r] \in {"wait", "release"}
        BY <2>1, <2>3 DEF Senders, SentOnce
      <4>1. CASE sent'[c][k] = Message(s)
        BY <2>1, AtHand, <4>1 DEF Distinct, ScriptsApart
      <4>2. CASE k \in DOMAIN sent[c] /\ sent'[c][k] = sent[c][k]
        BY <2>1, <4>2 DEF Distinct, SentOnce
      <4> QED
        BY <2>1, <2>3, <1>a, <4>1, <4>2
    <3>2. ScriptsApart'
      BY <2>1 DEF Distinct, ScriptsApart, Senders
    <3>3. pc[s] \notin {"wait", "release"}
      BY <2>1
    <3>4. SentApart'
      BY <1>b, <2>1, <2>3, <3>3, Zenon
    <3> QED
      BY <3>1, <3>2, <3>4, Zenon DEF Distinct
  <2> QED
    BY <1>3, <2>2, <2>3, Zenon DEF Send
<1>4. ASSUME NEW s \in Senders, Acquire(s) \/ Fill(s) \/ Result(s) \/ TimesOut(s)
      PROVE  Distinct'
  BY <1>4, <1>p, <1>k, Zenon DEF Acquire, Fill, Result, TimesOut, Goto
<1>5. ASSUME LateResult \/ Break \/ Reconnect \/ UNCHANGED wireVars PROVE Distinct'
  BY <1>5, <1>k, Zenon DEF LateResult, Break, Reconnect, wireVars
<1>6. ASSUME NEW c \in Conns,
             Forget(c) \/ Read(c) \/ ReadUnregistered(c) \/ Dispatch(c) \/ Done(c)
      PROVE  Distinct'
  BY <1>6, <1>k, Zenon DEF Forget, Read, ReadUnregistered, Dispatch, Done
<1>7. ASSUME NEW t \in Hosted, HandleDirect(t) \/ HandleRequest(t) PROVE Distinct'
  BY <1>7, <1>k, Handles, Zenon
<1>8. ASSUME NEW s \in Senders, Refused(s) \/ Release(s) PROVE Distinct'
  BY <1>8, <1>1, Zenon DEF Refused, Release
<1> QED
  BY <1>2, <1>3, <1>4, <1>5, <1>6, <1>7, <1>8, Zenon DEF RpcWireNext

\* The objects that senders hold keep what was filled in.
LEMMA FilledStep ==
  ASSUME WireInv, Streams, Filled, [RpcWireNext]_wireVars
  PROVE  Filled'
<1> USE DEF sendVars, poolVars, linkVars, recvVars, historyVars
<1>p. DOMAIN pc = Senders /\ DOMAIN held = Senders /\ SendObjects \subseteq DOMAIN field
  BY Zenon DEF WireInv, Shapes
<1>h. /\ \A r \in Senders : pc[r] # "idle" => held[r] \in SendObjects \ sendPool
      /\ \A r, q \in Senders : r # q /\ pc[r] # "idle" /\ pc[q] # "idle" => held[r] # held[q]
  BY Zenon DEF WireInv, SendersOwn
<1>k. ASSUME UNCHANGED <<script, pc, held>>, \A o \in SendObjects : field'[o] = field[o]
      PROVE  Filled'
  BY <1>k, <1>h, Zenon DEF Senders, Message, Filled
<1>o. ASSUME NEW s \in Senders, Senders' = Senders,
             \A r \in Senders : r # s => /\ script'[r] = script[r] /\ pc'[r] = pc[r]
                                         /\ held'[r] = held[r]
                                         /\ pc[r] # "idle" => field'[held[r]] = field[held[r]],
             /\ pc'[s] # "idle" => script'[s] # <<>>
             /\ pc'[s] \in {"fill", "send"} => validate(Head(script'[s]).id)
             /\ pc'[s] = "fill" => field'[held'[s]] = Blank
             /\ pc'[s] = "send" => field'[held'[s]] = Encoded(Head(script'[s]))
      PROVE  Filled'
  BY <1>o DEF Message, Filled
<1>1. ASSUME NEW s \in Senders, Refused(s) \/ SendInside(s) PROVE Filled'
  BY <1>1, <1>o, Zenon DEF Refused, SendInside, Finished, Senders
<1>2. ASSUME NEW s \in Senders, Acquire(s) PROVE Filled'
  <2>1. PICK o \in sendPool : held' = [held EXCEPT ![s] = o]
    BY <1>2, Zenon DEF Acquire
  <2>2. /\ script[s] # <<>> /\ validate(Message(s).id) /\ UNCHANGED <<script, field>>
        /\ pc' = [pc EXCEPT ![s] = "fill"]
    BY <1>2, Zenon DEF Acquire, Goto
  <2>3. field[o] = Blank
    BY <2>1, Zenon DEF WireInv, BlankPools
  <2>4. /\ pc'[s] = "fill" /\ pc'[s] # "send" /\ held'[s] = o
        /\ \A r \in Senders : r # s => pc'[r] = pc[r] /\ held'[r] = held[r]
    BY <2>1, <2>2, <1>p, Zenon
  <2>5. Senders' = Senders
    BY <2>2 DEF Senders
  <2> QED
    BY <1>o, <2>2, <2>3, <2>4, <2>5, Zenon DEF Message
<1>3. ASSUME NEW s \in Senders, Fill(s) PROVE Filled'
  BY <1>3, <1>h, <1>p, AtHand, Encodes, <1>o DEF Fill, Goto, Filled, Senders, Message
<1>4. ASSUME NEW s \in Senders, Send(s) \/ Result(s) \/ TimesOut(s) PROVE Filled'
  <2>1. UNCHANGED <<script, held, field>> /\ pc[s] # "idle"
    BY <1>4, Zenon DEF Send, Result, TimesOut
  <2>2. PICK label \in {"wait", "release"} : pc' = [pc EXCEPT ![s] = label]
    BY <1>4, Zenon DEF Send, Result, TimesOut, Goto
  <2>3. /\ pc'[s] # "fill" /\ pc'[s] # "send" /\ \A r \in Senders : r # s => pc'[r] = pc[r]
    BY <2>2, <1>p, Zenon
  <2>4. Senders' = Senders /\ script'[s] # <<>>
    BY <2>1, Zenon DEF Senders, Filled
  <2> QED
    BY <1>o, <2>1, <2>3, <2>4, Zenon
<1>5. ASSUME NEW s \in Senders, Release(s) PROVE Filled'
  BY <1>5, <1>p, <1>h, <1>o, Zenon DEF Release, Goto, Finished, Reset, Senders
<1>6. ASSUME NEW c \in Conns, Read(c) PROVE Filled'
  <2>1. PICK o \in recvPool : field' = [field EXCEPT ![o] = Head(wire[c]).request]
    BY <1>6, Zenon DEF Read
  <2>2. UNCHANGED <<script, pc, held>>
    BY <1>6, Zenon DEF Read
  <2>3. o \notin SendObjects
    BY <2>1, PoolsApart, Zenon DEF WireInv, Shapes
  <2> QED
    BY <1>k, <1>p, <2>1, <2>2, <2>3, Zenon
<1>7. ASSUME NEW c \in Conns, Done(c) PROVE Filled'
  BY <1>7, PoolsApart, <1>k, <1>p, Zenon DEF Done, Reset, WireInv, ReadersOwn
<1>8. ASSUME \/ LateResult \/ Break \/ Reconnect \/ UNCHANGED wireVars
             \/ \E c \in Conns : Forget(c) \/ ReadUnregistered(c) \/ Dispatch(c)
      PROVE  Filled'
  BY <1>8, <1>k, Zenon DEF LateResult, Break, Reconnect, wireVars, Forget, ReadUnregistered,
     Dispatch
<1>9. ASSUME NEW t \in Hosted, HandleDirect(t) \/ HandleRequest(t) PROVE Filled'
  BY <1>9, <1>k, Handles, Zenon
<1> QED
  BY <1>1, <1>2, <1>3, <1>4, <1>5, <1>6, <1>7, <1>8, <1>9, Zenon DEF RpcWireNext

\* A packet on its way stays the message that was sent.
LEMMA CarriedStep ==
  ASSUME WireInv, Streams, Filled, Carried, [RpcWireNext]_wireVars
  PROVE  Carried'
<1> USE DEF sendVars, poolVars, linkVars, recvVars, historyVars
<1>p. /\ DOMAIN reader = Conns /\ RecvObjects \subseteq DOMAIN field /\ DOMAIN wire = Conns
      /\ \A c \in Conns : reader[c] # None => reader[c].object \in RecvObjects \ recvPool
      /\ \A c, d \in Conns : c # d /\ reader[c] # None /\ reader[d] # None =>
            reader[c].object # reader[d].object
  BY Zenon DEF WireInv, Shapes, ReadersOwn, Streams
<1>s. ASSUME UNCHANGED sent
      PROVE  \A c \in Conns : \A p : Carries(c, p) => Carries(c, p)'
  BY <1>s, Zenon DEF Carries
<1>a. ASSUME NEW s \in Senders, script[s] # <<>>, NEW d \in DOMAIN sent,
             sent' = [sent EXCEPT ![d] = Append(@, Message(s))]
      PROVE  /\ \A c \in Conns : \A p : Carries(c, p) => Carries(c, p)'
             /\ Len(sent[d]) + 1 \in DOMAIN sent'[d]
             /\ sent'[d][Len(sent[d]) + 1] = Message(s)
  <2>1. sent[d] \in Seq(Messages) /\ Message(s) \in Messages
    BY <1>a, AtHand, Zenon DEF Streams
  <2>2. sent'[d] = Append(sent[d], Message(s)) /\ \A c \in Conns : c # d => sent'[c] = sent[c]
    BY <1>a, Zenon DEF Streams
  <2>3. /\ \A k \in DOMAIN sent[d] : k \in DOMAIN sent'[d] /\ sent'[d][k] = sent[d][k]
        /\ Len(sent[d]) + 1 \in DOMAIN sent'[d]
        /\ sent'[d][Len(sent[d]) + 1] = Message(s)
    BY <2>1, <2>2
  <2> QED
    BY <2>2, <2>3, Zenon DEF Carries
<1>k. ASSUME \A c \in Conns : \A p : Carries(c, p) => Carries(c, p)',
             UNCHANGED <<wire, reader>>, \A o \in RecvObjects : field'[o] = field[o]
      PROVE  Carried'
  BY <1>k, <1>p, Zenon DEF Carried
<1>1. ASSUME NEW s \in Senders, SendInside(s) PROVE Carried'
  BY <1>1, <1>a, <1>k, Zenon DEF SendInside, Streams
<1>2. ASSUME NEW s \in Senders, Send(s) PROVE Carried'
  <2>1. /\ UNCHANGED <<reader, field>> /\ script[s] # <<>> /\ conn \in Conns
        /\ conn \in DOMAIN sent /\ pc[s] = "send"
    BY <1>2, Zenon DEF Send, Filled, Streams
  <2>2. CASE UNCHANGED <<wire, sent>>
    BY <1>s, <1>k, <2>1, <2>2, Zenon
  <2>3. CASE /\ sent' = [sent EXCEPT ![conn] = Append(@, Message(s))]
             /\ wire' = [wire EXCEPT ![conn] =
                  Append(@, [request |-> field[held[s]], from |-> s,
                             asks |-> Message(s).mode # "direct", for |-> Message(s).payload])]
    <3>1. PICK p : p = [request |-> field[held[s]], from |-> s,
                        asks |-> Message(s).mode # "direct", for |-> Message(s).payload]
      OBVIOUS
    <3>2. p.for = Message(s).payload /\ p.request = Encoded(Message(s))
      BY <2>1, <3>1, Zenon DEF Filled
    <3>3. validate(Message(s).id)
      BY <2>1, Zenon DEF Filled
    <3>4. /\ \A c \in Conns : \A q : Carries(c, q) => Carries(c, q)'
          /\ Len(sent[conn]) + 1 \in DOMAIN sent'[conn]
          /\ sent'[conn][Len(sent[conn]) + 1] = Message(s)
      BY <1>a, <2>1, <2>3, Zenon
    <3>5. ASSUME NEW c \in Conns, c = conn PROVE Carries(c, p)'
      BY <3>2, <3>3, <3>4, <3>5 DEF Carries
    <3>6. wire[conn] \in Seq(WirePackets)
      BY <2>1, Zenon DEF Streams
    <3>7. /\ wire'[conn] = Append(wire[conn], p)
          /\ \A c \in Conns : c # conn => wire'[c] = wire[c]
      BY <1>p, <2>1, <2>3, <3>1, Zenon
    <3>8. \A i \in DOMAIN wire'[conn] :
             (i \in DOMAIN wire[conn] /\ wire'[conn][i] = wire[conn][i]) \/ wire'[conn][i] = p
      BY <3>6, <3>7
    <3>9. \A c \in Conns : \A i \in DOMAIN wire'[c] : Carries(c, wire[c][i])'
      <4>1. ASSUME NEW c \in Conns, NEW i \in DOMAIN wire'[c], c # conn
            PROVE  Carries(c, wire[c][i])'
        BY <3>7, <4>1, <3>4, Zenon DEF Carried
      <4>2. ASSUME NEW c \in Conns, NEW i \in DOMAIN wire'[c], c = conn
            PROVE  Carries(c, wire[c][i])'
        BY <3>5, <4>2, <3>4, <3>8, Zenon DEF Carried
      <4> QED
        BY <4>1, <4>2, Zenon
    <3> QED
      BY <2>1, <3>4, <3>9, Zenon DEF Carried
  <2> QED
    BY <1>2, <2>2, <2>3, Zenon DEF Send
<1>3. ASSUME Break PROVE Carried'
  <2>1. UNCHANGED <<sent, reader, field>> /\ conn \in Conns
    BY <1>3, Zenon DEF Break, Streams
  <2>2. PICK n \in 0..Len(wire[conn]) : wire' = [wire EXCEPT ![conn] = SubSeq(@, 1, n)]
    BY <1>3, Zenon DEF Break
  <2>3. wire[conn] \in Seq(WirePackets)
    BY <2>1, Zenon DEF Streams
  <2>4. \A i \in DOMAIN SubSeq(wire[conn], 1, n) :
           i \in DOMAIN wire[conn] /\ SubSeq(wire[conn], 1, n)[i] = wire[conn][i]
    BY <2>3
  <2>5. \A c \in Conns : \A i \in DOMAIN wire'[c] :
           i \in DOMAIN wire[c] /\ wire'[c][i] = wire[c][i]
    BY <1>p, <2>2, <2>4, Zenon
  <2>6. \A c \in Conns : \A i \in DOMAIN wire'[c] : Carries(c, wire[c][i])'
    BY <1>s, <2>1, <2>5 DEF Carried
  <2> QED
    BY <1>s, <2>1, <2>6, Zenon DEF Carried
<1>t. ASSUME NEW c \in Conns, wire[c] # <<>>, wire' = [wire EXCEPT ![c] = Tail(@)],
             UNCHANGED sent
      PROVE  /\ \A d \in Conns : \A i \in DOMAIN wire'[d] : Carries(d, wire[d][i])'
             /\ \A p : p = Head(wire[c]) => Carries(c, p)'
  BY <1>t, TailFacts, <1>p, <1>s DEF Streams, Carried
<1>4. ASSUME NEW c \in Conns, Read(c) PROVE Carried'
  <2>1. /\ UNCHANGED sent /\ wire[c] # <<>> /\ wire' = [wire EXCEPT ![c] = Tail(@)]
    BY <1>4, Zenon DEF Read
  <2>2. PICK o \in recvPool :
          /\ field' = [field EXCEPT ![o] = Head(wire[c]).request]
          /\ reader' = [reader EXCEPT ![c] =
               [object |-> o, packet |-> Head(wire[c]), fate |-> "unread"]]
    BY <1>4, Zenon DEF Read
  <2>3. PICK p : p = Head(wire[c])
    OBVIOUS
  <2>4. Carries(c, p)'
    BY <1>t, <2>1, <2>3, Zenon
  <2>5. o \in DOMAIN field
    BY <1>p, Zenon DEF WireInv, Shapes
  <2>6. /\ reader'[c] = [object |-> o, packet |-> p, fate |-> "unread"]
        /\ \A d \in Conns : d # c => reader'[d] = reader[d]
    BY <1>p, <2>2, <2>3, Zenon
  <2>7. field'[o] = p.request /\ \A x \in DOMAIN field : x # o => field'[x] = field[x]
    BY <2>2, <2>3, <2>5, Zenon
  <2>8. reader'[c].packet = p /\ reader'[c].object = o
    BY <2>6
  <2>9. ASSUME NEW d \in Conns, reader'[d] # None
        PROVE  /\ Carries(d, reader[d].packet)'
               /\ reader'[d].fate = "unread" =>
                     field'[reader'[d].object] = reader'[d].packet.request
    BY <2>4, <2>7, <2>8, <2>2, <2>6, <2>9, <1>p, <1>s, <2>1 DEF Carried
  <2> QED
    BY <1>t, <2>1, <2>9, Zenon DEF Carried
<1>5. ASSUME NEW c \in Conns, ReadUnregistered(c) PROVE Carried'
  BY <1>5, <1>s, <1>t, Zenon DEF ReadUnregistered, Carried
<1>6. ASSUME NEW c \in Conns, Dispatch(c) PROVE Carried'
  <2>1. /\ UNCHANGED <<sent, wire, field>> /\ reader[c] # None
        /\ reader' = [reader EXCEPT ![c].fate =
             Fate(field[reader[c].object], reader[c].packet.asks)]
    BY <1>6, Zenon DEF Dispatch
  <2>2. reader[c] \in InHand
    BY <2>1, Zenon DEF Streams
  <2>3. PICK f : f = Fate(field[reader[c].object], reader[c].packet.asks)
    OBVIOUS
  <2>4. f # "unread"
    BY <2>3, Zenon DEF Fate
  <2>5. /\ reader'[c] = [reader[c] EXCEPT !.fate = f]
        /\ \A d \in Conns : d # c => reader'[d] = reader[d]
    BY <1>p, <2>1, <2>3, Zenon
  <2>6. reader'[c].packet = reader[c].packet /\ reader'[c].fate = f
    BY <2>2, <2>5 DEF InHand
  <2>7. ASSUME NEW d \in Conns, reader'[d] # None
        PROVE  /\ Carries(d, reader[d].packet)'
               /\ reader'[d].fate = "unread" =>
                     field'[reader'[d].object] = reader'[d].packet.request
    BY <1>s, <2>1, <2>4, <2>6, <2>5, <2>7 DEF Carried
  <2>8. \A d \in Conns : \A i \in DOMAIN wire'[d] : Carries(d, wire[d][i])'
    BY <1>s, <2>1, Zenon DEF Carried
  <2> QED
    BY <2>7, <2>8, Zenon DEF Carried
<1>7. ASSUME NEW c \in Conns, Done(c) PROVE Carried'
  BY <1>7, <1>p, <1>s, Zenon DEF Done, Reset, Carried
<1>8. ASSUME NEW s \in Senders, Fill(s) \/ Release(s) PROVE Carried'
  BY <1>8, PoolsApart, <1>k, <1>s, <1>p DEF Fill, Release, Reset, WireInv, SendersOwn
<1>9. ASSUME \/ LateResult \/ Reconnect \/ UNCHANGED wireVars
             \/ \E c \in Conns : Forget(c)
             \/ \E s \in Senders : Refused(s) \/ Acquire(s) \/ Result(s) \/ TimesOut(s)
      PROVE  Carried'
  BY <1>9, <1>k, <1>s, Zenon DEF LateResult, Reconnect, wireVars, Forget, Refused, Acquire,
     Result, TimesOut
<1>10. ASSUME NEW t \in Hosted, HandleDirect(t) \/ HandleRequest(t) PROVE Carried'
  BY <1>10, <1>k, <1>s, Handles, Zenon
<1> QED
  BY <1>1, <1>2, <1>3, <1>4, <1>5, <1>6, <1>7, <1>8, <1>9, <1>10, Zenon DEF RpcWireNext

-----------------------------------------------------------------------------
(* Messages: what the handlers get *)

\* What the handlers of Service t have seen and will see, in order.
SeenLen(t) == Len(handled[t]) + Len(loop[t])
SeenAt(t, i) ==
    IF i <= Len(handled[t]) THEN handled[t][i]
    ELSE loop[t][i - Len(handled[t])].message

\* All of it was sent, and to t.
Arrived ==
    \A t \in Hosted : \A i \in 1..SeenLen(t) :
       SeenAt(t, i) \in AllSent /\ SeenAt(t, i).target = t

\* On connection c, p was sent before q.
Before(c, p, q) ==
    \A k, l \in DOMAIN sent[c] :
       sent[c][k].payload = p /\ sent[c][l].payload = q => k < l

\* What is to come over connection c: the packet in hand, and those on the wire.
Coming(c) ==
    {j \in {0} : reader[c] # None /\ reader[c].fate = "unread"} \cup DOMAIN wire[c]
Item(c, j) == IF j = 0 THEN reader[c].packet.for ELSE wire[c][j].for

\* What is to come over a connection was sent in the order it comes in, and after
\* all that the handlers have seen of it; and they see it in that order.
Ordered ==
    /\ \A c \in Conns : \A i, j \in Coming(c) :
          i < j => Before(c, Item(c, i), Item(c, j))
    /\ \A c \in Conns, t \in Hosted : \A i \in 1..SeenLen(t), j \in Coming(c) :
          Before(c, SeenAt(t, i).payload, Item(c, j))
    /\ \A c \in DOMAIN sent, t \in Hosted : \A i, j \in 1..SeenLen(t) :
          i < j => Before(c, SeenAt(t, i).payload, SeenAt(t, j).payload)

\* Two sequences, one after the other.
LEMMA Places ==
  ASSUME NEW S, NEW h \in Seq(S), NEW T, NEW l \in Seq(T)
  PROVE  /\ Len(h) \in Nat /\ Len(l) \in Nat /\ Len(h) + Len(l) \in Nat
         /\ DOMAIN h = 1..Len(h) /\ DOMAIN l = 1..Len(l)
         /\ \A i \in 1..(Len(h) + Len(l)) :
               IF i <= Len(h) THEN i \in DOMAIN h ELSE i - Len(h) \in DOMAIN l
         /\ \A i \in DOMAIN h : i \in 1..(Len(h) + Len(l)) /\ i <= Len(h)
  OBVIOUS

\* The first element of the second becomes the last of the first.
LEMMA HandOver ==
  ASSUME NEW S, NEW h \in Seq(S), NEW x \in S, NEW T, NEW l \in Seq(T), l # <<>>
  PROVE  /\ Len(Append(h, x)) + Len(Tail(l)) = Len(h) + Len(l)
         /\ \A i \in 1..(Len(h) + Len(l)) :
               \/ /\ i <= Len(h) /\ i <= Len(Append(h, x)) /\ Append(h, x)[i] = h[i]
               \/ /\ ~(i <= Len(h)) /\ i <= Len(Append(h, x)) /\ Append(h, x)[i] = x
                  /\ l[i - Len(h)] = Head(l)
               \/ /\ ~(i <= Len(h)) /\ ~(i <= Len(Append(h, x)))
                  /\ Tail(l)[i - Len(Append(h, x))] = l[i - Len(h)]
<1>1. /\ Len(h) \in Nat /\ Len(Append(h, x)) = Len(h) + 1
      /\ \A i \in 1..Len(h) : Append(h, x)[i] = h[i]
      /\ Append(h, x)[Len(h) + 1] = x
  OBVIOUS
<1>2. /\ Len(l) \in Nat \ {0} /\ Len(Tail(l)) = Len(l) - 1 /\ Head(l) = l[1]
      /\ \A i \in 1..(Len(l) - 1) : Tail(l)[i] = l[i + 1]
  BY TailFacts, Zenon
<1>3. Len(Append(h, x)) + Len(Tail(l)) = Len(h) + Len(l)
  BY <1>1, <1>2
<1>4. ASSUME NEW i \in 1..(Len(h) + Len(l)), i > Len(h) + 1
      PROVE  Tail(l)[i - Len(Append(h, x))] = l[i - Len(h)]
  <2>1. /\ i - (Len(h) + 1) \in 1..(Len(l) - 1) /\ (i - (Len(h) + 1)) + 1 = i - Len(h)
    BY <1>1, <1>2, <1>4
  <2> QED
    BY <1>1, <1>2, <2>1, Zenon
<1>5. ASSUME NEW i \in 1..(Len(h) + Len(l)), i = Len(h) + 1
      PROVE  ~(i <= Len(h)) /\ i <= Len(Append(h, x)) /\ i - Len(h) = 1
  BY <1>1, <1>5
<1>6. ASSUME NEW i \in 1..(Len(h) + Len(l))
      PROVE  \/ i <= Len(h) /\ i <= Len(Append(h, x)) /\ i \in 1..Len(h)
             \/ i = Len(h) + 1
             \/ i > Len(h) + 1 /\ ~(i <= Len(h)) /\ ~(i <= Len(Append(h, x)))
  BY <1>1, <1>2
<1> QED
  BY <1>1, <1>2, <1>3, <1>4, <1>5, <1>6, Zenon

\* An element behind the second.
LEMMA Behind ==
  ASSUME NEW S, NEW h \in Seq(S), NEW T, NEW l \in Seq(T), NEW e \in T
  PROVE  /\ Len(h) + Len(Append(l, e)) = (Len(h) + Len(l)) + 1
         /\ Len(h) + Len(l) \in Nat
         /\ \A i \in 1..(Len(h) + Len(l)) :
               ~(i <= Len(h)) => Append(l, e)[i - Len(h)] = l[i - Len(h)]
         /\ ~((Len(h) + Len(l)) + 1 <= Len(h))
         /\ Append(l, e)[((Len(h) + Len(l)) + 1) - Len(h)] = e
  OBVIOUS

\* What was seen so far, with what its Loop still holds, is a sequence of messages.
LEMMA SeenType ==
  ASSUME Streams, NEW t \in Hosted
  PROVE  /\ SeenLen(t) \in Nat /\ DOMAIN handled[t] = 1..Len(handled[t])
         /\ \A i \in DOMAIN handled[t] : i \in 1..SeenLen(t) /\ SeenAt(t, i) = handled[t][i]
<1>1. handled[t] \in Seq(Messages) /\ loop[t] \in Seq(LoopTasks)
  BY Zenon DEF Streams
<1>2. /\ SeenLen(t) \in Nat /\ DOMAIN handled[t] = 1..Len(handled[t])
      /\ \A i \in DOMAIN handled[t] : i \in 1..SeenLen(t) /\ i <= Len(handled[t])
  BY <1>1, Places, Zenon DEF SeenLen
<1> QED
  BY <1>2, Zenon DEF SeenAt

\* Handling a message moves it from the Loop to what was handled.
LEMMA SeenKept ==
  ASSUME Streams, NEW u \in Hosted, HandleDirect(u) \/ HandleRequest(u), NEW t \in Hosted
  PROVE  SeenLen(t)' = SeenLen(t) /\ \A i \in 1..SeenLen(t) : SeenAt(t, i)' = SeenAt(t, i)
<1>1. /\ loop[u] # <<>> /\ loop' = [loop EXCEPT ![u] = Tail(@)]
      /\ handled' = [handled EXCEPT ![u] = Append(@, Head(loop[u]).message)]
      /\ DOMAIN loop = Hosted /\ DOMAIN handled = Hosted
  BY Handles, Zenon DEF Streams
<1>2. CASE t # u
  <2>1. loop'[t] = loop[t] /\ handled'[t] = handled[t]
    BY <1>1, <1>2, Zenon
  <2> QED
    BY <2>1, Zenon DEF SeenLen, SeenAt
<1>3. CASE t = u
  <2>1. PICK h, l, x : /\ h = handled[t] /\ l = loop[t] /\ x = Head(loop[t]).message
    OBVIOUS
  <2>2. /\ h \in Seq(Messages) /\ l \in Seq(LoopTasks) /\ l # <<>> /\ Head(l) \in LoopTasks
    BY <1>1, <1>3, <2>1, TailFacts, Zenon DEF Streams
  <2>3. x \in Messages /\ x = Head(l).message
    BY <2>1, <2>2 DEF LoopTasks
  <2>4. loop'[t] = Tail(l) /\ handled'[t] = Append(h, x)
    BY <1>1, <1>3, <2>1, Zenon
  <2>5. /\ Len(Append(h, x)) + Len(Tail(l)) = Len(h) + Len(l)
        /\ \A i \in 1..(Len(h) + Len(l)) :
              \/ /\ i <= Len(h) /\ i <= Len(Append(h, x)) /\ Append(h, x)[i] = h[i]
              \/ /\ ~(i <= Len(h)) /\ i <= Len(Append(h, x)) /\ Append(h, x)[i] = x
                 /\ l[i - Len(h)] = Head(l)
              \/ /\ ~(i <= Len(h)) /\ ~(i <= Len(Append(h, x)))
                 /\ Tail(l)[i - Len(Append(h, x))] = l[i - Len(h)]
    BY <2>2, <2>3, HandOver
  <2>6. SeenLen(t)' = SeenLen(t)
    BY <2>1, <2>4, <2>5, Zenon DEF SeenLen
  <2>7. ASSUME NEW i \in 1..SeenLen(t) PROVE SeenAt(t, i)' = SeenAt(t, i)
    <3>1. i \in 1..(Len(h) + Len(l))
      BY <2>1, Zenon DEF SeenLen
    <3>2. /\ SeenAt(t, i)' = IF i <= Len(Append(h, x)) THEN Append(h, x)[i]
                             ELSE Tail(l)[i - Len(Append(h, x))].message
          /\ SeenAt(t, i) = IF i <= Len(h) THEN h[i] ELSE l[i - Len(h)].message
      BY <2>1, <2>4, Zenon DEF SeenAt
    <3> QED
      BY <2>3, <2>5, <3>1, <3>2
  <2> QED
    BY <2>6, <2>7
<1> QED
  BY <1>2, <1>3

\* Posting a task to a Loop puts its message behind all others.
LEMMA SeenGrows ==
  ASSUME Streams, UNCHANGED handled, NEW t \in Hosted, NEW e \in LoopTasks,
         loop' = [loop EXCEPT ![t] = Append(@, e)]
  PROVE  /\ \A u \in Hosted : u # t =>
               SeenLen(u)' = SeenLen(u) /\ \A i : SeenAt(u, i)' = SeenAt(u, i)
         /\ SeenLen(t)' = SeenLen(t) + 1 /\ SeenLen(t) \in Nat
         /\ \A i \in 1..SeenLen(t) : SeenAt(t, i)' = SeenAt(t, i)
         /\ \A i : i = SeenLen(t) + 1 => SeenAt(t, i)' = e.message
<1>1. PICK h, l : h = handled[t] /\ l = loop[t]
  OBVIOUS
<1>2. h \in Seq(Messages) /\ l \in Seq(LoopTasks)
  BY <1>1, Zenon DEF Streams
<1>3. /\ loop'[t] = Append(l, e) /\ handled'[t] = h
      /\ \A u \in Hosted : u # t => loop'[u] = loop[u] /\ handled'[u] = handled[u]
  BY <1>1, Zenon DEF Streams
<1>4. /\ Len(h) + Len(Append(l, e)) = (Len(h) + Len(l)) + 1 /\ Len(h) + Len(l) \in Nat
      /\ \A i \in 1..(Len(h) + Len(l)) :
            ~(i <= Len(h)) => Append(l, e)[i - Len(h)] = l[i - Len(h)]
      /\ ~((Len(h) + Len(l)) + 1 <= Len(h))
      /\ Append(l, e)[((Len(h) + Len(l)) + 1) - Len(h)] = e
  BY <1>2, Behind
<1>5. \A u \in Hosted : u # t =>
         SeenLen(u)' = SeenLen(u) /\ \A i : SeenAt(u, i)' = SeenAt(u, i)
  BY <1>3 DEF SeenLen, SeenAt
<1>6. /\ SeenLen(t)' = SeenLen(t) + 1 /\ SeenLen(t) \in Nat
      /\ SeenLen(t) = Len(h) + Len(l)
  BY <1>1, <1>3, <1>4, Zenon DEF SeenLen
<1>7. \A i : /\ SeenAt(t, i)' = IF i <= Len(h) THEN h[i] ELSE Append(l, e)[i - Len(h)].message
             /\ SeenAt(t, i) = IF i <= Len(h) THEN h[i] ELSE l[i - Len(h)].message
  <2>1. ASSUME NEW i
        PROVE  SeenAt(t, i)' = IF i <= Len(h) THEN h[i] ELSE Append(l, e)[i - Len(h)].message
    <3>1. PICK a, b : a = handled'[t] /\ b = loop'[t]
      OBVIOUS
    <3>2. a = h /\ b = Append(l, e)
      BY <1>3, <3>1, Zenon
    <3>3. /\ i <= Len(a) => SeenAt(t, i)' = a[i]
          /\ ~(i <= Len(a)) => SeenAt(t, i)' = b[i - Len(a)].message
      BY <3>1, Zenon DEF SeenAt
    <3> QED
      BY <3>2, <3>3, Zenon
  <2>2. ASSUME NEW i
        PROVE  SeenAt(t, i) = IF i <= Len(h) THEN h[i] ELSE l[i - Len(h)].message
    BY <1>1, Zenon DEF SeenAt
  <2> QED
    BY <2>1, <2>2, Zenon
<1>8. \A i \in 1..SeenLen(t) : SeenAt(t, i)' = SeenAt(t, i)
  BY <1>4, <1>6, <1>7, Zenon
<1>9. \A i : i = SeenLen(t) + 1 => SeenAt(t, i)' = e.message
  BY <1>4, <1>6, <1>7, Zenon
<1> QED
  BY <1>5, <1>6, <1>8, <1>9, Zenon

\* What Dispatch does: the fate of the packet is settled, and if it is posted, the
\* message that was sent goes behind all others of its target.
LEMMA Dispatches ==
  ASSUME WireInv, Streams, Carried, NEW c \in Conns, Dispatch(c)
  PROVE  /\ UNCHANGED <<sent, wire, handled>> /\ reader[c] # None /\ reader[c].fate = "unread"
         /\ \E f : f # "unread" /\ reader' = [reader EXCEPT ![c].fate = f]
         /\ \/ UNCHANGED loop
            \/ \E t \in Hosted : \E k \in DOMAIN sent[c] : \E e \in LoopTasks :
                 /\ sent[c][k].target = t /\ sent[c][k].payload = reader[c].packet.for
                 /\ e.message = sent[c][k] /\ loop' = [loop EXCEPT ![t] = Append(@, e)]
<1>1. /\ UNCHANGED <<sent, wire, handled>> /\ reader[c] # None /\ reader[c].fate = "unread"
  BY Zenon DEF Dispatch, linkVars, historyVars
<1>2. \E f : f # "unread" /\ reader' = [reader EXCEPT ![c].fate = f]
  <2>1. \A r, asks : Fate(r, asks) # "unread"
    BY Zenon DEF Fate
  <2> QED
    BY <2>1, Zenon DEF Dispatch
<1> DEFINE request == field[reader[c].object]
           fate == Fate(request, reader[c].packet.asks)
<1>3. CASE fate # "posted"
  BY <1>1, <1>2, <1>3, Zenon DEF Dispatch
<1>4. CASE fate = "posted"
  <2>1. decodeDeliverRequest(request) /\ FromProto(request.target) \in Hosted
    BY <1>4 DEF Fate
  <2>2. PICK k \in DOMAIN sent[c] :
          /\ sent[c][k] \in Messages
          /\ Task(c) = [message |-> sent[c][k], from |-> reader[c].packet.from, over |-> c]
          /\ FromProto(request.target) = sent[c][k].target
          /\ sent[c][k].payload = reader[c].packet.for
    BY <1>1, <2>1, Posts, Zenon
  <2>3. reader[c] \in InHand
    BY <1>1, Zenon DEF Streams
  <2>4. Task(c) \in LoopTasks /\ Task(c).message = sent[c][k]
    BY <2>2, <2>3 DEF LoopTasks, InHand, WirePackets
  <2>5. loop' = [loop EXCEPT ![FromProto(request.target)] = Append(@, Task(c))]
    BY <1>4, Zenon DEF Dispatch, Posted
  <2> QED
    BY <1>1, <1>2, <2>1, <2>2, <2>4, <2>5, Zenon
<1> QED
  BY <1>3, <1>4, Zenon

\* What arrives was sent, and arrives at its target.
LEMMA ArrivedStep ==
  ASSUME WireInv, Streams, Filled, Carried, Arrived, [RpcWireNext]_wireVars
  PROVE  Arrived'
<1> USE DEF sendVars, poolVars, linkVars, recvVars, historyVars
<1>s. ASSUME UNCHANGED sent PROVE AllSent' = AllSent
  BY <1>s, Zenon DEF AllSent
<1>a. ASSUME NEW s \in Senders, script[s] # <<>>, NEW d \in DOMAIN sent,
             sent' = [sent EXCEPT ![d] = Append(@, Message(s))]
      PROVE  AllSent \subseteq AllSent' /\ Message(s) \in AllSent'
  <2>1. sent[d] \in Seq(Messages) /\ Message(s) \in Messages
    BY <1>a, AtHand, Zenon DEF Streams
  <2>2. /\ DOMAIN sent' = DOMAIN sent /\ sent'[d] = Append(sent[d], Message(s))
        /\ \A c \in DOMAIN sent : c # d => sent'[c] = sent[c]
    BY <1>a, Zenon
  <2>3. /\ \A k \in DOMAIN sent[d] : k \in DOMAIN sent'[d] /\ sent'[d][k] = sent[d][k]
        /\ Len(sent[d]) + 1 \in DOMAIN sent'[d]
        /\ sent'[d][Len(sent[d]) + 1] = Message(s)
    BY <2>1, <2>2
  <2>4. \A c \in DOMAIN sent : Range(sent[c]) \subseteq Range(sent'[c])
    BY <2>2, <2>3 DEF Range
  <2>5. Message(s) \in Range(sent'[d])
    BY <2>3, Zenon DEF Range
  <2> QED
    BY <2>2, <2>4, <2>5, Zenon DEF AllSent
<1>k. ASSUME AllSent \subseteq AllSent', UNCHANGED <<loop, handled>> PROVE Arrived'
  BY <1>k, Zenon DEF Arrived, SeenLen, SeenAt
<1>g. ASSUME AllSent \subseteq AllSent', UNCHANGED handled, NEW t \in Hosted,
             NEW e \in LoopTasks, loop' = [loop EXCEPT ![t] = Append(@, e)],
             e.message \in AllSent' /\ e.message.target = t
      PROVE  Arrived'
  <2> SUFFICES ASSUME NEW u \in Hosted, NEW i \in 1..(SeenLen(u)')
               PROVE  SeenAt(u, i)' \in AllSent' /\ SeenAt(u, i)'.target = u
    BY Zenon DEF Arrived
  <2>0. /\ \A v \in Hosted : v # t =>
              SeenLen(v)' = SeenLen(v) /\ \A j : SeenAt(v, j)' = SeenAt(v, j)
        /\ SeenLen(t)' = SeenLen(t) + 1 /\ SeenLen(t) \in Nat
        /\ \A j \in 1..SeenLen(t) : SeenAt(t, j)' = SeenAt(t, j)
        /\ \A j : j = SeenLen(t) + 1 => SeenAt(t, j)' = e.message
    BY <1>g, SeenGrows, Zenon
  <2>1. CASE u # t
    BY <1>g, <2>0, <2>1 DEF Arrived
  <2>2. CASE u = t /\ i \in 1..SeenLen(t)
    BY <1>g, <2>0, <2>2 DEF Arrived
  <2>3. CASE u = t /\ i = SeenLen(t) + 1
    BY <1>g, <2>0, <2>3, Zenon
  <2>4. u = t => i \in 1..(SeenLen(t) + 1) /\ SeenLen(t) \in Nat
    BY <2>0, Zenon
  <2>5. u = t => i \in 1..SeenLen(t) \/ i = SeenLen(t) + 1
    BY <2>4
  <2> QED
    BY <2>1, <2>2, <2>3, <2>5, Zenon
<1>1. ASSUME NEW s \in Senders, SendInside(s) PROVE Arrived'
  <2>1. /\ script[s] # <<>> /\ 0 \in DOMAIN sent /\ UNCHANGED handled
        /\ sent' = [sent EXCEPT ![0] = Append(@, Message(s))]
        /\ loop' = [loop EXCEPT ![Message(s).target] =
                      Append(@, [message |-> Message(s), from |-> s, over |-> 0])]
    BY <1>1, Zenon DEF SendInside, Streams
  <2>2. PICK e : e = [message |-> Message(s), from |-> s, over |-> 0]
    OBVIOUS
  <2>3. e \in LoopTasks /\ e.message = Message(s)
    BY <2>1, <2>2, AtHand DEF LoopTasks, Streams
  <2>4. AllSent \subseteq AllSent' /\ Message(s) \in AllSent'
    BY <1>a, <2>1, Zenon
  <2>5. CASE Message(s).target \in Hosted
    BY <1>g, <2>1, <2>2, <2>3, <2>4, <2>5, Zenon
  <2>6. CASE Message(s).target \notin Hosted
    <3>1. UNCHANGED loop
      BY <2>1, <2>6 DEF Streams
    <3> QED
      BY <1>k, <2>1, <2>4, <3>1
  <2> QED
    BY <2>5, <2>6, Zenon
<1>2. ASSUME NEW s \in Senders, Send(s) PROVE Arrived'
  <2>1. /\ script[s] # <<>> /\ conn \in DOMAIN sent /\ UNCHANGED <<loop, handled>>
    BY <1>2, Zenon DEF Send, Filled, Streams
  <2>2. AllSent \subseteq AllSent'
    BY <1>2, <1>a, <1>s, <2>1, Zenon DEF Send
  <2> QED
    BY <1>k, <2>1, <2>2, Zenon
<1>3. ASSUME NEW c \in Conns, Dispatch(c) PROVE Arrived'
  <2>1. AllSent' = AllSent /\ UNCHANGED handled
    BY <1>3, <1>s, Dispatches, Zenon
  <2>2. CASE UNCHANGED loop
    BY <1>k, <2>1, <2>2, Zenon
  <2>3. ASSUME NEW t \in Hosted, NEW k \in DOMAIN sent[c], NEW e \in LoopTasks,
               sent[c][k].target = t, e.message = sent[c][k],
               loop' = [loop EXCEPT ![t] = Append(@, e)]
        PROVE  Arrived'
    <3>1. c \in DOMAIN sent
      BY Zenon DEF Streams
    <3>2. e.message \in AllSent
      BY <2>3, <3>1, SentSomewhere, Zenon
    <3> QED
      BY <1>g, <2>1, <2>3, <3>2, Zenon
  <2> QED
    BY <1>3, <2>2, <2>3, Dispatches
<1>4. ASSUME NEW t \in Hosted, HandleDirect(t) \/ HandleRequest(t) PROVE Arrived'
  <2>1. AllSent' = AllSent
    BY <1>4, <1>s, Handles, Zenon
  <2> QED
    BY <1>4, <2>1, SeenKept DEF Arrived
<1>5. ASSUME NEW c \in Conns, Read(c) \/ ReadUnregistered(c) \/ Done(c) PROVE Arrived'
  BY <1>5, <1>k, <1>s, Zenon DEF Read, ReadUnregistered, Done
<1>6. ASSUME Break PROVE Arrived'
  BY <1>6, <1>k, <1>s, Zenon DEF Break
<1> QED
  BY <1>1, <1>2, <1>3, <1>4, <1>5, <1>6, <1>k, <1>s, Flow, Zenon

\* What is to come over a connection, and what arrived, was sent.
LEMMA ComingSent ==
  ASSUME Streams, Carried, Arrived
  PROVE  /\ \A c \in Conns : \A j \in Coming(c) : \E k \in DOMAIN sent[c] :
               Item(c, j) = sent[c][k].payload
         /\ \A t \in Hosted : \A i \in 1..SeenLen(t) :
               \E d \in DOMAIN sent : \E k \in DOMAIN sent[d] :
                  SeenAt(t, i).payload = sent[d][k].payload
<1>1. ASSUME NEW c \in Conns, NEW j \in Coming(c)
      PROVE  \E k \in DOMAIN sent[c] : Item(c, j) = sent[c][k].payload
  <2>1. wire[c] \in Seq(WirePackets)
    BY Zenon DEF Streams
  <2>2. 0 \notin DOMAIN wire[c]
    BY <2>1
  <2>3. CASE j = 0
    BY <1>1, <2>2, <2>3, Zenon DEF Coming, Item, Carried, Carries
  <2>4. CASE j # 0
    BY <1>1, <2>4, Zenon DEF Coming, Item, Carried, Carries
  <2> QED
    BY <2>3, <2>4
<1>2. \A t \in Hosted : \A i \in 1..SeenLen(t) :
         \E d \in DOMAIN sent : \E k \in DOMAIN sent[d] :
            SeenAt(t, i).payload = sent[d][k].payload
  BY SentSomewhere, Zenon DEF Arrived
<1> QED
  BY <1>1, <1>2, Zenon

\* Sending a new message: it comes after all others, and changes nothing for them.
LEMMA BeforeGrows ==
  ASSUME Streams, NEW d \in DOMAIN sent, NEW m \in Messages,
         sent' = [sent EXCEPT ![d] = Append(@, m)],
         \A c \in DOMAIN sent : \A k \in DOMAIN sent[c] : sent[c][k].payload # m.payload
  PROVE  \A c \in DOMAIN sent : \A p :
            /\ p # m.payload =>
                  /\ Before(c, p, m.payload)'
                  /\ \A q : q # m.payload /\ Before(c, p, q) => Before(c, p, q)'
            /\ c # d => \A q : Before(c, m.payload, q)' /\ Before(c, q, m.payload)'
<1>1. sent[d] \in Seq(Messages)
  BY Zenon DEF Streams
<1>2. /\ sent'[d] = Append(sent[d], m) /\ \A c \in DOMAIN sent : c # d => sent'[c] = sent[c]
  BY Zenon
<1>3. /\ Len(sent[d]) \in Nat /\ DOMAIN sent[d] = 1..Len(sent[d])
      /\ DOMAIN sent'[d] = 1..(Len(sent[d]) + 1)
      /\ \A k \in 1..Len(sent[d]) : sent'[d][k] = sent[d][k]
      /\ sent'[d][Len(sent[d]) + 1] = m
  BY <1>1, <1>2, AppendFacts
<1>4. /\ \A k \in DOMAIN sent'[d] : sent'[d][k].payload = m.payload => k = Len(sent[d]) + 1
      /\ \A k \in DOMAIN sent'[d] : sent'[d][k].payload # m.payload =>
            k \in DOMAIN sent[d] /\ sent'[d][k] = sent[d][k] /\ k < Len(sent[d]) + 1
  BY <1>3
<1>5. ASSUME NEW p, p # m.payload
      PROVE  Before(d, p, m.payload)' /\
             \A q : q # m.payload /\ Before(d, p, q) => Before(d, p, q)'
  BY <1>4, <1>5 DEF Before
<1>6. ASSUME NEW c \in DOMAIN sent, c # d
      PROVE  \A p, q : /\ Before(c, p, q) => Before(c, p, q)'
                       /\ Before(c, m.payload, q)' /\ Before(c, q, m.payload)'
  BY <1>2, <1>6, Zenon DEF Before
<1> QED
  BY <1>5, <1>6, Zenon

\* What is to come shifts by at most one place.
Shifts(c) ==
    \E d \in {0, 1} : \A j \in Coming(c)' :
       j \in Nat /\ j + d \in Coming(c) /\ Item(c, j)' = Item(c, j + d)

\* Reading, giving up on and settling a packet, and a break, only take from what is
\* to come.
LEMMA Shift ==
  ASSUME Streams, NEW c \in Conns, Break \/ Read(c) \/ ReadUnregistered(c) \/ Done(c)
  PROVE  \A e \in Conns : Shifts(e)
<1> USE DEF sendVars, poolVars, linkVars, recvVars, historyVars
<1>0. \A e \in Conns : /\ wire[e] \in Seq(WirePackets) /\ 0 \notin DOMAIN wire[e]
                       /\ DOMAIN wire[e] \subseteq Nat
  <2>1. \A e \in Conns : wire[e] \in Seq(WirePackets)
    BY Zenon DEF Streams
  <2> QED
    BY <2>1
<1>k. ASSUME NEW e \in Conns, wire'[e] = wire[e], reader'[e] = reader[e] PROVE Shifts(e)
  <2>1. Coming(e)' = Coming(e) /\ \A j \in Coming(e) : Item(e, j)' = Item(e, j)
    BY <1>k, Zenon DEF Coming, Item
  <2>2. \A j \in Coming(e) : j \in Nat /\ j + 0 = j
    BY <1>0 DEF Coming
  <2> QED
    BY <2>1, <2>2, Zenon DEF Shifts
<1>r. DOMAIN reader = Conns /\ DOMAIN wire = Conns
  BY Zenon DEF Streams
<1>1. CASE Break
  <2>1. UNCHANGED reader /\ conn \in Conns
    BY <1>1, Zenon DEF Break, Streams
  <2>2. PICK n \in 0..Len(wire[conn]) : wire' = [wire EXCEPT ![conn] = SubSeq(@, 1, n)]
    BY <1>1, Zenon DEF Break
  <2>3. /\ wire'[conn] = SubSeq(wire[conn], 1, n)
        /\ \A e \in Conns : e # conn => wire'[e] = wire[e]
    BY <1>r, <2>1, <2>2
  <2>4. \A j \in DOMAIN wire'[conn] : j \in DOMAIN wire[conn] /\ wire'[conn][j] = wire[conn][j]
    BY <1>0, <2>1, <2>3
  <2>5. ASSUME NEW e \in Conns, e = conn PROVE Shifts(e)
    <3>1. \A j \in Coming(e)' : j \in Coming(e) /\ Item(e, j)' = Item(e, j)
      BY <2>1, <2>4, <2>5, Zenon DEF Coming, Item
    <3>2. \A j \in Coming(e) : j \in Nat /\ j + 0 = j
      BY <1>0 DEF Coming
    <3> QED
      BY <3>1, <3>2, Zenon DEF Shifts
  <2> QED
    BY <1>k, <2>1, <2>3, <2>5, Zenon
<1>t. ASSUME reader[c] = None, wire[c] # <<>>, wire' = [wire EXCEPT ![c] = Tail(@)],
             reader'[c] = None \/ reader'[c].packet = Head(wire[c])
      PROVE  Shifts(c)
  <2>1. wire'[c] = Tail(wire[c]) /\ wire[c] \in Seq(WirePackets)
    BY <1>0, <1>r, <1>t, Zenon
  <2>2. /\ Len(wire[c]) \in Nat \ {0} /\ DOMAIN Tail(wire[c]) = 1..(Len(wire[c]) - 1)
        /\ \A j \in 1..(Len(wire[c]) - 1) :
              j + 1 \in DOMAIN wire[c] /\ Tail(wire[c])[j] = wire[c][j + 1]
        /\ 1 \in DOMAIN wire[c] /\ Head(wire[c]) = wire[c][1]
    BY <1>t, <2>1, TailFacts, Zenon
  <2>3. ASSUME NEW j \in Coming(c)'
        PROVE  j \in Nat /\ j + 1 \in Coming(c) /\ Item(c, j)' = Item(c, j + 1)
    <3>1. CASE j \in DOMAIN wire'[c]
      <4>1. j \in 1..(Len(wire[c]) - 1)
        BY <2>1, <2>2, <3>1, Zenon
      <4>2. j \in Nat /\ j # 0 /\ j + 1 # 0
        BY <2>2, <4>1
      <4>3. j + 1 \in DOMAIN wire[c] /\ wire'[c][j] = wire[c][j + 1]
        BY <2>1, <2>2, <4>1, Zenon
      <4> QED
        BY <4>2, <4>3, Zenon DEF Coming, Item
    <3>2. CASE j = 0 /\ reader'[c] # None
      <4>1. j + 1 = 1 /\ 1 # 0 /\ j \in Nat
        BY <3>2
      <4>2. Item(c, j)' = wire[c][1].for
        BY <1>t, <2>2, <3>2, Zenon DEF Item
      <4> QED
        BY <2>2, <4>1, <4>2, Zenon DEF Coming, Item
    <3> QED
      BY <2>3, <3>1, <3>2, Zenon DEF Coming
  <2> QED
    BY <2>3, Zenon DEF Shifts
<1>2. CASE Read(c)
  <2>1. /\ reader[c] = None /\ wire[c] # <<>> /\ wire' = [wire EXCEPT ![c] = Tail(@)]
    BY <1>2, Zenon DEF Read
  <2>2. PICK o \in recvPool : reader' = [reader EXCEPT ![c] =
          [object |-> o, packet |-> Head(wire[c]), fate |-> "unread"]]
    BY <1>2, Zenon DEF Read
  <2>3. /\ reader'[c] = [object |-> o, packet |-> Head(wire[c]), fate |-> "unread"]
        /\ \A e \in Conns : e # c => reader'[e] = reader[e] /\ wire'[e] = wire[e]
    BY <1>r, <2>1, <2>2, Zenon
  <2>4. reader'[c].packet = Head(wire[c])
    BY <2>3
  <2> QED
    BY <1>k, <1>t, <2>1, <2>3, <2>4, Zenon
<1>3. CASE ReadUnregistered(c)
  <2>1. /\ reader[c] = None /\ wire[c] # <<>> /\ wire' = [wire EXCEPT ![c] = Tail(@)]
        /\ UNCHANGED reader
    BY <1>3, Zenon DEF ReadUnregistered
  <2>2. \A e \in Conns : e # c => wire'[e] = wire[e]
    BY <1>r, <2>1, Zenon
  <2> QED
    BY <1>k, <1>t, <2>1, <2>2, Zenon
<1>4. CASE Done(c)
  <2>1. /\ reader[c].fate # "unread" /\ UNCHANGED wire /\ reader' = [reader EXCEPT ![c] = None]
    BY <1>4, Zenon DEF Done
  <2>2. reader'[c] = None /\ \A e \in Conns : e # c => reader'[e] = reader[e]
    BY <1>r, <2>1, Zenon
  <2>3. Coming(c)' = Coming(c) /\ \A j \in Coming(c) : j # 0 /\ Item(c, j)' = Item(c, j)
    BY <1>0, <2>1, <2>2, Zenon DEF Coming, Item
  <2>4. \A j \in Coming(c) : j \in Nat /\ j + 0 = j
    BY <1>0 DEF Coming
  <2>5. Shifts(c)
    BY <2>3, <2>4, Zenon DEF Shifts
  <2> QED
    BY <1>k, <2>1, <2>2, <2>5, Zenon
<1> QED
  BY <1>1, <1>2, <1>3, <1>4, Zenon

\* What arrives keeps the order in which it was sent.
LEMMA OrderedStep ==
  ASSUME WireInv, Streams, Distinct, Filled, Carried, Arrived, Ordered, [RpcWireNext]_wireVars
  PROVE  Ordered'
<1> USE DEF sendVars, poolVars, linkVars, recvVars, historyVars
<1>d. DOMAIN sent = {0} \cup Conns
  BY Zenon DEF Streams
<1>s. ASSUME UNCHANGED sent PROVE \A c, p, q : Before(c, p, q)' = Before(c, p, q)
  BY <1>s, Zenon DEF Before
<1>k. ASSUME UNCHANGED sent, \A c \in Conns : Shifts(c),
             \A t \in Hosted : /\ SeenLen(t)' = SeenLen(t)
                               /\ \A i \in 1..SeenLen(t) : SeenAt(t, i)' = SeenAt(t, i)
      PROVE  Ordered'
  <2>1. ASSUME NEW c \in Conns, NEW i \in Coming(c)', NEW j \in Coming(c)', i < j
        PROVE  Before(c, Item(c, i), Item(c, j))'
    <3>1. PICK d \in {0, 1} : \A x \in Coming(c)' :
            x \in Nat /\ x + d \in Coming(c) /\ Item(c, x)' = Item(c, x + d)
      BY <1>k, Zenon DEF Shifts
    <3>2. i \in Nat /\ j \in Nat
      BY <3>1, Zenon
    <3>3. i + d < j + d
      BY <2>1, <3>2
    <3>4. Before(c, Item(c, i + d), Item(c, j + d))
      BY <3>1, <3>3, Zenon DEF Ordered
    <3> QED
      BY <1>k, <1>s, <3>1, <3>4, Zenon
  <2>2. ASSUME NEW c \in Conns, NEW t \in Hosted, NEW i \in 1..SeenLen(t), NEW j \in Coming(c)'
        PROVE  Before(c, SeenAt(t, i).payload, Item(c, j))'
    <3>1. PICK x \in Coming(c) : Item(c, j)' = Item(c, x)
      BY <1>k, Zenon DEF Shifts
    <3>2. Before(c, SeenAt(t, i).payload, Item(c, x))
      BY Zenon DEF Ordered
    <3> QED
      BY <1>k, <1>s, <3>1, <3>2, Zenon
  <2>3. ASSUME NEW c \in DOMAIN sent, NEW t \in Hosted, NEW i \in 1..SeenLen(t),
               NEW j \in 1..SeenLen(t), i < j
        PROVE  Before(c, SeenAt(t, i).payload, SeenAt(t, j).payload)'
    <3>1. Before(c, SeenAt(t, i).payload, SeenAt(t, j).payload)
      BY <2>3, Zenon DEF Ordered
    <3> QED
      BY <1>k, <1>s, <3>1, Zenon
  <2> QED
    BY <1>k, <2>1, <2>2, <2>3, Zenon DEF Ordered
<1>1. ASSUME UNCHANGED <<sent, wire, reader, loop, handled>> PROVE Ordered'
  <2>1. \A c \in Conns : Coming(c)' = Coming(c) /\ \A j : Item(c, j)' = Item(c, j)
    BY <1>1, Zenon DEF Coming, Item
  <2>2. \A t \in Hosted : SeenLen(t)' = SeenLen(t) /\ \A i : SeenAt(t, i)' = SeenAt(t, i)
    BY <1>1, Zenon DEF SeenLen, SeenAt
  <2>3. \A c, p, q : Before(c, p, q)' = Before(c, p, q)
    BY <1>1, <1>s, Zenon
  <2> QED
    BY <1>1, <2>1, <2>2, <2>3 DEF Ordered
<1>2. ASSUME NEW c \in Conns, Break \/ Read(c) \/ ReadUnregistered(c) \/ Done(c)
      PROVE  Ordered'
  <2>1. UNCHANGED <<sent, loop, handled>>
    BY <1>2, Zenon DEF Break, Read, ReadUnregistered, Done
  <2>2. \A t \in Hosted : SeenLen(t)' = SeenLen(t) /\ \A i : SeenAt(t, i)' = SeenAt(t, i)
    BY <2>1, Zenon DEF SeenLen, SeenAt
  <2> QED
    BY <1>2, <1>k, <2>1, <2>2, Shift, Zenon
<1>3. ASSUME NEW t \in Hosted, HandleDirect(t) \/ HandleRequest(t) PROVE Ordered'
  <2>1. UNCHANGED <<sent, wire, reader>>
    BY <1>3, Handles, Zenon
  <2>2. \A c \in Conns : \A j \in Coming(c)' :
           j \in Coming(c) /\ Item(c, j)' = Item(c, j)
    BY <2>1, Zenon DEF Coming, Item
  <2>3. \A c \in Conns : \A j \in Coming(c) : j \in Nat /\ j + 0 = j
    <3>1. \A c \in Conns : wire[c] \in Seq(WirePackets)
      BY Zenon DEF Streams
    <3> QED
      BY <3>1 DEF Coming
  <2>4. \A c \in Conns : Shifts(c)
    BY <2>2, <2>3, Zenon DEF Shifts
  <2> QED
    BY <1>3, <1>k, <2>1, <2>4, SeenKept, Zenon
<1>4. ASSUME NEW b \in Conns, Dispatch(b) PROVE Ordered'
  <2>1. /\ UNCHANGED <<sent, wire, handled>> /\ reader[b] # None /\ reader[b].fate = "unread"
    BY <1>4, Dispatches, Zenon
  <2>2. PICK f : f # "unread" /\ reader' = [reader EXCEPT ![b].fate = f]
    BY <1>4, Dispatches, Zenon
  <2>3. reader[b] \in InHand /\ DOMAIN reader = Conns
    BY <2>1, Zenon DEF Streams
  <2>4. /\ reader'[b] = [reader[b] EXCEPT !.fate = f]
        /\ \A c \in Conns : c # b => reader'[c] = reader[c]
    BY <2>2, <2>3, Zenon
  <2>5. reader'[b].fate = f /\ reader'[b].packet = reader[b].packet
    BY <2>3, <2>4 DEF InHand
  <2>6. \A c \in Conns : wire[c] \in Seq(WirePackets)
    BY Zenon DEF Streams
  <2>7. \A c \in Conns : 0 \notin DOMAIN wire[c] /\ \A j \in Coming(c) : j \in Nat /\ j + 0 = j
    BY <2>6 DEF Coming
  <2>8. /\ 0 \in Coming(b) /\ Item(b, 0) = reader[b].packet.for /\ 0 \notin Coming(b)'
        /\ \A c \in Conns : \A j \in Coming(c)' : j \in Coming(c) /\ Item(c, j)' = Item(c, j)
    <3>1. 0 \in Coming(b) /\ Item(b, 0) = reader[b].packet.for
      BY <2>1, Zenon DEF Coming, Item
    <3>2. 0 \notin Coming(b)'
      BY <2>1, <2>2, <2>5, <2>7, Zenon DEF Coming
    <3>3. ASSUME NEW j \in Coming(b)' PROVE j \in Coming(b) /\ Item(b, j)' = Item(b, j)
      BY <2>1, <3>2, <3>3, Zenon DEF Coming, Item
    <3>4. ASSUME NEW c \in Conns, c # b
          PROVE  \A j \in Coming(c)' : j \in Coming(c) /\ Item(c, j)' = Item(c, j)
      BY <2>1, <2>4, <3>4, Zenon DEF Coming, Item
    <3> QED
      BY <3>1, <3>2, <3>3, <3>4, Zenon
  <2>9. CASE UNCHANGED loop
    <3>1. \A c \in Conns : Shifts(c)
      BY <2>7, <2>8, Zenon DEF Shifts
    <3>2. \A t \in Hosted : SeenLen(t)' = SeenLen(t) /\ \A i : SeenAt(t, i)' = SeenAt(t, i)
      BY <2>1, <2>9, Zenon DEF SeenLen, SeenAt
    <3> QED
      BY <1>k, <2>1, <3>1, <3>2, Zenon
  <2>10. ASSUME NEW t \in Hosted, NEW k \in DOMAIN sent[b], NEW e \in LoopTasks,
                sent[b][k].payload = reader[b].packet.for, e.message = sent[b][k],
                loop' = [loop EXCEPT ![t] = Append(@, e)]
         PROVE  Ordered'
    <3> DEFINE p == e.message.payload
    <3>1. p = Item(b, 0) /\ p = sent[b][k].payload /\ b \in DOMAIN sent
      <4>1. Item(b, 0) = reader[b].packet.for
        BY <2>8, Zenon
      <4>2. b \in DOMAIN sent
        BY <1>d, Zenon
      <4> QED
        BY <2>10, <4>1, <4>2, Zenon
    <3>2. \A c \in DOMAIN sent : c # b => \A q : Before(c, p, q) /\ Before(c, q, p)
      <4>1. \A c \in DOMAIN sent : c # b =>
               \A l \in DOMAIN sent[c] : sent[c][l].payload # p
        BY <3>1 DEF Distinct, SentApart
      <4> QED
        BY <4>1, Zenon DEF Before
    <3>3. \A c, x, y : Before(c, x, y)' = Before(c, x, y)
      BY <1>s, <2>1, Zenon
    <3>4. /\ \A u \in Hosted : u # t =>
                SeenLen(u)' = SeenLen(u) /\ \A i : SeenAt(u, i)' = SeenAt(u, i)
          /\ SeenLen(t)' = SeenLen(t) + 1 /\ SeenLen(t) \in Nat
          /\ \A i \in 1..SeenLen(t) : SeenAt(t, i)' = SeenAt(t, i)
          /\ \A i : i = SeenLen(t) + 1 => SeenAt(t, i)' = e.message
      BY <2>1, <2>10, SeenGrows, Zenon
    <3>5. ASSUME NEW u \in Hosted, NEW i \in 1..(SeenLen(u)')
          PROVE  \/ i \in 1..SeenLen(u) /\ SeenAt(u, i)' = SeenAt(u, i)
                 \/ u = t /\ i = SeenLen(t) + 1 /\ SeenAt(u, i)'.payload = p
      <4>1. CASE u # t
        BY <3>4, <3>5, <4>1, Zenon
      <4>2. CASE u = t
        <5>1. i \in 1..(SeenLen(t) + 1) /\ SeenLen(t) \in Nat
          BY <3>4, <3>5, <4>2, Zenon
        <5>2. i \in 1..SeenLen(t) \/ i = SeenLen(t) + 1
          BY <5>1
        <5> QED
          BY <3>4, <4>2, <5>2, Zenon
      <4> QED
        BY <4>1, <4>2
    <3>6. ASSUME NEW c \in Conns, NEW i \in Coming(c)', NEW j \in Coming(c)', i < j
          PROVE  Before(c, Item(c, i), Item(c, j))'
      <4>1. Before(c, Item(c, i), Item(c, j))
        BY <2>8, <3>6, Zenon DEF Ordered
      <4> QED
        BY <2>8, <3>3, <4>1, Zenon
    <3>7. ASSUME NEW c \in Conns, NEW u \in Hosted, NEW i \in 1..(SeenLen(u)'),
                 NEW j \in Coming(c)'
          PROVE  Before(c, SeenAt(u, i).payload, Item(c, j))'
      <4>1. j \in Coming(c) /\ Item(c, j)' = Item(c, j) /\ c \in DOMAIN sent
        BY <1>d, <2>8, Zenon
      <4>2. CASE i \in 1..SeenLen(u) /\ SeenAt(u, i)' = SeenAt(u, i)
        <5>1. Before(c, SeenAt(u, i).payload, Item(c, j))
          BY <4>1, <4>2, Zenon DEF Ordered
        <5> QED
          BY <3>3, <4>1, <4>2, <5>1, Zenon
      <4>3. CASE SeenAt(u, i)'.payload = p
        <5>1. CASE c # b
          BY <3>2, <3>3, <4>1, <4>3, <5>1, Zenon
        <5>2. CASE c = b
          <6>1. j # 0 /\ j \in Nat
            BY <2>7, <2>8, <4>1, <5>2, Zenon
          <6>2. 0 < j
            BY <6>1
          <6>3. Before(c, p, Item(c, j))
            BY <2>8, <3>1, <4>1, <5>2, <6>2, Zenon DEF Ordered
          <6> QED
            BY <3>3, <4>1, <4>3, <6>3, Zenon
        <5> QED
          BY <5>1, <5>2
      <4> QED
        BY <3>5, <4>2, <4>3, Zenon
    <3>8. ASSUME NEW c \in DOMAIN sent, NEW u \in Hosted, NEW i \in 1..(SeenLen(u)'),
                 NEW j \in 1..(SeenLen(u)'), i < j
          PROVE  Before(c, SeenAt(u, i).payload, SeenAt(u, j).payload)'
      <4>1. CASE j \in 1..SeenLen(u) /\ SeenAt(u, j)' = SeenAt(u, j)
        <5>1. i \in 1..SeenLen(u)
          <6>1. SeenLen(u) \in Nat
            BY SeenType, Zenon
          <6> QED
            BY <3>8, <4>1, <6>1
        <5>2. SeenAt(u, i)' = SeenAt(u, i)
          BY <3>4, <5>1, Zenon
        <5>3. Before(c, SeenAt(u, i).payload, SeenAt(u, j).payload)
          BY <3>8, <4>1, <5>1, Zenon DEF Ordered
        <5> QED
          BY <3>3, <4>1, <5>2, <5>3, Zenon
      <4>2. CASE u = t /\ j = SeenLen(t) + 1 /\ SeenAt(u, j)'.payload = p
        <5>1. i \in 1..SeenLen(u)
          BY <3>4, <3>8, <4>2
        <5>2. SeenAt(u, i)' = SeenAt(u, i)
          BY <3>4, <4>2, <5>1, Zenon
        <5>3. Before(c, SeenAt(u, i).payload, p)
          <6>1. CASE c # b
            BY <3>2, <6>1, Zenon
          <6>2. CASE c = b
            BY <2>8, <3>1, <5>1, <6>2, Zenon DEF Ordered
          <6> QED
            BY <6>1, <6>2
        <5> QED
          BY <3>3, <4>2, <5>2, <5>3, Zenon
      <4> QED
        BY <3>5, <4>1, <4>2, Zenon
    <3>9. DOMAIN sent' = DOMAIN sent
      BY <2>1
    <3> QED
      BY <3>6, <3>7, <3>8, <3>9, Zenon DEF Ordered
  <2> QED
    BY <1>4, <2>9, <2>10, Dispatches
<1>n. ASSUME NEW s \in Senders, script[s] # <<>>, pc[s] \notin {"wait", "release"},
             NEW d \in DOMAIN sent, sent' = [sent EXCEPT ![d] = Append(@, Message(s))],
             NEW m, m = Message(s)
      PROVE  /\ DOMAIN sent' = DOMAIN sent
             /\ \A c \in DOMAIN sent : \A p :
                  /\ p # m.payload =>
                        /\ Before(c, p, m.payload)'
                        /\ \A q : q # m.payload /\ Before(c, p, q) => Before(c, p, q)'
                  /\ c # d => \A q : Before(c, m.payload, q)' /\ Before(c, q, m.payload)'
             /\ \A c \in Conns : \A j \in Coming(c) : Item(c, j) # m.payload
             /\ \A t \in Hosted : \A i \in 1..SeenLen(t) : SeenAt(t, i).payload # m.payload
  <2>1. m \in Messages /\ sent' = [sent EXCEPT ![d] = Append(@, m)] /\ DOMAIN sent' = DOMAIN sent
    BY <1>n, AtHand, Zenon
  <2>2. \A c \in DOMAIN sent : \A k \in DOMAIN sent[c] : sent[c][k].payload # m.payload
    BY <1>n, Fresh, Zenon
  <2>3. /\ \A c \in Conns : \A j \in Coming(c) : Item(c, j) # m.payload
        /\ \A t \in Hosted : \A i \in 1..SeenLen(t) : SeenAt(t, i).payload # m.payload
    BY <1>d, <2>2, ComingSent
  <2>4. \A c \in DOMAIN sent : \A p :
          /\ p # m.payload =>
                /\ Before(c, p, m.payload)'
                /\ \A q : q # m.payload /\ Before(c, p, q) => Before(c, p, q)'
          /\ c # d => \A q : Before(c, m.payload, q)' /\ Before(c, q, m.payload)'
    BY <2>1, <2>2, BeforeGrows, Zenon
  <2> QED
    BY <2>1, <2>3, <2>4, Zenon
<1>5. ASSUME NEW s \in Senders, Send(s) PROVE Ordered'
  <2>1. /\ UNCHANGED <<reader, loop, handled>> /\ script[s] # <<>> /\ pc[s] = "send"
        /\ conn \in Conns /\ conn \in DOMAIN sent
    BY <1>5, <1>d, Zenon DEF Send, Filled, Streams
  <2>2. CASE UNCHANGED <<wire, sent>>
    BY <1>1, <2>1, <2>2, Zenon
  <2>3. CASE /\ sent' = [sent EXCEPT ![conn] = Append(@, Message(s))]
             /\ wire' = [wire EXCEPT ![conn] =
                  Append(@, [request |-> field[held[s]], from |-> s,
                             asks |-> Message(s).mode # "direct", for |-> Message(s).payload])]
    <3>1. PICK m : m = Message(s)
      OBVIOUS
    <3>2. PICK p : p = [request |-> field[held[s]], from |-> s,
                        asks |-> Message(s).mode # "direct", for |-> Message(s).payload]
      OBVIOUS
    <3>3. p.for = m.payload /\ pc[s] \notin {"wait", "release"}
      BY <2>1, <3>1, <3>2
    <3>4. /\ DOMAIN sent' = DOMAIN sent
          /\ \A c \in DOMAIN sent : \A x :
                x # m.payload =>
                   /\ Before(c, x, m.payload)'
                   /\ \A y : y # m.payload /\ Before(c, x, y) => Before(c, x, y)'
          /\ \A c \in Conns : \A j \in Coming(c) : Item(c, j) # m.payload
          /\ \A t \in Hosted : \A i \in 1..SeenLen(t) : SeenAt(t, i).payload # m.payload
      BY <1>n, <2>1, <2>3, <3>1, <3>3, Zenon
    <3>5. /\ wire'[conn] = Append(wire[conn], p) /\ wire[conn] \in Seq(WirePackets)
          /\ \A c \in Conns : c # conn => wire'[c] = wire[c]
      BY <2>1, <2>3, <3>2, Zenon DEF Streams
    <3>6. PICK n \in Nat \ {0} :
            /\ DOMAIN wire[conn] = 1..(n - 1) /\ DOMAIN wire'[conn] = 1..n
            /\ \A j \in 1..(n - 1) : wire'[conn][j] = wire[conn][j]
            /\ wire'[conn][n] = p
      <4>1. /\ Len(wire[conn]) + 1 \in Nat \ {0} /\ (Len(wire[conn]) + 1) - 1 = Len(wire[conn])
            /\ DOMAIN wire[conn] = 1..Len(wire[conn])
            /\ DOMAIN wire'[conn] = 1..(Len(wire[conn]) + 1)
            /\ \A j \in 1..Len(wire[conn]) : wire'[conn][j] = wire[conn][j]
            /\ wire'[conn][Len(wire[conn]) + 1] = p
        BY <3>5
      <4> QED
        BY <4>1, Zenon
    <3>7. \A j \in 1..n : j # 0 /\ (j \in 1..(n - 1) \/ j = n)
      BY <3>6
    <3>8. ASSUME NEW c \in Conns, NEW j \in Coming(c)'
          PROVE  \/ j \in Coming(c) /\ Item(c, j)' = Item(c, j)
                 \/ c = conn /\ j = n /\ Item(c, j)' = m.payload
      <4>1. CASE c # conn
        BY <2>1, <3>5, <3>8, <4>1, Zenon DEF Coming, Item
      <4>2. CASE c = conn /\ j = 0
        BY <2>1, <3>6, <3>7, <3>8, <4>2, Zenon DEF Coming, Item
      <4>3. CASE c = conn /\ j # 0
        <5>1. j \in 1..n
          BY <3>6, <3>8, <4>3, Zenon DEF Coming
        <5>2. CASE j \in 1..(n - 1)
          BY <3>6, <4>3, <5>2, Zenon DEF Coming, Item
        <5>3. CASE j = n
          BY <3>3, <3>6, <4>3, <5>3, Zenon DEF Item
        <5> QED
          BY <3>7, <5>1, <5>2, <5>3, Zenon
      <4> QED
        BY <4>1, <4>2, <4>3, Zenon
    <3>9. ASSUME NEW c \in Conns, c = conn, NEW j \in Coming(c)' PROVE ~(n < j)
      <4>1. j = 0 \/ j \in 1..n
        BY <3>6, <3>9, Zenon DEF Coming
      <4> QED
        BY <3>6, <4>1
    <3>10. ASSUME NEW c \in Conns, NEW i \in Coming(c)', NEW j \in Coming(c)', i < j
           PROVE  Before(c, Item(c, i), Item(c, j))'
      <4>1. c \in DOMAIN sent /\ ~(c = conn /\ i = n)
        BY <1>d, <3>9, <3>10, Zenon
      <4>2. i \in Coming(c) /\ Item(c, i)' = Item(c, i) /\ Item(c, i) # m.payload
        BY <3>4, <3>8, <4>1, Zenon
      <4>3. CASE j \in Coming(c) /\ Item(c, j)' = Item(c, j)
        <5>1. Before(c, Item(c, i), Item(c, j)) /\ Item(c, j) # m.payload
          BY <3>4, <3>10, <4>2, <4>3, Zenon DEF Ordered
        <5>2. \A x, y : x = Item(c, i) /\ y = Item(c, j) => Before(c, x, y)'
          BY <3>4, <4>1, <4>2, <5>1, Zenon
        <5> QED
          BY <4>2, <4>3, <5>2, Zenon
      <4>4. CASE Item(c, j)' = m.payload
        BY <3>4, <4>1, <4>2, <4>4, Zenon
      <4> QED
        BY <3>8, <4>3, <4>4, Zenon
    <3>11. \A t \in Hosted : SeenLen(t)' = SeenLen(t) /\ \A i : SeenAt(t, i)' = SeenAt(t, i)
      BY <2>1, Zenon DEF SeenLen, SeenAt
    <3>12. ASSUME NEW c \in Conns, NEW t \in Hosted, NEW i \in 1..SeenLen(t), NEW j \in Coming(c)'
           PROVE  Before(c, SeenAt(t, i).payload, Item(c, j))'
      <4>1. c \in DOMAIN sent /\ SeenAt(t, i)' = SeenAt(t, i) /\ SeenAt(t, i).payload # m.payload
        BY <1>d, <3>4, <3>11, Zenon
      <4>2. CASE j \in Coming(c) /\ Item(c, j)' = Item(c, j)
        <5>1. Before(c, SeenAt(t, i).payload, Item(c, j)) /\ Item(c, j) # m.payload
          BY <3>4, <4>2, Zenon DEF Ordered
        <5>2. \A x, y : x = SeenAt(t, i).payload /\ y = Item(c, j) => Before(c, x, y)'
          BY <3>4, <4>1, <5>1, Zenon
        <5> QED
          BY <4>1, <4>2, <5>2, Zenon
      <4>3. CASE Item(c, j)' = m.payload
        BY <3>4, <4>1, <4>3, Zenon
      <4> QED
        BY <3>8, <4>2, <4>3, Zenon
    <3>13. ASSUME NEW c \in DOMAIN sent, NEW t \in Hosted, NEW i \in 1..SeenLen(t),
                  NEW j \in 1..SeenLen(t), i < j
           PROVE  Before(c, SeenAt(t, i).payload, SeenAt(t, j).payload)'
      <4>1. Before(c, SeenAt(t, i).payload, SeenAt(t, j).payload)
        BY <3>13, Zenon DEF Ordered
      <4>2. \A x, y : x = SeenAt(t, i).payload /\ y = SeenAt(t, j).payload => Before(c, x, y)'
        BY <3>4, <4>1, Zenon
      <4> QED
        BY <3>11, <4>2, Zenon
    <3> QED
      BY <3>4, <3>10, <3>11, <3>12, <3>13, Zenon DEF Ordered
  <2> QED
    BY <1>5, <2>2, <2>3, Zenon DEF Send
<1>6. ASSUME NEW s \in Senders, SendInside(s) PROVE Ordered'
  <2>1. /\ script[s] # <<>> /\ pc[s] = "idle" /\ 0 \in DOMAIN sent
        /\ UNCHANGED <<handled, wire, reader>>
        /\ sent' = [sent EXCEPT ![0] = Append(@, Message(s))]
        /\ loop' = [loop EXCEPT ![Message(s).target] =
                      Append(@, [message |-> Message(s), from |-> s, over |-> 0])]
    BY <1>6, <1>d, Zenon DEF SendInside
  <2>2. PICK m : m = Message(s)
    OBVIOUS
  <2>3. PICK e : e = [message |-> m, from |-> s, over |-> 0]
    OBVIOUS
  <2>4. e \in LoopTasks /\ e.message = m /\ pc[s] \notin {"wait", "release"}
    BY <2>1, <2>2, <2>3, AtHand DEF LoopTasks, Streams
  <2>5. /\ DOMAIN sent' = DOMAIN sent
        /\ \A c \in DOMAIN sent : \A p :
             /\ p # m.payload =>
                   /\ Before(c, p, m.payload)'
                   /\ \A q : q # m.payload /\ Before(c, p, q) => Before(c, p, q)'
             /\ c # 0 => \A q : Before(c, m.payload, q)'
        /\ \A c \in Conns : \A j \in Coming(c) : Item(c, j) # m.payload
        /\ \A t \in Hosted : \A i \in 1..SeenLen(t) : SeenAt(t, i).payload # m.payload
    BY <1>n, <2>1, <2>2, <2>4, Zenon
  <2>6. \A c \in Conns : c # 0 /\ c \in DOMAIN sent
    BY <1>d, WireAssumption
  <2>7. \A c \in Conns : Coming(c)' = Coming(c) /\ \A j : Item(c, j)' = Item(c, j)
    BY <2>1, Zenon DEF Coming, Item
  <2>8. ASSUME NEW c \in DOMAIN sent, NEW p, NEW q, Before(c, p, q), p # m.payload, q # m.payload
        PROVE  Before(c, p, q)'
    BY <2>5, <2>8, Zenon
  <2>9. ASSUME NEW c \in Conns, NEW i \in Coming(c), NEW j \in Coming(c), i < j
        PROVE  Before(c, Item(c, i), Item(c, j))'
    <3>1. Before(c, Item(c, i), Item(c, j))
      BY <2>9, Zenon DEF Ordered
    <3>2. \A x, y : x = Item(c, i) /\ y = Item(c, j) => Before(c, x, y)'
      BY <2>5, <2>6, <3>1, Zenon
    <3> QED
      BY <2>7, <3>2, Zenon
  <2>10. ASSUME NEW t \in Hosted, NEW i \in 1..(SeenLen(t)')
         PROVE  \/ i \in 1..SeenLen(t) /\ SeenAt(t, i)' = SeenAt(t, i)
                \/ i = SeenLen(t) + 1 /\ SeenAt(t, i)' = m
    <3>1. CASE t # m.target
      <4>1. loop'[t] = loop[t] /\ handled'[t] = handled[t]
        BY <2>1, <2>2, <3>1, Zenon DEF Streams
      <4>2. SeenLen(t)' = SeenLen(t) /\ SeenAt(t, i)' = SeenAt(t, i)
        BY <4>1, Zenon DEF SeenLen, SeenAt
      <4> QED
        BY <2>10, <4>2, Zenon
    <3>2. CASE t = m.target
      <4>1. loop' = [loop EXCEPT ![t] = Append(@, e)]
        BY <2>1, <2>2, <2>3, <3>2, Zenon
      <4>2. /\ SeenLen(t)' = SeenLen(t) + 1 /\ SeenLen(t) \in Nat
            /\ \A j \in 1..SeenLen(t) : SeenAt(t, j)' = SeenAt(t, j)
            /\ \A j : j = SeenLen(t) + 1 => SeenAt(t, j)' = e.message
        BY <2>1, <2>4, <4>1, SeenGrows, Zenon
      <4>3. i \in 1..SeenLen(t) \/ i = SeenLen(t) + 1
        BY <2>10, <4>2
      <4> QED
        BY <2>4, <4>2, <4>3, Zenon
    <3> QED
      BY <3>1, <3>2
  <2>11. ASSUME NEW c \in Conns, NEW t \in Hosted, NEW i \in 1..(SeenLen(t)'), NEW j \in Coming(c)
         PROVE  Before(c, SeenAt(t, i).payload, Item(c, j))'
    <3>1. CASE i \in 1..SeenLen(t) /\ SeenAt(t, i)' = SeenAt(t, i)
      <4>1. Before(c, SeenAt(t, i).payload, Item(c, j))
        BY <3>1, Zenon DEF Ordered
      <4>2. \A x, y : x = SeenAt(t, i).payload /\ y = Item(c, j) => Before(c, x, y)'
        BY <2>5, <2>6, <3>1, <4>1, Zenon
      <4> QED
        BY <2>7, <3>1, <4>2, Zenon
    <3>2. CASE SeenAt(t, i)' = m
      BY <2>5, <2>6, <3>2, Zenon
    <3> QED
      BY <2>10, <3>1, <3>2, Zenon
  <2>12. ASSUME NEW c \in DOMAIN sent, NEW t \in Hosted, NEW i \in 1..(SeenLen(t)'),
                NEW j \in 1..(SeenLen(t)'), i < j
         PROVE  Before(c, SeenAt(t, i).payload, SeenAt(t, j).payload)'
    <3>1. SeenLen(t) \in Nat
      BY SeenType, Zenon
    <3>2. (j \in 1..SeenLen(t) \/ j = SeenLen(t) + 1) /\ i # SeenLen(t) + 1
      <4>1. j \in 1..SeenLen(t) \/ j = SeenLen(t) + 1
        BY <2>10, Zenon
      <4>2. i \in 1..SeenLen(t) \/ i = SeenLen(t) + 1
        BY <2>10, Zenon
      <4> QED
        BY <2>12, <3>1, <4>1, <4>2
    <3>3. /\ i \in 1..SeenLen(t) /\ SeenAt(t, i)' = SeenAt(t, i)
          /\ SeenAt(t, i).payload # m.payload
      BY <2>5, <2>10, <3>2, Zenon
    <3>4. CASE j \in 1..SeenLen(t) /\ SeenAt(t, j)' = SeenAt(t, j)
      <4>1. Before(c, SeenAt(t, i).payload, SeenAt(t, j).payload)
        BY <2>12, <3>3, <3>4, Zenon DEF Ordered
      <4>2. \A x, y : x = SeenAt(t, i).payload /\ y = SeenAt(t, j).payload => Before(c, x, y)'
        BY <2>5, <3>3, <3>4, <4>1, Zenon
      <4> QED
        BY <3>3, <3>4, <4>2, Zenon
    <3>5. CASE SeenAt(t, j)' = m
      BY <2>5, <3>3, <3>5, Zenon
    <3> QED
      BY <2>10, <3>4, <3>5, Zenon
  <2> QED
    BY <2>5, <2>7, <2>9, <2>11, <2>12, Zenon DEF Ordered
<1> QED
  BY <1>1, <1>2, <1>3, <1>4, <1>5, <1>6, Flow, WireAssumption, Zenon

-----------------------------------------------------------------------------
\* The messages on their way are what was sent.
FlowInv == /\ WireInv /\ Streams /\ Distinct /\ Filled /\ Carried
           /\ Arrived /\ Ordered

\* Nothing is on its way at first, and the scripts tell the messages apart.
LEMMA FlowInit == RpcWireInit => FlowInv
<1> SUFFICES ASSUME RpcWireInit PROVE FlowInv
  OBVIOUS
<1>1. /\ script \in Scripts /\ pc = [s \in Senders |-> "idle"] /\ conn = 1
      /\ wire = [c \in Conns |-> <<>>] /\ reader = [c \in Conns |-> None]
      /\ loop = [t \in Hosted |-> <<>>] /\ handled = [t \in Hosted |-> <<>>]
      /\ sent = [c \in {0} \cup Conns |-> <<>>]
  BY Zenon DEF RpcWireInit
<1>2. Senders \subseteq Everyone /\ \A s \in Senders : script[s] \in Seq(Messages)
  BY <1>1, ScriptAssumption, Zenon DEF Senders, Everyone
<1>3. Streams
  BY <1>1, <1>2, WireAssumption DEF Streams
<1>4. /\ \A c \in DOMAIN sent : DOMAIN sent[c] = {} 
      /\ \A c \in Conns : DOMAIN wire[c] = {} /\ reader[c] = None
      /\ \A t \in Hosted : SeenLen(t) = 0
  BY <1>1 DEF SeenLen
<1>5. Distinct
  BY <1>1, <1>4, ScriptAssumption DEF Distinct, ScriptsApart, SentApart,
     SentOnce, Senders
<1>6. \A s \in Senders : pc[s] = "idle" /\ pc[s] # "fill" /\ pc[s] # "send"
  BY <1>1
<1>7. Filled /\ Carried
  BY <1>4, <1>6, Zenon DEF Filled, Carried
<1>8. /\ \A t \in Hosted : 1..SeenLen(t) = {}
      /\ \A c \in Conns : Coming(c) = {}
  BY <1>4 DEF Coming
<1>9. Arrived /\ Ordered
  BY <1>8, Zenon DEF Arrived, Ordered
<1> QED
  BY <1>3, <1>5, <1>7, <1>9, WireInit, Zenon DEF FlowInv

\* Every step keeps what is on its way as it was sent, and in order.
THEOREM FlowInvariance == RpcWireSpec => []FlowInv
<1>1. ASSUME FlowInv, [RpcWireNext]_wireVars PROVE FlowInv'
  BY <1>1, WireStep, StreamsStep, DistinctStep, FilledStep, CarriedStep, ArrivedStep,
     OrderedStep, Zenon DEF FlowInv
<1> QED
  BY <1>1, FlowInit, PTL DEF RpcWireSpec

\* What a handler sees is a message that was sent, whole and at its target, and at
\* most once, whatever object carried it (rpc_wire.go:98-143, 219-305).
THEOREM ArrivesAsSent == RpcWireSpec => []HandledAsSent
<1>1. ASSUME FlowInv PROVE HandledAsSent
  <2>1. Streams /\ Arrived /\ Ordered
    BY <1>1, Zenon DEF FlowInv
  <2>2. ASSUME NEW t \in Hosted
        PROVE  /\ \A i \in DOMAIN handled[t] :
                     handled[t][i] \in AllSent /\ handled[t][i].target = t
               /\ IsInjective([i \in DOMAIN handled[t] |-> handled[t][i].payload])
    <3>1. \A i \in DOMAIN handled[t] : i \in 1..SeenLen(t) /\ SeenAt(t, i) = handled[t][i]
      BY <2>1, SeenType, Zenon
    <3>2. \A i \in DOMAIN handled[t] : handled[t][i] \in AllSent /\ handled[t][i].target = t
      BY <2>1, <3>1, Zenon DEF Arrived
    <3>3. ASSUME NEW i \in DOMAIN handled[t], NEW j \in DOMAIN handled[t], i < j,
                 handled[t][i].payload = handled[t][j].payload
          PROVE  FALSE
      <4>1. PICK c \in DOMAIN sent : \E k \in DOMAIN sent[c] : handled[t][i] = sent[c][k]
        BY <3>2, SentSomewhere, Zenon
      <4>2. PICK k \in DOMAIN sent[c] : handled[t][i] = sent[c][k]
        BY <4>1
      <4>3. Before(c, handled[t][i].payload, handled[t][j].payload)
        BY <2>1, <3>1, <3>3, Zenon DEF Ordered
      <4>4. k < k
        BY <3>3, <4>2, <4>3, Zenon DEF Before
      <4>5. k \in Nat
        <5>1. sent[c] \in Seq(Messages)
          BY <2>1, Zenon DEF Streams
        <5> QED
          BY <5>1
      <4> QED
        BY <4>4, <4>5
    <3>4. \A i, j \in DOMAIN handled[t] : i < j \/ j < i \/ i = j
      <4>1. DOMAIN handled[t] = 1..Len(handled[t])
        BY <2>1, SeenType, Zenon
      <4> QED
        BY <4>1
    <3>5. \A i, j \in DOMAIN handled[t] :
             handled[t][i].payload = handled[t][j].payload => i = j
      BY <3>3, <3>4, Zenon
    <3>6. IsInjective([i \in DOMAIN handled[t] |-> handled[t][i].payload])
      BY <3>5, Zenon DEF IsInjective
    <3> QED
      BY <3>2, <3>6
  <2> QED
    BY <2>2, Zenon DEF HandledAsSent
<1> QED
  BY <1>1, FlowInvariance, PTL

\* One connection's messages for one Service are handled in the order they were
\* sent in (node.go:599-627, 822-857), whatever the other connections carry.
THEOREM ArrivesInOrder == RpcWireSpec => []HandledInOrder
<1>1. ASSUME FlowInv PROVE HandledInOrder
  <2>1. Streams /\ Ordered
    BY <1>1, Zenon DEF FlowInv
  <2> SUFFICES ASSUME NEW c \in DOMAIN sent, NEW t \in Hosted, NEW i \in DOMAIN handled[t],
                      NEW j \in DOMAIN handled[t], NEW k \in DOMAIN sent[c],
                      NEW l \in DOMAIN sent[c], i < j, handled[t][i] = sent[c][k],
                      handled[t][j] = sent[c][l]
               PROVE  k < l
    BY DEF HandledInOrder
  <2>2. \A x \in DOMAIN handled[t] : x \in 1..SeenLen(t) /\ SeenAt(t, x) = handled[t][x]
    BY <2>1, SeenType, Zenon
  <2>3. Before(c, handled[t][i].payload, handled[t][j].payload)
    BY <2>1, <2>2, Zenon DEF Ordered
  <2> QED
    BY <2>3, Zenon DEF Before
<1> QED
  BY <1>1, FlowInvariance, PTL

-----------------------------------------------------------------------------
(* Results: what comes back *)

\* A handler, or the framework in its place, gave the result for request p.
Backed(p, value) ==
    \E gave \in outcome :
       /\ gave.what = "gave" /\ gave.for = p
       /\ \/ gave.kind = "ok" /\ value.code = "" /\ value.payload = gave.reply
          \/ gave.kind \in Kinds \cup Uncoded /\ value.code = CodeOf(gave.kind)

\* The kind and the reply are what was given for request p.
Fitting(p, kind, reply) ==
    \E gave \in outcome :
       /\ gave.what = "gave" /\ gave.for = p
       /\ kind = AsTold(gave.kind)
       /\ kind = "ok" => reply = gave.reply

\* A caller that waits has a response object, and when it has a verdict the object
\* holds the reply.
Calling(s) ==
    /\ pc[s] \in {"send", "wait"} /\ Message(s).mode # "direct" => awaited[s] \in Responses
    /\ pc[s] = "wait" => Message(s).mode # "direct"
    /\ verdict[s] # None =>
          /\ pc[s] = "release" /\ awaited[s] \in Responses
          /\ Fitting(Message(s).payload, verdict[s], answer[awaited[s]])

\* So are the results on their way, and the verdicts of the callers.
ResultInv ==
    /\ DOMAIN verdict = Senders
    /\ \A result \in back : Backed(result.for, result.value)
    /\ \A s \in Senders : Calling(s)
    /\ ResultFits

\* respondRPCError and decodeResult: an error with a code comes back as itself, any
\* other as a plain one (node.go:1501-1525, rpc_wire.go:188-217).
LEMMA CodesAgree ==
  ASSUME NEW kind \in Kinds \cup Uncoded
  PROVE  /\ CodeOf(kind) # "" /\ KindOf(CodeOf(kind)) # "ok"
         /\ KindOf(CodeOf(kind)) = AsTold(kind)
<1>1. CASE kind \in Kinds
  BY <1>1 DEF CodeOf, KindOf, Kinds, AsTold
<1>2. CASE kind \in Uncoded
  BY <1>2 DEF CodeOf, KindOf, Kinds, Uncoded, AsTold
<1> QED
  BY <1>1, <1>2

\* A result that is decoded fits what was given.
LEMMA DecodesResult ==
  ASSUME NEW p, NEW value, Backed(p, value)
  PROVE  Fitting(p, IF value.code = "" THEN "ok" ELSE KindOf(value.code), value.payload)
<1>1. PICK gave \in outcome :
        /\ gave.what = "gave" /\ gave.for = p
        /\ \/ gave.kind = "ok" /\ value.code = "" /\ value.payload = gave.reply
           \/ gave.kind \in Kinds \cup Uncoded /\ value.code = CodeOf(gave.kind)
  BY Zenon DEF Backed
<1>2. CASE gave.kind = "ok" /\ value.code = "" /\ value.payload = gave.reply
  <2>1. AsTold(gave.kind) = "ok"
    BY <1>2 DEF AsTold
  <2> QED
    BY <1>1, <1>2, <2>1, Zenon DEF Fitting
<1>3. CASE gave.kind \in Kinds \cup Uncoded /\ value.code = CodeOf(gave.kind)
  <2>1. /\ value.code # "" /\ KindOf(value.code) # "ok"
        /\ KindOf(value.code) = AsTold(gave.kind)
    BY <1>3, CodesAgree, Zenon
  <2> QED
    BY <1>1, <2>1, Zenon DEF Fitting
<1> QED
  BY <1>1, <1>2, <1>3

\* The receiving Node only gives results, and what it sends back it gave.
Gives ==
    /\ outcome \subseteq outcome' /\ \A x \in outcome' : x \in outcome \/ x.what = "gave"
    /\ \A r \in back' : r \in back \/ (Backed(r.for, r.value))'

\* The answers of the receiving Node are what was given.
LEMMA Answers ==
  ASSUME NEW c, NEW to, NEW p, NEW value, NEW kind, NEW reply,
         Respond(c, to, p, value) \/ UNCHANGED back, Gave(p, kind, reply),
         \/ kind = "ok" /\ value.code = "" /\ value.payload = reply
         \/ kind \in Kinds \cup Uncoded /\ value.code = CodeOf(kind)
  PROVE  Gives
<1>1. PICK gave : gave = [what |-> "gave", for |-> p, kind |-> kind, reply |-> reply]
  OBVIOUS
<1>2. outcome' = outcome \cup {gave}
  BY <1>1, Zenon DEF Gave
<1>3. gave.what = "gave" /\ gave.for = p /\ gave.kind = kind /\ gave.reply = reply
  BY <1>1
<1>5. Backed(p, value)'
  BY <1>2, <1>3, Zenon DEF Backed
<1>6. \A r \in back' : r \in back \/ r = [to |-> to, for |-> p, value |-> value]
  BY Zenon DEF Respond
<1>7. ASSUME NEW r \in back', r = [to |-> to, for |-> p, value |-> value]
      PROVE  Backed(r.for, r.value)'
  <2>1. r.for = p /\ r.value = value
    BY <1>7
  <2> QED
    BY <1>5, <2>1, Zenon
<1> QED
  BY <1>2, <1>3, <1>6, <1>7, Zenon DEF Gives

\* A handler's result is sent back as it is.
LEMMA AnswersResult ==
  ASSUME NEW c, NEW to, NEW p, NEW reply, Respond(c, to, p, Succeeded(reply)),
         Gave(p, "ok", reply)
  PROVE  Gives
<1>1. Succeeded(reply).code = "" /\ Succeeded(reply).payload = reply
  BY DEF Succeeded
<1> QED
  BY <1>1, Answers, Zenon

\* An error is sent back with the code of its kind.
LEMMA AnswersError ==
  ASSUME NEW c, NEW to, NEW p, NEW error, error.kind \in Kinds \cup Uncoded,
         Respond(c, to, p, Failed(error)) \/ UNCHANGED back, Gave(p, error.kind, None)
  PROVE  Gives
<1>1. Failed(error).code = CodeOf(error.kind)
  BY DEF Failed
<1> QED
  BY <1>1, Answers, Zenon

\* Every step keeps the results and the verdicts fitting.
LEMMA ResultStep ==
  ASSUME WireInv, Streams, Filled, ResultInv, [RpcWireNext]_wireVars
  PROVE  ResultInv'
<1> USE DEF sendVars, poolVars, linkVars, recvVars, historyVars
<1>p. /\ DOMAIN pc = Senders /\ DOMAIN awaited = Senders /\ DOMAIN verdict = Senders
      /\ DOMAIN answer = Responses /\ respPool \subseteq Responses
      /\ \A r, q \in Senders : r # q => awaited[r] = None \/ awaited[r] # awaited[q]
      /\ \A r \in Responses : r # None
  BY WireAssumption, Zenon DEF WireInv, Shapes, CallersOwn, ResultInv
<1>i. /\ \A result \in back : Backed(result.for, result.value)
      /\ \A s \in Senders : Calling(s)
      /\ ResultFits
  BY Zenon DEF ResultInv
<1>o. ASSUME outcome \subseteq outcome'
      PROVE  /\ \A p, v : Backed(p, v) => Backed(p, v)'
             /\ \A p, k, v : Fitting(p, k, v) => Fitting(p, k, v)'
  BY <1>o, Zenon DEF Backed, Fitting
<1>c. ASSUME outcome \subseteq outcome', NEW r \in Senders, script'[r] = script[r],
             pc'[r] = pc[r], awaited'[r] = awaited[r], verdict'[r] = verdict[r],
             awaited[r] \in Responses => answer'[awaited[r]] = answer[awaited[r]]
      PROVE  Calling(r)'
  <2>1. Calling(r) /\ Message(r)' = Message(r)
    BY <1>c, <1>i, Zenon DEF Message
  <2>2. verdict[r] # None => awaited[r] \in Responses
    BY <2>1, Zenon DEF Calling
  <2>3. verdict[r] # None => (Fitting(Message(r).payload, verdict[r], answer[awaited[r]]))'
    <3>1. ASSUME verdict[r] # None, NEW p, NEW k, NEW v, p = Message(r).payload,
                 k = verdict[r], v = answer[awaited[r]]
          PROVE  Fitting(p, k, v)'
      BY <1>c, <1>o, <2>1, <3>1, Zenon DEF Calling
    <3> QED
      BY <1>c, <2>1, <2>2, <3>1, Zenon
  <2> QED
    BY <1>c, <2>1, <2>3, Zenon DEF Calling
<1>f. ASSUME outcome \subseteq outcome', \A x \in outcome' : x \in outcome \/ x.what = "gave"
      PROVE  ResultFits'
  <2>1. "gave" # "got"
    OBVIOUS
  <2> QED
    BY <1>f, <1>i, <2>1, Zenon DEF ResultFits
<1>k. ASSUME UNCHANGED <<script, pc, awaited, verdict, answer>>, Gives PROVE ResultInv'
  <2>0. /\ outcome \subseteq outcome' /\ \A x \in outcome' : x \in outcome \/ x.what = "gave"
        /\ \A r \in back' : r \in back \/ (Backed(r.for, r.value))'
    BY <1>k, Zenon DEF Gives
  <2>1. \A s \in Senders : Calling(s)'
    BY <1>k, <1>c, <2>0, Zenon
  <2>2. \A r \in back' : Backed(r.for, r.value)'
    BY <1>i, <1>o, <2>0, Zenon
  <2>3. Senders' = Senders /\ DOMAIN verdict' = Senders
    BY <1>k, <1>p, Zenon DEF Senders
  <2> QED
    BY <1>f, <2>0, <2>1, <2>2, <2>3, Zenon DEF ResultInv
<1>n. ASSUME back' \subseteq back, UNCHANGED outcome PROVE Gives
  BY <1>n, Zenon DEF Gives
<1>s. ASSUME NEW s \in Senders, Senders' = Senders, DOMAIN verdict' = Senders,
             outcome \subseteq outcome', back' \subseteq back, ResultFits', Calling(s)',
             \A r \in Senders : r # s =>
                /\ script'[r] = script[r] /\ pc'[r] = pc[r] /\ awaited'[r] = awaited[r]
                /\ verdict'[r] = verdict[r]
                /\ awaited[r] \in Responses => answer'[awaited[r]] = answer[awaited[r]]
      PROVE  ResultInv'
  <2>1. \A r \in Senders : Calling(r)'
    BY <1>s, <1>c, Zenon
  <2>2. \A r \in back' : Backed(r.for, r.value)'
    BY <1>s, <1>i, <1>o, Zenon
  <2> QED
    BY <1>s, <2>1, <2>2, Zenon DEF ResultInv
<1>u. ASSUME UNCHANGED outcome PROVE ResultFits' /\ outcome \subseteq outcome'
  BY <1>u, <1>i, Zenon DEF ResultFits
<1>1. ASSUME NEW s \in Senders, Refused(s) \/ SendInside(s) PROVE ResultInv'
  <2>1. /\ pc[s] = "idle" /\ UNCHANGED <<pc, awaited, verdict, answer, back, outcome>>
        /\ script' = [script EXCEPT ![s] = Tail(@)]
    BY <1>1, Zenon DEF Refused, SendInside, Finished
  <2>2. Senders' = Senders /\ \A r \in Senders : r # s => script'[r] = script[r]
    BY <2>1, Zenon DEF Senders
  <2>3. pc[s] # "send" /\ pc[s] # "wait" /\ pc[s] # "release"
    BY <2>1
  <2>4. Calling(s)'
    BY <1>i, <2>1, <2>3, Zenon DEF Calling
  <2> QED
    BY <1>p, <1>s, <1>u, <2>1, <2>2, <2>4, Zenon
<1>2. ASSUME NEW s \in Senders, Acquire(s) PROVE ResultInv'
  <2>1. /\ pc[s] = "idle" /\ UNCHANGED <<script, awaited, verdict, answer, back, outcome>>
        /\ pc' = [pc EXCEPT ![s] = "fill"]
    BY <1>2, Zenon DEF Acquire, Goto
  <2>2. Senders' = Senders /\ \A r \in Senders : r # s => pc'[r] = pc[r]
    BY <1>p, <2>1, Zenon DEF Senders
  <2>3. /\ pc[s] # "release" /\ pc'[s] # "send" /\ pc'[s] # "wait" 
    BY <1>p, <2>1
  <2>4. Calling(s)'
    BY <1>i, <2>1, <2>3, Zenon DEF Calling
  <2> QED
    BY <1>p, <1>s, <1>u, <2>1, <2>2, <2>4, Zenon
<1>3. ASSUME NEW s \in Senders, Fill(s) PROVE ResultInv'
  <2>1. /\ pc[s] = "fill" /\ UNCHANGED <<script, verdict, answer, back, outcome>>
        /\ pc' = [pc EXCEPT ![s] = "send"]
    BY <1>3, Zenon DEF Fill, Goto
  <2>2. \/ Message(s).mode = "direct" /\ UNCHANGED awaited
        \/ \E r \in respPool : awaited' = [awaited EXCEPT ![s] = r]
    BY <1>3, Zenon DEF Fill
  <2>3. /\ Message(s).mode # "direct" => awaited'[s] \in Responses
        /\ \A r \in Senders : r # s => pc'[r] = pc[r] /\ awaited'[r] = awaited[r]
        /\ Senders' = Senders /\ Message(s)' = Message(s)
    BY <1>p, <2>1, <2>2, Zenon DEF Senders, Message
  <2>4. /\ pc[s] # "release" /\ pc'[s] # "wait"
    BY <1>p, <2>1
  <2>5. Calling(s)'
    BY <1>i, <2>1, <2>3, <2>4, Zenon DEF Calling
  <2> QED
    BY <1>p, <1>s, <1>u, <2>1, <2>3, <2>5, Zenon
<1>4. ASSUME NEW s \in Senders, Send(s) PROVE ResultInv'
  <2>1. /\ pc[s] = "send" /\ UNCHANGED <<script, awaited, verdict, answer, back, outcome>>
    BY <1>4, Zenon DEF Send
  <2>2. PICK label : /\ pc' = [pc EXCEPT ![s] = label] /\ label # "send"
                     /\ label = "wait" => Message(s).mode # "direct"
    <3>1. CASE conn \in alive /\ Message(s).mode # "direct"
      BY <1>4, <3>1 DEF Send, Goto
    <3>2. CASE ~(conn \in alive /\ Message(s).mode # "direct")
      <4>1. pc' = [pc EXCEPT ![s] = "release"]
        BY <1>4, <3>2 DEF Send, Goto
      <4>2. "release" # "send" /\ "release" # "wait"
        OBVIOUS
      <4> QED
        BY <4>1, <4>2, Zenon
    <3> QED
      BY <3>1, <3>2, Zenon
  <2>3. /\ \A r \in Senders : r # s => pc'[r] = pc[r]
        /\ Senders' = Senders /\ Message(s)' = Message(s) /\ pc'[s] = label
    BY <1>p, <2>1, <2>2, Zenon DEF Senders, Message
  <2>4. pc[s] # "release"
    BY <2>1
  <2>5. Calling(s)'
    BY <1>i, <2>1, <2>2, <2>3, <2>4, Zenon DEF Calling
  <2> QED
    BY <1>p, <1>s, <1>u, <2>1, <2>3, <2>5, Zenon
<1>5. ASSUME NEW s \in Senders, TimesOut(s) PROVE ResultInv'
  <2>1. /\ pc[s] = "wait" /\ UNCHANGED <<script, awaited, verdict, answer, back, outcome>>
        /\ pc' = [pc EXCEPT ![s] = "release"]
    BY <1>5, Zenon DEF TimesOut, Goto
  <2>2. Senders' = Senders /\ \A r \in Senders : r # s => pc'[r] = pc[r]
    BY <1>p, <2>1, Zenon DEF Senders
  <2>3. /\ pc[s] # "release" /\ pc'[s] # "send" /\ pc'[s] # "wait" 
    BY <1>p, <2>1
  <2>4. Calling(s)'
    BY <1>i, <2>1, <2>3, Zenon DEF Calling
  <2> QED
    BY <1>p, <1>s, <1>u, <2>1, <2>2, <2>4, Zenon
<1>6. ASSUME NEW s \in Senders, Result(s) PROVE ResultInv'
  <2>1. PICK result \in back :
          /\ result.for = Message(s).payload /\ back' = back \ {result}
          /\ answer' = [answer EXCEPT ![awaited[s]] = result.value.payload]
          /\ verdict' = [verdict EXCEPT ![s] =
                IF result.value.code = "" THEN "ok" ELSE KindOf(result.value.code)]
    BY <1>6, Zenon DEF Result
  <2>2. /\ pc[s] = "wait" /\ UNCHANGED <<script, awaited, outcome>>
        /\ pc' = [pc EXCEPT ![s] = "release"]
    BY <1>6, Zenon DEF Result, Goto
  <2>3. awaited[s] \in Responses
    BY <1>i, <2>2, Zenon DEF Calling
  <2>4. /\ Senders' = Senders /\ DOMAIN verdict' = Senders /\ pc'[s] = "release"
        /\ verdict'[s] = (IF result.value.code = "" THEN "ok" ELSE KindOf(result.value.code))
        /\ answer'[awaited[s]] = result.value.payload
        /\ \A r \in Senders : r # s => pc'[r] = pc[r] /\ verdict'[r] = verdict[r]
        /\ \A x \in Responses : x # awaited[s] => answer'[x] = answer[x]
    BY <1>p, <2>1, <2>2, <2>3, Zenon DEF Senders
  <2>5. \A r \in Senders : r # s /\ awaited[r] \in Responses =>
           answer'[awaited[r]] = answer[awaited[r]]
    BY <1>p, <2>4, Zenon
  <2>6. Fitting(result.for, IF result.value.code = "" THEN "ok" ELSE KindOf(result.value.code),
                result.value.payload)
    BY <1>i, DecodesResult, Zenon
  <2>7. ASSUME NEW p, NEW k, NEW v, p = Message(s).payload, k = verdict'[s],
               v = result.value.payload
        PROVE  Fitting(p, k, v)'
    <3>1. Fitting(p, k, v)
      BY <2>1, <2>4, <2>6, <2>7, Zenon
    <3> QED
      BY <1>o, <1>u, <2>2, <3>1, Zenon
  <2>8. Message(s)' = Message(s)
    BY <2>2 DEF Message
  <2>9. pc'[s] # "send" /\ pc'[s] # "wait"
    BY <2>4
  <2>10. Calling(s)'
    BY <2>2, <2>3, <2>4, <2>7, <2>8, <2>9, Zenon DEF Calling
  <2>11. back' \subseteq back
    BY <2>1, Zenon
  <2> QED
    BY <1>s, <1>u, <2>2, <2>4, <2>5, <2>10, <2>11, Zenon
<1>7. ASSUME NEW s \in Senders, Release(s) PROVE ResultInv'
  <2>1. /\ pc[s] = "release" /\ UNCHANGED back /\ pc' = [pc EXCEPT ![s] = "idle"]
        /\ answer' = [r \in Responses |-> IF r = awaited[s] THEN None ELSE answer[r]]
        /\ awaited' = [awaited EXCEPT ![s] = None] /\ verdict' = [verdict EXCEPT ![s] = None]
        /\ script' = [script EXCEPT ![s] = Tail(@)]
    BY <1>7, Zenon DEF Release, Goto, Finished
  <2>2. /\ Senders' = Senders /\ DOMAIN verdict' = Senders /\ pc'[s] = "idle"
        /\ verdict'[s] = None
        /\ \A r \in Senders : r # s => /\ script'[r] = script[r] /\ pc'[r] = pc[r]
                                       /\ awaited'[r] = awaited[r] /\ verdict'[r] = verdict[r]
    BY <1>p, <2>1, Zenon DEF Senders
  <2>3. \A r \in Senders : r # s /\ awaited[r] \in Responses =>
           answer'[awaited[r]] = answer[awaited[r]]
    BY <1>p, <2>1, Zenon
  <2>4. pc'[s] # "send" /\ pc'[s] # "wait"
    BY <2>2
  <2>5. Calling(s)'
    BY <2>2, <2>4, Zenon DEF Calling
  <2>6. ResultFits' /\ outcome \subseteq outcome'
    <3>1. CASE verdict[s] = None
      BY <1>7, <1>u, <3>1, Zenon DEF Release
    <3>2. CASE verdict[s] # None
      <4>1. PICK got : got = [what |-> "got", for |-> Message(s).payload, kind |-> verdict[s],
                              reply |-> answer[awaited[s]]]
        OBVIOUS
      <4>2. outcome' = outcome \cup {got}
        BY <1>7, <3>2, <4>1, Zenon DEF Release, Returned
      <4>3. /\ got.for = Message(s).payload /\ got.kind = verdict[s]
            /\ got.reply = answer[awaited[s]]
        BY <4>1
      <4>4. Fitting(got.for, got.kind, got.reply)
        <5>1. Fitting(Message(s).payload, verdict[s], answer[awaited[s]])
          BY <1>i, <3>2, Zenon DEF Calling
        <5> QED
          BY <4>3, <5>1, Zenon
      <4> QED
        BY <1>i, <4>2, <4>4 DEF ResultFits, Fitting
    <3> QED
      BY <3>1, <3>2
  <2> QED
    BY <1>s, <2>1, <2>2, <2>3, <2>5, <2>6
<1>8. ASSUME \/ LateResult \/ Break \/ Reconnect \/ UNCHANGED wireVars
             \/ \E c \in Conns : Forget(c) \/ Read(c) \/ Dispatch(c)
             \/ \E t \in Hosted : HandleDirect(t)
      PROVE  ResultInv'
  <2>1. UNCHANGED <<script, pc, awaited, verdict, answer, outcome>>
    BY <1>8, Zenon DEF LateResult, Break, Reconnect, wireVars, Forget, Read, Dispatch,
       HandleDirect
  <2>2. back' \subseteq back
    BY <1>8, Zenon DEF LateResult, Break, Reconnect, wireVars, Forget, Read, Dispatch,
       HandleDirect
  <2> QED
    BY <1>k, <1>n, <2>1, <2>2, Zenon
<1>9. ASSUME NEW c \in Conns, ReadUnregistered(c) PROVE ResultInv'
  <2>1. UNCHANGED <<script, pc, awaited, verdict, answer>>
    BY <1>9, Zenon DEF ReadUnregistered
  <2>2. CASE UNCHANGED <<back, outcome>>
    BY <1>k, <1>n, <2>1, <2>2, Zenon
  <2>3. ASSUME NEW packet,
               Respond(c, packet.from, packet.for, Failed(Framework("node_not_found"))),
               Gave(packet.for, "node_not_found", None)
        PROVE  ResultInv'
    <3>1. Framework("node_not_found").kind = "node_not_found" /\ "node_not_found" \in Kinds
      BY DEF Framework, Kinds
    <3>2. Gives
      BY <2>3, <3>1, AnswersError, Zenon
    <3> QED
      BY <1>k, <2>1, <3>2, Zenon
  <2> QED
    BY <1>9, <2>2, <2>3, Zenon DEF ReadUnregistered
<1>10. ASSUME NEW c \in Conns, Done(c) PROVE ResultInv'
  <2>1. UNCHANGED <<script, pc, awaited, verdict, answer>> /\ reader[c] # None
    BY <1>10, Zenon DEF Done
  <2>2. CASE UNCHANGED <<back, outcome>>
    BY <1>k, <1>n, <2>1, <2>2, Zenon
  <2>3. ASSUME NEW packet, NEW fate, fate = reader[c].fate, fate # "posted", fate # "unread",
               Respond(c, packet.from, packet.for, Failed(Framework(fate))),
               Gave(packet.for, fate, None)
        PROVE  ResultInv'
    <3>1. fate \in Fates
      <4>1. reader[c] \in InHand
        BY <2>1, Zenon DEF Streams
      <4> QED
        BY <2>3, <4>1 DEF InHand
    <3>2. Framework(fate).kind = fate /\ fate \in Kinds
      BY <2>3, <3>1 DEF Framework, Kinds, Fates
    <3>3. Gives
      BY <2>3, <3>2, AnswersError, Zenon
    <3> QED
      BY <1>k, <2>1, <3>3, Zenon
  <2> QED
    BY <1>10, <2>2, <2>3, Zenon DEF Done
<1>11. ASSUME NEW t \in Hosted, HandleRequest(t) PROVE ResultInv'
  <2>1. UNCHANGED <<script, pc, awaited, verdict, answer>>
    BY <1>11, Zenon DEF HandleRequest
  <2>2. ASSUME NEW task,
               Respond(task.over, task.from, task.message.payload,
                       Succeeded(task.message.payload)),
               Gave(task.message.payload, "ok", task.message.payload)
        PROVE  ResultInv'
    <3>1. Gives
      BY <2>2, AnswersResult, Zenon
    <3> QED
      BY <1>k, <2>1, <3>1, Zenon
  <2>3. ASSUME NEW task, NEW error \in HandlerErrors,
               Gave(task.message.payload, error.kind, None),
               \/ Respond(task.over, task.from, task.message.payload, Failed(error))
               \/ UNCHANGED back
        PROVE  ResultInv'
    <3>1. error.kind \in Kinds \cup Uncoded
      BY <2>3 DEF HandlerErrors
    <3>2. Gives
      BY <2>3, <3>1, AnswersError, Zenon
    <3> QED
      BY <1>k, <2>1, <3>2, Zenon
  <2> QED
    BY <1>11, <2>2, <2>3, Zenon DEF HandleRequest
<1> QED
  BY <1>1, <1>2, <1>3, <1>4, <1>5, <1>6, <1>7, <1>8, <1>9, <1>10, <1>11, Zenon DEF RpcWireNext

\* A caller that gets a result gets the one given for its request: respondRPCError
\* and decodeResult agree on the errors that have a code, every other error arrives
\* as a plain one, and a response object is the caller's own
\* (node.go:1501-1525, rpc_wire.go:145-155, 188-217).
THEOREM GetsWhatWasGiven == RpcWireSpec => []ResultFits
<1>1. RpcWireInit => ResultInv
  <2> SUFFICES ASSUME RpcWireInit PROVE ResultInv
    OBVIOUS
  <2>1. /\ verdict = [s \in Senders |-> None] /\ pc = [s \in Senders |-> "idle"]
        /\ back = {} /\ outcome = {}
    BY Zenon DEF RpcWireInit
  <2>2. \A s \in Senders : pc[s] # "send" /\ pc[s] # "wait" /\ verdict[s] = None
    BY <2>1
  <2>3. DOMAIN verdict = Senders
    BY <2>1
  <2> QED
    BY <2>1, <2>2, <2>3, Zenon DEF ResultInv, Calling, ResultFits
<1>2. ASSUME FlowInv, ResultInv, [RpcWireNext]_wireVars PROVE ResultInv'
  BY <1>2, ResultStep, Zenon DEF FlowInv
<1>3. ResultInv => ResultFits
  BY Zenon DEF ResultInv
<1> QED
  BY <1>1, <1>2, <1>3, FlowInvariance, PTL DEF RpcWireSpec

=============================================================================
