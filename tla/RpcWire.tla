------------------------------- MODULE RpcWire -------------------------------
(***************************************************************************)
(* What one Node puts on the wire for another (rpc_wire.go, and node.go    *)
(* where it is used): one-way messages (send2Service) and synchronous      *)
(* requests (callServiceSync) for a Service of another Node, from the      *)
(* pooled request object over the packet to the handler on the Service's   *)
(* Loop, and the result back to the caller.  Several goroutines send, the  *)
(* receiving Node reads each connection in a goroutine of its own, and     *)
(* they share the object pools.                                            *)
(*                                                                         *)
(* How a Node finds the target and its connection is modelled elsewhere;   *)
(* here a sender uses the newest connection.                               *)
(***************************************************************************)
EXTENDS Integers, Sequences, FiniteSets, Functions

CONSTANTS Scripts,     \* what the senders may send: functions from senders to
                       \* sequences of messages
          Hosted,      \* the Services of the receiving Node
          Objects,     \* request objects, in each of the two pools
          Responses,   \* response objects
          Conns,       \* connections, opened one after the other
          Inside,      \* senders of the receiving Node itself
          IntBits,     \* the width of int on the receiving Node
          None

\* Connections are numbered from 1; 0 stands for the receiving Node itself.
ASSUME WireAssumption == None \notin Responses /\ 1 \in Conns /\ Conns \subseteq Nat \ {0}

VARIABLES
    script,    \* what each sender still has to send
    pc,        \* what each sender does next
    held,      \* the request object a sender holds
    awaited,   \* the response object a sender holds
    verdict,   \* how the request of a sender ended
    sendPool,  \* deliverSendRequestPool: the free objects
    recvPool,  \* deliverReceiveRequestPool: the free objects
    respPool,  \* deliverResponsePool: the free objects
    field,     \* the fields of every request object
    answer,    \* the payload of every response object
    conn,      \* the newest connection
    alive,     \* connections that are up
    remotes,   \* connections whose Node the receiving Node has registered
    wire,      \* the requests on their way on each connection, oldest first
    back,      \* the results on their way back
    reader,    \* the receiving goroutine of each connection: the packet and
               \* the object in hand, and what became of them
    loop,      \* the tasks on the Loop of each hosted Service
    sent,      \* history: what was put on each connection, in order, and what
               \* was sent within the receiving Node (0)
    handled,   \* history: what the handlers of each Service saw, in order
    outcome    \* history: what a handler answered, and what the caller got

sendVars == <<script, pc, held, awaited, verdict>>
poolVars == <<sendPool, recvPool, respPool, field, answer>>
linkVars == <<conn, alive, remotes, wire, back>>
recvVars == <<reader, loop>>
historyVars == <<sent, handled, outcome>>
wireVars == <<sendVars, poolVars, linkVars, recvVars, historyVars>>

Senders == DOMAIN script

\* A key of a Service; a message sent by the Node itself has no source.
ServiceKey(name, id) == [name |-> name, id |-> id]
NoKey == ServiceKey("", 0)

NumericID(number) == [kind |-> "numeric", number |-> number, text |-> ""]
StringID(text) == [kind |-> "string", number |-> 0, text |-> text]

\* What may be sent at all.
Messages == UNION {UNION {Range(of[s]) : s \in DOMAIN of} : of \in Scripts}

Keys == [name : STRING, id : Int]
MessageIDs == [kind : {"numeric"}, number : Int, text : {""}]
                \cup [kind : {"string"}, number : {0}, text : STRING]

\* A message has an identifier of either kind, and its payload tells it from all
\* others.
ASSUME ScriptAssumption ==
    /\ Messages \subseteq
          [source : Keys, target : Keys, id : MessageIDs,
           payload : {m.payload : m \in Messages}, mode : {"direct", "sync"}]
    /\ \A of \in Scripts :
          /\ \A s \in DOMAIN of : of[s] \in Seq(Messages)
          /\ \A s, r \in DOMAIN of : \A i \in DOMAIN of[s], j \in DOMAIN of[r] :
                of[s][i].payload = of[r][j].payload => s = r /\ i = j

\* serviceMessageID.validate; a text that is too long or not valid UTF-8 is a
\* value of its own.
validate(id) ==
    \/ id.kind = "numeric" /\ id.number # 0
    \/ id.kind = "string" /\ id.text \notin {"", "too long", "not UTF-8"}

-----------------------------------------------------------------------------
(* The request objects. *)

Blank == [source |-> NoKey, target |-> NoKey, number |-> 0, text |-> "",
          payload |-> None, mode |-> "direct"]

\* initializeDeliverRequest writes one of the two message ids and leaves the
\* other as it finds it.
initializeDeliverRequest(object, m) ==
    LET filled == [field[object] EXCEPT !.source = m.source,
                      !.target = m.target, !.payload = m.payload,
                      !.mode = m.mode]
    IN  IF m.id.kind = "string" THEN [filled EXCEPT !.text = m.id.text]
        ELSE [filled EXCEPT !.number = m.id.number]

\* Mutant of Reset: the message ids are kept.
ResetPartly(object) ==
    [field EXCEPT ![object] = [Blank EXCEPT !.number = field[object].number,
                                            !.text = field[object].text]]

\* proto.Reset, on the request and on the keys it keeps.
Reset(object) == [field EXCEPT ![object] = Blank]

\* What int64 and the conversion to an int of this width make of a value.
Truncated(value, bits) ==
    ((value + 2 ^ (bits - 1)) % 2 ^ bits) - 2 ^ (bits - 1)

\* Mutant of rpcInt: the value is converted and not compared.
AnyInt(value) == TRUE

\* rpcInt refuses a value that int cannot hold.
rpcInt(value) == Truncated(value, IntBits) = value

\* The key that the receiving Node works with.
FromProto(key) == [key EXCEPT !.id = Truncated(key.id, IntBits)]

\* decodeDeliverRequest: the source may be missing altogether, the target may
\* not; exactly one message id, and a valid one.
MessageIDOf(request) ==
    IF request.text # "" THEN StringID(request.text)
    ELSE NumericID(request.number)

decodeDeliverRequest(request) ==
    LET source == FromProto(request.source)
        target == FromProto(request.target)
    IN  /\ rpcInt(request.source.id) /\ rpcInt(request.target.id)
        /\ source # NoKey => source.name # "" /\ source.id > 0
        /\ target.name # "" /\ target.id > 0
        /\ ~(request.number # 0 /\ request.text # "")
        /\ validate(MessageIDOf(request))

\* What the handler is called with.
Decoded(request) ==
    [source |-> FromProto(request.source), target |-> FromProto(request.target),
     id |-> MessageIDOf(request), payload |-> request.payload,
     mode |-> request.mode]

-----------------------------------------------------------------------------
(* Results.  An error is its kind and the size of its text. *)

\* The framework's errors that have a code on the wire ...
Kinds == {"service_not_found", "service_exists", "node_not_found",
          "node_exists", "invalid_message"}

\* ... those that have none (ErrFactoryNotFound, ErrNodeRunning, ErrNodeStopped
\* and ErrRPCDisconnected, which nothing here tells apart), and a Service's own.
Uncoded == {"uncoded", "own"}

\* respondRPCError gives every other error the same code.
CodeOf(kind) == IF kind \in Kinds THEN kind ELSE "rpc_error"

\* encodeResult refuses a text longer than maxRPCStringSize, and then nothing
\* is sent.
Fits(error) == error.size = "short"

\* decodeResult turns the code back into the framework's error.
KindOf(code) == IF code \in Kinds THEN code ELSE "remote"

Succeeded(payload) == [code |-> "", payload |-> payload]
Failed(error) == [code |-> CodeOf(error.kind), payload |-> None]

-----------------------------------------------------------------------------
RpcWireInit ==
    /\ script \in Scripts
    /\ pc = [s \in Senders |-> "idle"]
    /\ held = [s \in Senders |-> None] /\ awaited = [s \in Senders |-> None]
    /\ verdict = [s \in Senders |-> None]
    /\ sendPool = {<<"send", o>> : o \in Objects}
    /\ recvPool = {<<"recv", o>> : o \in Objects}
    /\ respPool = Responses
    /\ field = [o \in sendPool \cup recvPool |-> Blank]
    /\ answer = [r \in Responses |-> None]
    /\ conn = 1 /\ alive = {1} /\ remotes = {1}
    /\ wire = [c \in Conns |-> <<>>] /\ back = {}
    /\ reader = [c \in Conns |-> None]
    /\ loop = [t \in Hosted |-> <<>>]
    /\ sent = [c \in {0} \cup Conns |-> <<>>]
    /\ handled = [t \in Hosted |-> <<>>]
    /\ outcome = {}

Message(s) == Head(script[s])

Goto(s, label) == pc' = [pc EXCEPT ![s] = label]
Finished(s) == script' = [script EXCEPT ![s] = Tail(@)]

\* send2Service and callServiceSync refuse an invalid message id; a Service of
\* the same Node gets the message on its Loop at once; otherwise a request
\* object is taken from the pool.
Refused(s) ==
    /\ pc[s] = "idle" /\ script[s] # <<>>
    /\ ~validate(Message(s).id)
    /\ Finished(s)
    /\ UNCHANGED <<pc, held, awaited, verdict, poolVars, linkVars, recvVars,
                   historyVars>>

SendInside(s) ==
    /\ pc[s] = "idle" /\ script[s] # <<>> /\ s \in Inside
    /\ validate(Message(s).id)
    /\ loop' = [loop EXCEPT ![Message(s).target] =
                    Append(@, [message |-> Message(s), from |-> s, over |-> 0])]
    /\ sent' = [sent EXCEPT ![0] = Append(@, Message(s))]
    /\ Finished(s)
    /\ UNCHANGED <<pc, held, awaited, verdict, poolVars, linkVars, reader,
                   handled, outcome>>

Acquire(s) ==
    /\ pc[s] = "idle" /\ script[s] # <<>> /\ s \notin Inside
    /\ validate(Message(s).id)
    /\ \E object \in sendPool :
          /\ held' = [held EXCEPT ![s] = object]
          /\ sendPool' = sendPool \ {object}
    /\ Goto(s, "fill")
    /\ UNCHANGED <<script, awaited, verdict, recvPool, respPool, field, answer,
                   linkVars, recvVars, historyVars>>

\* It is filled in, and a request takes an object for the response too.
Fill(s) ==
    /\ pc[s] = "fill"
    /\ field' = [field EXCEPT ![held[s]] =
                     initializeDeliverRequest(held[s], Message(s))]
    /\ IF Message(s).mode = "direct"
         THEN UNCHANGED <<awaited, respPool>>
         ELSE \E r \in respPool : /\ awaited' = [awaited EXCEPT ![s] = r]
                                  /\ respPool' = respPool \ {r}
    /\ Goto(s, "send")
    /\ UNCHANGED <<script, held, verdict, sendPool, recvPool, answer, linkVars,
                   recvVars, historyVars>>

\* RPCClient.send and requestSync: the packet is encoded from the object, or
\* the link is down.
Send(s) ==
    /\ pc[s] = "send"
    /\ IF conn \in alive
         THEN /\ wire' = [wire EXCEPT ![conn] =
                   Append(@, [request |-> field[held[s]], from |-> s,
                              asks |-> Message(s).mode # "direct",
                              for |-> Message(s).payload])]
              /\ sent' = [sent EXCEPT ![conn] = Append(@, Message(s))]
              /\ Goto(s, IF Message(s).mode = "direct" THEN "release" ELSE "wait")
         ELSE /\ Goto(s, "release")
              /\ UNCHANGED <<wire, sent>>
    /\ UNCHANGED <<script, held, awaited, verdict, poolVars, conn, alive, remotes,
                   back, recvVars, handled, outcome>>

\* The result of the request: the error's code is decoded, or the payload is
\* put into the response object.
Result(s) ==
    /\ pc[s] = "wait"
    /\ \E result \in back :
          /\ result.to = s /\ result.for = Message(s).payload
          /\ back' = back \ {result}
          /\ answer' = [answer EXCEPT ![awaited[s]] = result.value.payload]
          /\ verdict' = [verdict EXCEPT ![s] =
                IF result.value.code = "" THEN "ok" ELSE KindOf(result.value.code)]
    /\ Goto(s, "release")
    /\ UNCHANGED <<script, held, awaited, sendPool, recvPool, respPool, field,
                   conn, alive, remotes, wire, recvVars, historyVars>>

\* The time for the request is over; an answer that comes later finds nobody.
TimesOut(s) ==
    /\ pc[s] = "wait"
    /\ Goto(s, "release")
    /\ UNCHANGED <<script, held, awaited, verdict, poolVars, linkVars, recvVars,
                   historyVars>>

Waiting(result) ==
    pc[result.to] = "wait" /\ Message(result.to).payload = result.for

LateResult ==
    /\ \E result \in back : ~Waiting(result) /\ back' = back \ {result}
    /\ UNCHANGED <<sendVars, poolVars, conn, alive, remotes, wire, recvVars,
                   historyVars>>

\* Mutant of Returned: the payload is read after the object is reset.
ReturnedLate(s) == None

\* What the caller is given: the payload of the response object.
Returned(s) == answer[awaited[s]]

\* There may be nothing to put back.
Recycled(pool, object) == IF object = None THEN pool ELSE pool \cup {object}

\* releaseDeliverSendRequest and releaseDeliverResponse reset the objects
\* before they go back; the caller has taken the payload.
Release(s) ==
    /\ pc[s] = "release"
    /\ field' = Reset(held[s])
    /\ sendPool' = sendPool \cup {held[s]}
    /\ answer' = [r \in Responses |-> IF r = awaited[s] THEN None ELSE answer[r]]
    /\ respPool' = Recycled(respPool, awaited[s])
    /\ IF verdict[s] = None THEN UNCHANGED outcome
       ELSE outcome' = outcome \cup
                {[what |-> "got", for |-> Message(s).payload,
                  kind |-> verdict[s], reply |-> Returned(s)]}
    /\ held' = [held EXCEPT ![s] = None]
    /\ awaited' = [awaited EXCEPT ![s] = None]
    /\ verdict' = [verdict EXCEPT ![s] = None]
    /\ Finished(s) /\ Goto(s, "idle")
    /\ UNCHANGED <<recvPool, linkVars, recvVars, sent, handled>>

-----------------------------------------------------------------------------
(* The connection. *)

\* It breaks, and what is on the wire is lost from some point on.
Break ==
    /\ conn \in alive
    /\ alive' = alive \ {conn}
    /\ \E n \in 0..Len(wire[conn]) :
          wire' = [wire EXCEPT ![conn] = SubSeq(@, 1, n)]
    /\ UNCHANGED <<sendVars, poolVars, conn, remotes, back, recvVars, historyVars>>

\* The receiving Node forgets the Node at the other end, because the connection
\* is gone or because it was silent for too long.
Forget(c) ==
    /\ c \in remotes
    /\ remotes' = remotes \ {c} /\ alive' = alive \ {c}
    /\ UNCHANGED <<sendVars, poolVars, conn, wire, back, recvVars, historyVars>>

\* The next send opens another one, which the receiving Node registers when it
\* has forgotten the last.
Reconnect ==
    /\ conn \notin alive \cup remotes /\ conn + 1 \in Conns
    /\ conn' = conn + 1
    /\ alive' = alive \cup {conn + 1} /\ remotes' = remotes \cup {conn + 1}
    /\ UNCHANGED <<sendVars, poolVars, wire, back, recvVars, historyVars>>

-----------------------------------------------------------------------------
(* The receiving Node. *)

\* An answer to a request, over the session that it came from.
Respond(c, to, for, value) ==
    back' = IF c \in alive
              THEN back \cup {[to |-> to, for |-> for, value |-> value]}
              ELSE back

\* History: the answer that a request was given.
Gave(for, kind, reply) ==
    outcome' = outcome \cup {[what |-> "gave", for |-> for, kind |-> kind,
                              reply |-> reply]}

\* An error of the framework itself, which has a short text.
Framework(kind) == [kind |-> kind, size |-> "short"]

\* handleRPCDirect and handleRPCRequest: the packet of a Node that is not
\* registered is refused; a pooled object takes what any other packet holds, and
\* proto.Unmarshal clears the object first.
Read(c) ==
    /\ reader[c] = None /\ wire[c] # <<>> /\ c \in remotes
    /\ \E object \in recvPool :
          /\ recvPool' = recvPool \ {object}
          /\ field' = [field EXCEPT ![object] = Head(wire[c]).request]
          /\ reader' = [reader EXCEPT ![c] =
                [object |-> object, packet |-> Head(wire[c]), fate |-> "unread"]]
    /\ wire' = [wire EXCEPT ![c] = Tail(@)]
    /\ UNCHANGED <<sendVars, sendPool, respPool, answer, conn, alive, remotes, back,
                   loop, historyVars>>

ReadUnregistered(c) ==
    /\ reader[c] = None /\ wire[c] # <<>> /\ c \notin remotes
    /\ wire' = [wire EXCEPT ![c] = Tail(@)]
    /\ LET packet == Head(wire[c])
       IN  IF packet.asks
             THEN /\ Respond(c, packet.from, packet.for,
                             Failed(Framework("node_not_found")))
                  /\ Gave(packet.for, "node_not_found", None)
             ELSE UNCHANGED <<back, outcome>>
    /\ UNCHANGED <<sendVars, poolVars, conn, alive, remotes, recvVars, sent,
                   handled>>

\* The closure that dispatchLocalDirect and dispatchLocalRequestSync post: it
\* holds the decoded values, the payload, and the session to answer to.
Task(c) ==
    [message |-> Decoded(field[reader[c].object]),
     from |-> reader[c].packet.from, over |-> c]

\* What can be wrong with a request: it cannot be decoded, its mode is not that
\* of its packet, or its target is not here.
Fate(request, asks) ==
    IF ~decodeDeliverRequest(request) \/ (request.mode = "sync") # asks
      THEN "invalid_message"
    ELSE IF FromProto(request.target) \notin Hosted THEN "service_not_found"
    ELSE "posted"

\* Mutant of Posted: every packet has a goroutine of its own, and the last one
\* comes first.
PostedFirst(queue, task) == <<task>> \o queue

Posted(queue, task) == Append(queue, task)

\* Otherwise the message is posted to the Loop of its target.
Dispatch(c) ==
    /\ reader[c] # None /\ reader[c].fate = "unread"
    /\ LET request == field[reader[c].object]
           fate == Fate(request, reader[c].packet.asks)
           target == FromProto(request.target)
       IN  /\ reader' = [reader EXCEPT ![c].fate = fate]
           /\ loop' = IF fate = "posted"
                        THEN [loop EXCEPT ![target] = Posted(@, Task(c))]
                        ELSE loop
    /\ UNCHANGED <<sendVars, poolVars, linkVars, historyVars>>

\* releaseDeliverReceiveRequest, on every path; then a request that was refused
\* is answered.
Done(c) ==
    /\ reader[c] # None /\ reader[c].fate # "unread"
    /\ field' = Reset(reader[c].object)
    /\ recvPool' = recvPool \cup {reader[c].object}
    /\ LET packet == reader[c].packet
       IN  IF packet.asks /\ reader[c].fate # "posted"
             THEN /\ Respond(c, packet.from, packet.for,
                             Failed(Framework(reader[c].fate)))
                  /\ Gave(packet.for, reader[c].fate, None)
             ELSE UNCHANGED <<back, outcome>>
    /\ reader' = [reader EXCEPT ![c] = None]
    /\ UNCHANGED <<sendVars, sendPool, respPool, answer, conn, alive, remotes, wire,
                   loop, sent, handled>>

\* The errors that a handler may return: the framework's, which it may have from
\* a call of its own, and others.  The text may be too long to be sent.
HandlerErrors == [kind : Kinds \cup Uncoded, size : {"short", "long"}]

\* The handler runs.  A request is answered with the payload, through a response
\* object that goes back at once, or with the handler's error; no answer is sent
\* when the text of the error is too long.
HandleDirect(t) ==
    /\ loop[t] # <<>> /\ Head(loop[t]).message.mode = "direct"
    /\ handled' = [handled EXCEPT ![t] = Append(@, Head(loop[t]).message)]
    /\ loop' = [loop EXCEPT ![t] = Tail(@)]
    /\ UNCHANGED <<sendVars, poolVars, linkVars, reader, sent, outcome>>

HandleRequest(t) ==
    /\ loop[t] # <<>> /\ Head(loop[t]).message.mode = "sync"
    /\ loop' = [loop EXCEPT ![t] = Tail(@)]
    /\ LET task == Head(loop[t])
           message == task.message
       IN  /\ handled' = [handled EXCEPT ![t] = Append(@, message)]
           /\ \/ /\ Respond(task.over, task.from, message.payload,
                            Succeeded(message.payload))
                 /\ Gave(message.payload, "ok", message.payload)
              \/ \E error \in HandlerErrors :
                    /\ Gave(message.payload, error.kind, None)
                    /\ IF Fits(error)
                         THEN Respond(task.over, task.from, message.payload,
                                      Failed(error))
                         ELSE UNCHANGED back
    /\ UNCHANGED <<sendVars, poolVars, conn, alive, remotes, wire, reader, sent>>

RpcWireNext ==
    \/ \E s \in Senders : \/ Refused(s) \/ SendInside(s) \/ Acquire(s)
                          \/ Fill(s) \/ Send(s) \/ Result(s) \/ TimesOut(s)
                          \/ Release(s)
    \/ LateResult \/ Break \/ Reconnect
    \/ \E c \in Conns : \/ Forget(c) \/ Read(c) \/ ReadUnregistered(c)
                        \/ Dispatch(c) \/ Done(c)
    \/ \E t \in Hosted : HandleDirect(t) \/ HandleRequest(t)

RpcWireSpec == RpcWireInit /\ [][RpcWireNext]_wireVars

-----------------------------------------------------------------------------
AllSent == UNION {Range(sent[c]) : c \in DOMAIN sent}

\* What a handler sees is a message that was sent, with its source, its target,
\* its one message id, its payload and its mode, on the Loop of its target, and
\* at most once: nothing is left over from an earlier use of a pooled object
\* (rpc_wire.go:98-143), nothing changes when the object is used again, and no
\* identifier is cut down to that of another Service (rpc_wire.go:299-305).
\* The payloads tell the messages apart.
HandledAsSent ==
    \A t \in Hosted :
       /\ \A i \in DOMAIN handled[t] :
             handled[t][i] \in AllSent /\ handled[t][i].target = t
       /\ IsInjective([i \in DOMAIN handled[t] |-> handled[t][i].payload])

\* What was sent on one connection to one Service is handled in that order
\* (node.go:599-627, 822-857), though other connections are read in parallel.
HandledInOrder ==
    \A c \in DOMAIN sent, t \in Hosted :
       \A i, j \in DOMAIN handled[t] :
          \A k, l \in DOMAIN sent[c] :
             i < j /\ handled[t][i] = sent[c][k] /\ handled[t][j] = sent[c][l]
                => k < l

\* The objects in the pools are blank and nobody else holds them:
\* initializeDeliverRequest relies on it, for it writes only one of the two
\* message ids (rpc_wire.go:105-109).
PoolsBlank ==
    /\ \A o \in sendPool \cup recvPool : field[o] = Blank
    /\ \A r \in respPool : answer[r] = None
    /\ \A s, r \in Senders : s # r => held[s] = None \/ held[s] # held[r]
    /\ \A c \in Conns : reader[c] # None => reader[c].object \notin recvPool

\* What a caller may conclude from an error: it is one of the five that have a
\* code, or it is a plain one.
AsTold(kind) == IF kind \in Kinds \cup {"ok"} THEN kind ELSE "remote"

\* A caller that gets a result gets the one given for this very request: the
\* payload, though the response object is used again; an error with a code as
\* the same error; and any other error as a plain one.  A handler whose own call
\* failed because its Node stopped or its link broke (ErrNodeStopped and
\* ErrRPCDisconnected have no code: errors.go:10-14) never makes the caller
\* believe that of itself (node.go:1501-1525, rpc_wire.go:188-217).
ResultFits ==
    \A got \in outcome : got.what = "got" =>
       \E gave \in outcome :
          /\ gave.what = "gave" /\ gave.for = got.for
          /\ got.kind = AsTold(gave.kind)
          /\ got.kind = "ok" => got.reply = gave.reply

=============================================================================
