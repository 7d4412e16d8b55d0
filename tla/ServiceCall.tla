----------------------------- MODULE ServiceCall -----------------------------
(***************************************************************************)
(* Calls between services: callServiceAsync and callServiceSync of a Node, *)
(* the dispatch of a request to the called service's Loop, its answer, the *)
(* call timer and Stop.                                                    *)
(*                                                                         *)
(* A service handles its tasks one by one on its Loop.  A call made by a   *)
(* handler runs on that Loop; a synchronous one keeps the Loop waiting.    *)
(* The timer of a call and the answers of an asynchronous handler come     *)
(* from goroutines of their own, so a call has three ways to complete that *)
(* race each other: an answer, the timer, and Stop.                        *)
(*                                                                         *)
(* A remote call is completed by xtnet's table of pending requests, which  *)
(* is external: it takes the first of the response and its own timeout.    *)
(* What a service does in a handler is free: it answers once, again, late  *)
(* or never, calls other services, or panics.                              *)
(***************************************************************************)
EXTENDS Integers, Sequences, FiniteSets

CONSTANTS
  Loops,        \* the Loops of the Node's services
  RemoteLoops,  \* the Loops of services of another Node
  App,          \* callers that are not on a Loop
  Calls,        \* the calls made
  Plans,        \* the ways they are made: for each call that is made the Loop
                \* it is made on, or App, the Loop of the called service, and
                \* whether it is made with CallServiceSync
  Answers,      \* answers of a service: payloads, errors, a recovered panic
  MaxResponds   \* bound on Respond calls of one handler

NoTask == [kind |-> "none"]
AllLoops == Loops \cup RemoteLoops

ASSUME CallAssumption ==
  /\ App \notin AllLoops /\ Loops \cap RemoteLoops = {}
  /\ \A p \in Plans : \E made \in SUBSET Calls :
       p \in [made -> [caller : Loops \cup {App}, target : AllLoops, sync : BOOLEAN]]
  /\ Answers \cap {"timeout", "stopped"} = {}
  /\ MaxResponds \in Nat

VARIABLES
  plan,       \* which of the Plans is carried out
  state,      \* Node.state
  halt,       \* the Loop that Stop waits for, and the ones it has closed
  phase,      \* the calling goroutine: new, begun, armed, waiting, and how
              \* the call returned: accepted, refused, returned
  timer,      \* the call timer: off, armed, firing
  completed,  \* the completed flag of the call
  wire,       \* a remote call's messages: none, request, served, response, gone
  responded,  \* the responded flag of the handler: none before it runs, no, yes
  responds,   \* how often the handler has called Respond
  first,      \* the answers that passed respondOnce
  response,   \* outcomes in CallServiceSync's channel, or in a callback's goroutine
  queue,      \* tasks posted to each Loop
  running,    \* the task each Loop runs
  told        \* history: the outcomes each caller was told of

callVars == <<phase, timer, completed, wire, response>>
handlerVars == <<responded, responds, first>>
loopVars == <<queue, running>>
vars == <<plan, state, halt, callVars, handlerVars, loopVars, told>>

Init ==
  /\ plan \in Plans
  /\ state = "Running"
  /\ halt = [at |-> "none", closed |-> {}]
  /\ phase = [c \in Calls |-> "new"]
  /\ timer = [c \in Calls |-> "off"]
  /\ completed = [c \in Calls |-> FALSE]
  /\ wire = [c \in Calls |-> "none"]
  /\ responded = [c \in Calls |-> "none"]
  /\ responds = [c \in Calls |-> 0]
  /\ first = [c \in Calls |-> <<>>]
  /\ response = [c \in Calls |-> <<>>]
  /\ queue = [l \in AllLoops |-> <<>>]
  /\ running = [l \in AllLoops |-> NoTask]
  /\ told = [c \in Calls |-> <<>>]

Sync == {c \in DOMAIN plan : plan[c].sync}
Caller(c) == plan[c].caller
Target(c) == plan[c].target
Local(c) == Target(c) \in Loops
Operational == state = "Running"

Handle(c) == [kind |-> "handle", call |-> c]

Callback(c, o) == [kind |-> "callback", call |-> c, outcome |-> o]
StopTask == [kind |-> "stop"]

\* A Loop that Stop has closed runs nothing more.
Posted(l, t) ==
  IF l \in halt.closed THEN queue ELSE [queue EXCEPT ![l] = Append(@, t)]

-----------------------------------------------------------------------------
(* Making a call *)

Goto(c, p) == phase' = [phase EXCEPT ![c] = p]

\* the Loop is in the middle of a call
Calling(l) == \E c \in DOMAIN plan : Caller(c) = l /\ phase[c] \in {"begun", "armed", "waiting"}

\* a handler or the application calls
Begin(c) ==
  /\ phase[c] = "new" /\ c \in DOMAIN plan
  /\ Caller(c) # App => running[Caller(c)] # NoTask /\ ~Calling(Caller(c))
  /\ Goto(c, IF Operational THEN "begun" ELSE "refused")
  /\ UNCHANGED <<plan, state, halt, timer, completed, wire, response, handlerVars,
                 loopVars, told>>

\* newServiceCallTimer, which asks again whether the Node is operational
Arm(c) ==
  /\ phase[c] = "begun" /\ Local(c)
  /\ IF Operational
     THEN Goto(c, "armed") /\ timer' = [timer EXCEPT ![c] = "armed"]
     ELSE Goto(c, "refused") /\ UNCHANGED timer
  /\ UNCHANGED <<plan, state, halt, completed, wire, response, handlerVars, loopVars, told>>

Accepted(c) == Goto(c, IF c \in Sync THEN "waiting" ELSE "accepted")

\* dispatchLocalRequestAsync and dispatchLocalRequestSync post the handler
Dispatch(c) ==
  /\ phase[c] = "armed"
  /\ Accepted(c)
  /\ queue' = Posted(Target(c), Handle(c))
  /\ UNCHANGED <<plan, state, halt, timer, completed, wire, response, handlerVars,
                 running, told>>

\* lookupService, getRPCClient and the request; each of them may fail
Send(c) ==
  /\ phase[c] = "begun" /\ ~Local(c)
  /\ \/ /\ Accepted(c)
        /\ wire' = [wire EXCEPT ![c] = "request"]
        /\ timer' = [timer EXCEPT ![c] = "armed"]
     \/ Goto(c, "refused") /\ UNCHANGED <<wire, timer>>
  /\ UNCHANGED <<plan, state, halt, completed, response, handlerVars, loopVars, told>>

-----------------------------------------------------------------------------
(* Completion: an answer, the timer or Stop *)

\* Mutant of Notify: the callback is not posted to the caller's Loop.
NotifyWaitingOnly(c, o) ==
  /\ response' = [response EXCEPT ![c] = IF c \in Sync \/ Caller(c) = App THEN Append(@, o) ELSE @]
  /\ UNCHANGED queue

\* The outcome is on its way to the caller: in the channel of CallServiceSync,
\* in a goroutine started for the callback, or as a task of the caller's Loop.
Notify(c, o) ==
  IF c \in Sync \/ Caller(c) = App
  THEN response' = [response EXCEPT ![c] = Append(@, o)] /\ UNCHANGED queue
  ELSE queue' = Posted(Caller(c), Callback(c, o)) /\ UNCHANGED response

\* Mutant of Wins: completed is not consulted.
WinsAlways(c) == TRUE

\* completed.CompareAndSwap(false, true) succeeds
Wins(c) == ~completed[c]

\* the winner stops the timer; one that is firing comes too late
Complete(c, o) ==
  IF Wins(c)
  THEN /\ completed' = [completed EXCEPT ![c] = TRUE]
       /\ timer' = [timer EXCEPT ![c] = IF @ = "armed" THEN "off" ELSE @]
       /\ Notify(c, o)
  ELSE UNCHANGED <<completed, timer, response, queue>>

\* The time wheel runs a due timer unless Stop has closed it; xtnet's own
\* timers outlive Stop.
TimerFires(c) ==
  /\ timer[c] = "armed" /\ (Operational \/ ~Local(c))
  /\ timer' = [timer EXCEPT ![c] = "firing"]
  /\ UNCHANGED <<plan, state, halt, phase, completed, wire, response, handlerVars,
                 loopVars, told>>

Expire(c) ==
  /\ timer[c] = "firing"
  /\ timer' = [timer EXCEPT ![c] = "off"]
  /\ IF Wins(c)
     THEN completed' = [completed EXCEPT ![c] = TRUE] /\ Notify(c, "timeout")
     ELSE UNCHANGED <<completed, response, queue>>
  /\ UNCHANGED <<plan, state, halt, phase, wire, handlerVars, running, told>>

\* the responder: of a local call, and of handleRPCRequest for a remote one
Respond(c, a) ==
  IF Local(c) THEN Complete(c, a) /\ UNCHANGED wire
  ELSE /\ wire' = [wire EXCEPT ![c] = "response"]
       /\ UNCHANGED <<completed, timer, response, queue>>

\* a remote response arrives; xtnet drops one that it no longer waits for
Receive(c) ==
  /\ wire[c] = "response"
  /\ wire' = [wire EXCEPT ![c] = "gone"]
  /\ Complete(c, first[c][1])
  /\ UNCHANGED <<plan, state, halt, phase, handlerVars, running, told>>

\* the goroutine of a callback runs it
RunAppCallback(c) ==
  /\ c \notin Sync /\ response[c] # <<>>
  /\ told' = [told EXCEPT ![c] = Append(@, Head(response[c]))]
  /\ response' = [response EXCEPT ![c] = Tail(@)]
  /\ UNCHANGED <<plan, state, halt, phase, timer, completed, wire, handlerVars, loopVars>>

\* CallServiceSync returns what its channel holds
Return(c) ==
  /\ phase[c] = "waiting" /\ response[c] # <<>>
  /\ Goto(c, "returned")
  /\ told' = [told EXCEPT ![c] = Append(@, Head(response[c]))]
  /\ UNCHANGED <<plan, state, halt, timer, completed, wire, response, handlerVars,
                 loopVars>>

\* Mutant of StopReleases: serviceCallStop is not closed.
StopReleasesNobody(c) == FALSE

\* serviceCallStop is closed before anything else is stopped
StopReleases(c) == Local(c) /\ ~Operational

\* CallServiceSync returns ErrNodeStopped
ReturnStopped(c) ==
  /\ phase[c] = "waiting" /\ StopReleases(c)
  /\ Goto(c, "returned")
  /\ completed' = [completed EXCEPT ![c] = TRUE]
  /\ timer' = [timer EXCEPT ![c] = IF @ = "armed" THEN "off" ELSE @]
  /\ told' = [told EXCEPT ![c] = Append(@, "stopped")]
  /\ UNCHANGED <<plan, state, halt, wire, response, handlerVars, loopVars>>
-----------------------------------------------------------------------------
(* The called service *)

\* handleRPCRequest: the request is dispatched, or answered with an error
Deliver(c) ==
  /\ wire[c] = "request"
  /\ \/ /\ wire' = [wire EXCEPT ![c] = "served"]
        /\ queue' = Posted(Target(c), Handle(c))
        /\ UNCHANGED first
     \/ /\ wire' = [wire EXCEPT ![c] = "response"]
        /\ \E a \in Answers : first' = [first EXCEPT ![c] = <<a>>]
        /\ UNCHANGED queue
  /\ UNCHANGED <<plan, state, halt, phase, timer, completed, response, responded, responds,
                 running, told>>

\* the connection breaks, or the answer cannot be encoded
Lose(c) ==
  /\ wire[c] \in {"request", "response"}
  /\ wire' = [wire EXCEPT ![c] = "gone"]
  /\ UNCHANGED <<plan, state, halt, phase, timer, completed, response, handlerVars,
                 loopVars, told>>

\* a free Loop takes its next task
Take(l) ==
  LET t == Head(queue[l]) IN
  /\ running[l] = NoTask /\ queue[l] # <<>>
  /\ running' = [running EXCEPT ![l] = t]
  /\ queue' = [queue EXCEPT ![l] = Tail(@)]
  /\ responded' = IF t.kind = "handle" THEN [responded EXCEPT ![t.call] = "no"] ELSE responded
  /\ UNCHANGED <<plan, state, halt, callVars, responds, first, told>>

\* Mutant of AnswersFirst: responded is not consulted.
AnswersFirstAlways(c) == TRUE

\* responded.CompareAndSwap(false, true) succeeds
AnswersFirst(c) == responded[c] = "no"

\* respondOnce reports and drops every answer but the first
RespondOnce(c, a) ==
  IF AnswersFirst(c)
  THEN /\ responded' = [responded EXCEPT ![c] = "yes"]
       /\ first' = [first EXCEPT ![c] = Append(@, a)]
       /\ Respond(c, a)
  ELSE UNCHANGED <<responded, first, wire, completed, timer, response, queue>>

\* MessageContext.Respond, from any goroutine while or after the handler runs
CallRespond(c) ==
  /\ c \notin Sync /\ responded[c] # "none" /\ responds[c] < MaxResponds
  /\ responds' = [responds EXCEPT ![c] = @ + 1]
  /\ \E a \in Answers : RespondOnce(c, a)
  /\ UNCHANGED <<plan, state, halt, phase, running, told>>

Handling(l, c) == running[l] = Handle(c) /\ ~Calling(l)
Free(l) == running' = [running EXCEPT ![l] = NoTask]

\* HandleRPCRequestSync returns or panics, and that is the answer
ReturnSync(l, c) ==
  /\ c \in Sync /\ Handling(l, c)
  /\ \E a \in Answers :
       /\ first' = [first EXCEPT ![c] = Append(@, a)]
       /\ Respond(c, a)
  /\ Free(l)
  /\ UNCHANGED <<plan, state, halt, phase, responded, responds, told>>

\* HandleRPCRequestAsync returns, or panics and answers with the panic
ReturnAsync(l, c) ==
  /\ c \notin Sync /\ Handling(l, c)
  /\ \/ \E a \in Answers : RespondOnce(c, a)
     \/ UNCHANGED <<responded, first, wire, completed, timer, response, queue>>
  /\ Free(l)
  /\ UNCHANGED <<plan, state, halt, phase, responds, told>>

\* the callback of a call made on Loop l
RunCallback(l) ==
  LET t == running[l] IN
  /\ t.kind = "callback" /\ ~Calling(l)
  /\ told' = [told EXCEPT ![t.call] = Append(@, t.outcome)]
  /\ Free(l)
  /\ UNCHANGED <<plan, state, halt, callVars, handlerVars, queue>>

-----------------------------------------------------------------------------
(* Stop *)

\* stopServiceCallTimeWheel closes serviceCallStop and the time wheel
StopNode ==
  /\ state = "Running" /\ state' = "Stopping"
  /\ UNCHANGED <<plan, halt, callVars, handlerVars, loopVars, told>>

\* stopService posts the service's Stop to its Loop and waits for it
StopService(l) ==
  /\ state = "Stopping" /\ halt.at = "none" /\ l \notin halt.closed
  /\ halt' = [halt EXCEPT !.at = l]
  /\ queue' = Posted(l, StopTask)
  /\ UNCHANGED <<plan, state, callVars, handlerVars, running, told>>

\* the service has stopped: its Loop is closed and what is queued is lost
CloseLoop(l) ==
  /\ running[l] = StopTask
  /\ halt' = [at |-> "none", closed |-> halt.closed \cup {l}]
  /\ queue' = [queue EXCEPT ![l] = <<>>]
  /\ Free(l)
  /\ UNCHANGED <<plan, state, callVars, handlerVars, told>>

Finish ==
  /\ state = "Stopping" /\ halt.closed = Loops
  /\ state' = "Stopped"
  /\ UNCHANGED <<plan, halt, callVars, handlerVars, loopVars, told>>

CallStep(c) ==
  \/ Arm(c) \/ Dispatch(c) \/ Send(c)
  \/ Return(c) \/ ReturnStopped(c) \/ RunAppCallback(c)
TimerStep(c) == TimerFires(c) \/ Expire(c)
LoopStep(l) ==
  \/ Take(l) \/ RunCallback(l) \/ CloseLoop(l)
  \/ \E c \in Calls : ReturnSync(l, c) \/ ReturnAsync(l, c)
StopStep == Finish \/ \E l \in Loops : StopService(l)

Next ==
  \/ StopNode \/ StopStep
  \/ \E c \in Calls :
       \/ Begin(c) \/ CallStep(c) \/ TimerStep(c)
       \/ Deliver(c) \/ Receive(c) \/ Lose(c) \/ CallRespond(c)
  \/ \E l \in AllLoops : LoopStep(l)

Spec == Init /\ [][Next]_vars

\* Goroutines and Loops keep running and timers fire; a handler returns, but
\* need not answer, and no message has to arrive.
Fairness ==
  /\ WF_vars(StopStep)
  /\ \A c \in Calls : WF_vars(CallStep(c)) /\ WF_vars(TimerStep(c))
  /\ \A l \in AllLoops : WF_vars(LoopStep(l))

FairSpec == Spec /\ Fairness

-----------------------------------------------------------------------------
(* What is checked *)

Task ==
  [kind : {"handle"}, call : Calls]
    \cup [kind : {"callback"}, call : Calls, outcome : Answers \cup {"timeout"}]
    \cup {StopTask}

TypeOK ==
  /\ plan \in Plans
  /\ state \in {"Running", "Stopping", "Stopped"}
  /\ halt \in [at : Loops \cup {"none"}, closed : SUBSET Loops]
  /\ phase \in [Calls -> {"new", "begun", "armed", "waiting", "accepted", "refused", "returned"}]
  /\ timer \in [Calls -> {"off", "armed", "firing"}]
  /\ completed \in [Calls -> BOOLEAN]
  /\ wire \in [Calls -> {"none", "request", "served", "response", "gone"}]
  /\ responded \in [Calls -> {"none", "no", "yes"}]
  /\ responds \in [Calls -> 0..MaxResponds]
  /\ first \in [Calls -> Seq(Answers)]
  /\ response \in [Calls -> Seq(Answers \cup {"timeout"})]
  /\ queue \in [AllLoops -> Seq(Task)]
  /\ running \in [AllLoops -> Task \cup {NoTask}]
  /\ told \in [Calls -> Seq(Answers \cup {"timeout", "stopped"})]

\* The channel on which a synchronous call waits never gets a second value:
\* it holds one, and another send would block the Loop of the called service
\* or the time wheel for good (node.go:760-778).
ResponseFits == \A c \in Sync : Len(response[c]) <= 1

Contract == INSTANCE CallContract WITH
  stage <- [c \in Calls |-> IF phase[c] = "new" THEN "idle"
                            ELSE IF phase[c] = "refused" THEN "refused" ELSE "open"],
  sync <- Sync, stopping <- state # "Running"

\* Whatever the timing of answers, timer and Stop, a call that returned an
\* error has no callback, and every other call has one outcome at most: the
\* first answer, a timeout, or ErrNodeStopped
\* (node.go:629-632, 681-701, 765-793, 881-890; service.go:16-17).
KeepsContract == Contract!Spec

Waiting == {c \in Calls : phase[c] = "waiting"}
Unanswered == {c \in Calls : phase[c] = "accepted" /\ told[c] = <<>>}

\* The synchronous calls that are waiting all return, even when services call
\* each other in a circle and block each other's Loop, when no answer comes,
\* and when the Node stops meanwhile (node.go:748-794); the callbacks of the
\* asynchronous calls are all run unless the Node stops (node.go:629-632,
\* 682-694; service.go:199-214).
CallsComplete ==
  /\ (Waiting # {} ~> Waiting = {})
  /\ (Unanswered # {} ~> Unanswered = {} \/ state # "Running")

\* Stop is not held up by Loops that wait in synchronous calls
\* (node.go:1599, 785-793, 1633-1641).
StopReturns == state = "Stopping" ~> state = "Stopped"
=============================================================================
