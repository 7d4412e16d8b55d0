-------------------------- MODULE ServiceCallProofs --------------------------
(***************************************************************************)
(* Proofs about ServiceCall, for any Loops, calls, ways to make them and   *)
(* answers: the calls keep the contract of CallContract.                   *)
(***************************************************************************)
EXTENDS ServiceCall, TLAPS

\* A task of this kind of this call waits in a queue, or is being run.
Queued(kind, c) ==
  \E l \in AllLoops : \E i \in 1..Len(queue[l]) :
    queue[l][i].kind = kind /\ queue[l][i].call = c
Run(kind, c) == \E l \in AllLoops : running[l].kind = kind /\ running[l].call = c

\* The handler of a call has not been posted.
Quiet(c) ==
  responded[c] = "none" /\ first[c] = <<>> /\ ~ Queued("handle", c) /\ ~ Run("handle", c)

\* An outcome that may be told.
Valid(c, o) == o = "timeout" \/ first[c] = <<o>>

\* Only Stop of this Node closes Loops, and they are its own.
StopsLocal ==
  \A l \in RemoteLoops :
    /\ \A i \in 1..Len(queue[l]) : queue[l][i] # StopTask
    /\ running[l] # StopTask

\* A call has one handler task and one callback task at most.
Same(t, u) == t.kind = u.kind /\ t.kind \in {"handle", "callback"} /\ t.call = u.call

Unique ==
  /\ \A l, k \in AllLoops : \A i \in 1..Len(queue[l]), j \in 1..Len(queue[k]) :
       Same(queue[l][i], queue[k][j]) => l = k /\ i = j
  /\ \A l, k \in AllLoops : \A i \in 1..Len(queue[l]) : ~ Same(queue[l][i], running[k])
  /\ \A l, k \in AllLoops : Same(running[l], running[k]) => l = k

\* Callback tasks carry an outcome that may be told.
Carried ==
  \A l \in AllLoops :
    /\ \A i \in 1..Len(queue[l]) : queue[l][i].kind = "callback" =>
         Valid(queue[l][i].call, queue[l][i].outcome)
    /\ running[l].kind = "callback" => Valid(running[l].call, running[l].outcome)

\* How far a call has got, and what cannot have happened yet.
Progress(c) ==
  /\ phase[c] # "new" => c \in DOMAIN plan
  /\ phase[c] \in {"new", "begun", "refused"} =>
       timer[c] = "off" /\ ~ completed[c] /\ wire[c] = "none" /\ Quiet(c)
  /\ phase[c] = "armed" => wire[c] = "none" /\ Quiet(c)
  /\ wire[c] = "request" => Quiet(c)
  /\ phase[c] = "waiting" => c \in Sync

\* The service's first answer is its only one.
Answered(c) ==
  /\ first[c] = <<>> \/ \E a \in Answers : first[c] = <<a>>
  /\ wire[c] = "response" => first[c] # <<>>
  /\ Queued("handle", c) => responded[c] = "none" /\ first[c] = <<>>
  /\ Run("handle", c) /\ c \in Sync => first[c] = <<>>
  /\ c \notin Sync /\ responded[c] = "no" => first[c] = <<>>

\* The one outcome is in one place: a channel or goroutine, a task, or told.
Flow(c) ==
  /\ ~ completed[c] => /\ response[c] = <<>> /\ told[c] = <<>>
                       /\ ~ Queued("callback", c) /\ ~ Run("callback", c)
  /\ response[c] = <<>> \/ \E o \in Answers \cup {"timeout"} : response[c] = <<o>> /\ Valid(c, o)
  /\ Queued("callback", c) \/ Run("callback", c) =>
       c \notin Sync /\ response[c] = <<>> /\ told[c] = <<>>
  /\ c \notin Sync /\ response[c] # <<>> => told[c] = <<>>
  /\ c \in Sync /\ phase[c] # "returned" => told[c] = <<>>

CallInv == \A c \in Calls : Progress(c) /\ Answered(c) /\ Flow(c)

Inv == TypeOK /\ StopsLocal /\ Unique /\ Carried /\ CallInv

-----------------------------------------------------------------------------
(* Types *)

\* A plan says of each of its calls who makes it, who is called and how.
LEMMA PlanType ==
  ASSUME TypeOK, NEW c \in DOMAIN plan
  PROVE  c \in Calls /\ Caller(c) \in Loops \cup {App} /\ Target(c) \in AllLoops
<1>1. PICK made \in SUBSET Calls :
        plan \in [made -> [caller : Loops \cup {App}, target : AllLoops, sync : BOOLEAN]]
  BY CallAssumption, Zenon DEF TypeOK
<1> QED
  BY <1>1 DEF Caller, Target

\* The tasks, and what posting one does to the queues.
LEMMA TaskFacts ==
  /\ \A c \in Calls : /\ Handle(c) \in Task /\ Handle(c).kind = "handle"
                      /\ Handle(c).call = c /\ Handle(c) # StopTask
  /\ \A c \in Calls, o \in Answers \cup {"timeout"} :
       /\ Callback(c, o) \in Task /\ Callback(c, o).kind = "callback"
       /\ Callback(c, o).call = c /\ Callback(c, o).outcome = o /\ Callback(c, o) # StopTask
  /\ StopTask \in Task /\ StopTask.kind = "stop" /\ NoTask.kind = "none"
  /\ \A t \in Task : t.kind \in {"handle", "callback", "stop"}
  /\ \A t \in Task : t.kind = "handle" => t.call \in Calls
  /\ \A t \in Task : t.kind = "callback" =>
       t.call \in Calls /\ t.outcome \in Answers \cup {"timeout"}
<1>1. \A c \in Calls : /\ Handle(c) \in Task /\ Handle(c).kind = "handle"
                       /\ Handle(c).call = c /\ Handle(c) # StopTask
  BY Zenon DEF Handle, Task, StopTask
<1>2. \A c \in Calls, o \in Answers \cup {"timeout"} :
        /\ Callback(c, o) \in Task /\ Callback(c, o).kind = "callback"
        /\ Callback(c, o).call = c /\ Callback(c, o).outcome = o /\ Callback(c, o) # StopTask
  BY DEF Callback, Task, StopTask
<1>3. StopTask \in Task /\ StopTask.kind = "stop" /\ NoTask.kind = "none"
  BY DEF Task, StopTask, NoTask
<1>4. \A t \in Task : t.kind \in {"handle", "callback", "stop"}
  BY DEF Task, StopTask
<1>5. \A t \in Task : t.kind = "handle" => t.call \in Calls
  BY DEF Task, StopTask
<1>6. \A t \in Task : t.kind = "callback" =>
        t.call \in Calls /\ t.outcome \in Answers \cup {"timeout"}
  BY DEF Task, StopTask
<1> QED
  BY <1>1, <1>2, <1>3, <1>4, <1>5, <1>6, Zenon

\* Posting a task adds it to the end of one queue, or does nothing when the Loop is
\* closed.
LEMMA PostedType ==
  ASSUME queue \in [AllLoops -> Seq(Task)], NEW l \in AllLoops, NEW t \in Task
  PROVE  /\ Posted(l, t) \in [AllLoops -> Seq(Task)]
         /\ \A k \in AllLoops \ {l} : Posted(l, t)[k] = queue[k]
<1>1. Append(queue[l], t) \in Seq(Task)
  OBVIOUS
<1>2. [queue EXCEPT ![l] = Append(@, t)] \in [AllLoops -> Seq(Task)]
  BY <1>1
<1>3. \A k \in AllLoops \ {l} : [queue EXCEPT ![l] = Append(@, t)][k] = queue[k]
  OBVIOUS
<1> QED
  BY <1>2, <1>3 DEF Posted

\* What an outcome's way to the caller does to the state.
LEMMA NotifyType ==
  ASSUME TypeOK, StopsLocal, NEW c \in DOMAIN plan, NEW o \in Answers \cup {"timeout"},
         Notify(c, o)
  PROVE  /\ queue' \in [AllLoops -> Seq(Task)]
         /\ response' \in [Calls -> Seq(Answers \cup {"timeout"})]
         /\ \A l \in RemoteLoops : \A i \in 1..Len(queue'[l]) : queue'[l][i] # StopTask
<1>0. c \in Calls /\ Callback(c, o) \in Task /\ Callback(c, o) # StopTask
  BY PlanType, TaskFacts
<1>1. /\ queue \in [AllLoops -> Seq(Task)]
      /\ response \in [Calls -> Seq(Answers \cup {"timeout"})]
      /\ \A l \in RemoteLoops : l \in AllLoops
  BY Zenon DEF TypeOK, AllLoops
<1>2. CASE c \in Sync \/ Caller(c) = App
  <2>1. queue' = queue /\ response' = [response EXCEPT ![c] = Append(@, o)]
    BY <1>2, Zenon DEF Notify
  <2>2. response' \in [Calls -> Seq(Answers \cup {"timeout"})]
    BY <1>0, <1>1, <2>1
  <2> QED
    BY <1>1, <2>1, <2>2, Zenon DEF StopsLocal
<1>3. CASE ~ (c \in Sync \/ Caller(c) = App)
  <2>1. response' = response /\ Caller(c) \in Loops /\ Caller(c) \in AllLoops
    BY <1>3, PlanType DEF Notify, AllLoops
  <2>2. queue' = Posted(Caller(c), Callback(c, o))
    BY <1>3 DEF Notify
  <2>3. \A l \in RemoteLoops : queue'[l] = queue[l]
    BY <1>0, <1>1, <2>1, <2>2, PostedType, CallAssumption
  <2>4. queue' \in [AllLoops -> Seq(Task)]
    BY <1>0, <1>1, <2>1, <2>2, PostedType, Zenon
  <2> QED
    BY <1>1, <2>1, <2>3, <2>4, Zenon DEF StopsLocal
<1> QED
  BY <1>2, <1>3, Zenon

\* A call that anything has happened to is in the plan and was not refused.
LEMMA Underway ==
  ASSUME CallInv, NEW c \in Calls,
         \/ timer[c] # "off" \/ completed[c] \/ wire[c] # "none" \/ responded[c] # "none"
         \/ first[c] # <<>> \/ Run("handle", c)
  PROVE  c \in DOMAIN plan /\ phase[c] \notin {"new", "begun", "refused"}
<1>1. Progress(c)
  BY DEF CallInv
<1> QED
  BY <1>1, Zenon DEF Progress, Quiet

\* The sequences that occur, as sets of their own.
TaskSeqs == Seq(Task)
AnswerSeqs == Seq(Answers)
OutcomeSeqs == Seq(Answers \cup {"timeout"})
ToldSeqs == Seq(Answers \cup {"timeout", "stopped"})

\* They lose their head and gain elements at the end.
LEMMA Sequences ==
  /\ <<>> \in TaskSeqs /\ <<>> \in AnswerSeqs /\ <<>> \in OutcomeSeqs /\ <<>> \in ToldSeqs
  /\ \A q \in TaskSeqs : q # <<>> => Head(q) \in Task /\ Tail(q) \in TaskSeqs
  /\ \A q \in TaskSeqs, t \in Task : Append(q, t) \in TaskSeqs
  /\ \A a \in Answers : <<a>> \in AnswerSeqs
  /\ \A q \in AnswerSeqs, a \in Answers : Append(q, a) \in AnswerSeqs
  /\ \A q \in OutcomeSeqs : q # <<>> =>
       Head(q) \in Answers \cup {"timeout"} /\ Tail(q) \in OutcomeSeqs
  /\ \A q \in ToldSeqs, o \in Answers \cup {"timeout", "stopped"} : Append(q, o) \in ToldSeqs
<1>1. <<>> \in TaskSeqs /\ <<>> \in AnswerSeqs /\ <<>> \in OutcomeSeqs /\ <<>> \in ToldSeqs
  BY DEF TaskSeqs, AnswerSeqs, OutcomeSeqs, ToldSeqs
<1>2. /\ \A q \in TaskSeqs : q # <<>> => Head(q) \in Task /\ Tail(q) \in TaskSeqs
      /\ \A q \in TaskSeqs, t \in Task : Append(q, t) \in TaskSeqs
  BY DEF TaskSeqs
<1>3. /\ \A a \in Answers : <<a>> \in AnswerSeqs
      /\ \A q \in AnswerSeqs, a \in Answers : Append(q, a) \in AnswerSeqs
  BY DEF AnswerSeqs
<1>4. \A q \in OutcomeSeqs : q # <<>> =>
        Head(q) \in Answers \cup {"timeout"} /\ Tail(q) \in OutcomeSeqs
  BY DEF OutcomeSeqs
<1>5. \A q \in ToldSeqs, o \in Answers \cup {"timeout", "stopped"} : Append(q, o) \in ToldSeqs
  BY DEF ToldSeqs
<1> QED
  BY <1>1, <1>2, <1>3, <1>4, <1>5

\* The types, sequences unexpanded.
Typed ==
  /\ plan \in Plans
  /\ state \in {"Running", "Stopping", "Stopped"}
  /\ halt \in [at : Loops \cup {"none"}, closed : SUBSET Loops]
  /\ phase \in [Calls -> {"new", "begun", "armed", "waiting", "accepted", "refused", "returned"}]
  /\ timer \in [Calls -> {"off", "armed", "firing"}]
  /\ completed \in [Calls -> BOOLEAN]
  /\ wire \in [Calls -> {"none", "request", "served", "response", "gone"}]
  /\ responded \in [Calls -> {"none", "no", "yes"}]
  /\ responds \in [Calls -> 0..MaxResponds]
  /\ first \in [Calls -> AnswerSeqs]
  /\ response \in [Calls -> OutcomeSeqs]
  /\ queue \in [AllLoops -> TaskSeqs]
  /\ running \in [AllLoops -> Task \cup {NoTask}]
  /\ told \in [Calls -> ToldSeqs]

\* That is the type invariant.
LEMMA TypedIsTypeOK == TypeOK <=> Typed
  BY Zenon DEF TypeOK, Typed, AnswerSeqs, OutcomeSeqs, TaskSeqs, ToldSeqs

\* Completing a call keeps the types.
LEMMA CompleteType ==
  ASSUME Typed, StopsLocal, NEW c \in DOMAIN plan, NEW o \in Answers \cup {"timeout"},
         Complete(c, o)
  PROVE  /\ completed' \in [Calls -> BOOLEAN] /\ timer' \in [Calls -> {"off", "armed", "firing"}]
         /\ queue' \in [AllLoops -> TaskSeqs] /\ response' \in [Calls -> OutcomeSeqs]
         /\ \A l \in RemoteLoops : \A i \in 1..Len(queue'[l]) : queue'[l][i] # StopTask
<1>0. TypeOK /\ c \in Calls
  BY TypedIsTypeOK, PlanType
<1>1. CASE Wins(c)
  <2>1. /\ completed' = [completed EXCEPT ![c] = TRUE] /\ Notify(c, o)
        /\ timer' = [timer EXCEPT ![c] = IF @ = "armed" THEN "off" ELSE @]
    BY <1>1, Zenon DEF Complete
  <2>2. /\ queue' \in [AllLoops -> TaskSeqs] /\ response' \in [Calls -> OutcomeSeqs]
        /\ \A l \in RemoteLoops : \A i \in 1..Len(queue'[l]) : queue'[l][i] # StopTask
    BY <1>0, <2>1, NotifyType, Zenon DEF TaskSeqs, OutcomeSeqs
  <2>3. completed' \in [Calls -> BOOLEAN] /\ timer' \in [Calls -> {"off", "armed", "firing"}]
    BY <1>0, <2>1, Zenon DEF Typed
  <2> QED
    BY <2>2, <2>3
<1>2. CASE ~ Wins(c)
  BY <1>2 DEF Complete, Typed, StopsLocal
<1> QED
  BY <1>1, <1>2, Zenon

\* So does an answer, local or by way of handleRPCRequest.
LEMMA RespondType ==
  ASSUME Typed, StopsLocal, NEW c \in DOMAIN plan, NEW a \in Answers, Respond(c, a)
  PROVE  /\ completed' \in [Calls -> BOOLEAN] /\ timer' \in [Calls -> {"off", "armed", "firing"}]
         /\ wire' \in [Calls -> {"none", "request", "served", "response", "gone"}]
         /\ queue' \in [AllLoops -> TaskSeqs] /\ response' \in [Calls -> OutcomeSeqs]
         /\ \A l \in RemoteLoops : \A i \in 1..Len(queue'[l]) : queue'[l][i] # StopTask
<1>0. c \in Calls
  BY TypedIsTypeOK, PlanType
<1>1. CASE Local(c)
  BY <1>1, CompleteType, Zenon DEF Respond, Typed
<1>2. CASE ~ Local(c)
  BY <1>0, <1>2, Zenon DEF Respond, Typed, StopsLocal
<1> QED
  BY <1>1, <1>2, Zenon

\* Every step keeps the types, and only the Node's own Loops get a StopTask.
LEMMA TypeStep ==
  ASSUME Typed, StopsLocal, CallInv, [Next]_vars
  PROVE  Typed' /\ StopsLocal'
<1>0. TypeOK
  BY TypedIsTypeOK
<1>1. CASE UNCHANGED vars
  BY <1>1 DEF vars, callVars, handlerVars, loopVars, Typed, StopsLocal
<1>2. CASE StopNode
  BY <1>2 DEF StopNode, callVars, handlerVars, loopVars, Typed, StopsLocal
<1>3. CASE Finish
  BY <1>3 DEF Finish, callVars, handlerVars, loopVars, Typed, StopsLocal
<1>4. ASSUME NEW l \in Loops, StopService(l) PROVE Typed' /\ StopsLocal'
  <2>1. l \in AllLoops /\ l \notin RemoteLoops /\ StopTask \in Task
    BY CallAssumption, TaskFacts, Zenon DEF AllLoops
  <2>2. /\ queue' \in [AllLoops -> TaskSeqs]
        /\ \A k \in RemoteLoops : queue'[k] = queue[k]
    <3>1. queue' = Posted(l, StopTask) /\ queue \in [AllLoops -> Seq(Task)]
      BY <1>4, Zenon DEF StopService, Typed, TaskSeqs
    <3>2. queue' \in [AllLoops -> Seq(Task)] /\ \A k \in AllLoops \ {l} : queue'[k] = queue[k]
      BY <2>1, <3>1, PostedType
    <3> QED
      BY <2>1, <3>2 DEF TaskSeqs, AllLoops
  <2>3. halt' \in [at : Loops \cup {"none"}, closed : SUBSET Loops]
    BY <1>4, Zenon DEF StopService, Typed
  <2>4. StopsLocal'
    BY <1>4, <2>2 DEF StopService, StopsLocal
  <2>5. Typed'
    BY <1>4, <2>2, <2>3, Zenon DEF StopService, callVars, handlerVars, Typed
  <2> QED
    BY <2>4, <2>5
<1>5. ASSUME NEW c \in Calls, Begin(c) \/ Arm(c) \/ Send(c) \/ TimerFires(c) \/ Lose(c)
      PROVE  Typed' /\ StopsLocal'
  <2>1. CASE Begin(c)
    BY <2>1 DEF Begin, Goto, handlerVars, loopVars, Typed, StopsLocal
  <2>2. CASE Arm(c)
    <3>1. /\ phase' \in [Calls -> {"new", "begun", "armed", "waiting", "accepted", "refused", "returned"}]
          /\ timer' \in [Calls -> {"off", "armed", "firing"}]
      BY <2>2 DEF Arm, Goto, Typed
    <3>2. UNCHANGED <<plan, state, halt, completed, wire, response, responded, responds, first,
                      queue, running, told>>
      BY <2>2, Zenon DEF Arm, handlerVars, loopVars
    <3> QED
      BY <3>1, <3>2, Zenon DEF Typed, StopsLocal
  <2>3. CASE Send(c)
    <3>1. phase' \in [Calls -> {"new", "begun", "armed", "waiting", "accepted", "refused", "returned"}]
      BY <2>3 DEF Send, Accepted, Goto, Typed
    <3>2. /\ timer' \in [Calls -> {"off", "armed", "firing"}]
          /\ wire' \in [Calls -> {"none", "request", "served", "response", "gone"}]
      BY <2>3 DEF Send, Typed
    <3>3. UNCHANGED <<plan, state, halt, completed, response, responded, responds, first, queue,
                      running, told>>
      BY <2>3, Zenon DEF Send, handlerVars, loopVars
    <3> QED
      BY <3>1, <3>2, <3>3, Zenon DEF Typed, StopsLocal
  <2>4. CASE TimerFires(c)
    BY <2>4 DEF TimerFires, handlerVars, loopVars, Typed, StopsLocal
  <2>5. CASE Lose(c)
    BY <2>5 DEF Lose, handlerVars, loopVars, Typed, StopsLocal
  <2> QED
    BY <1>5, <2>1, <2>2, <2>3, <2>4, <2>5
<1>6. ASSUME NEW c \in Calls, NEW l \in AllLoops, queue' = Posted(l, Handle(c))
      PROVE  /\ queue' \in [AllLoops -> TaskSeqs]
             /\ \A k \in RemoteLoops : \A i \in 1..Len(queue'[k]) : queue'[k][i] # StopTask
  <2>1. Handle(c) \in Task /\ Handle(c) # StopTask
    BY TaskFacts, Zenon
  <2>2. /\ queue' \in [AllLoops -> Seq(Task)]
        /\ \A k \in AllLoops \ {l} : queue'[k] = queue[k]
    BY <1>6, <2>1, PostedType DEF Typed, TaskSeqs
  <2>3. \A i \in 1..Len(queue[l]) : l \in RemoteLoops => queue[l][i] # StopTask
    BY DEF StopsLocal
  <2>4. queue'[l] = queue[l] \/ queue'[l] = Append(queue[l], Handle(c))
    BY <1>6 DEF Posted, Typed
  <2>5. \A i \in 1..Len(queue'[l]) : l \in RemoteLoops => queue'[l][i] # StopTask
    <3>1. queue[l] \in Seq(Task)
      BY Zenon DEF Typed, TaskSeqs
    <3>2. CASE queue'[l] = queue[l]
      BY <2>3, <3>2, Zenon
    <3>3. CASE queue'[l] = Append(queue[l], Handle(c))
      <4>1. \A i \in 1..Len(queue'[l]) :
              \/ i \in 1..Len(queue[l]) /\ queue'[l][i] = queue[l][i]
              \/ queue'[l][i] = Handle(c)
        BY <3>1, <3>3
      <4> QED
        BY <2>1, <2>3, <4>1, Zenon
    <3> QED
      BY <2>4, <3>2, <3>3, Zenon
  <2> QED
    BY <2>2, <2>5, Zenon DEF StopsLocal, AllLoops, TaskSeqs
<1>7. ASSUME NEW c \in Calls, Dispatch(c) PROVE Typed' /\ StopsLocal'
  <2>1. c \in DOMAIN plan /\ Target(c) \in AllLoops
    BY <1>0, <1>7, PlanType, Zenon DEF Dispatch, CallInv, Progress
  <2>2. /\ queue' \in [AllLoops -> TaskSeqs]
        /\ \A k \in RemoteLoops : \A i \in 1..Len(queue'[k]) : queue'[k][i] # StopTask
    BY <1>6, <1>7, <2>1, Zenon DEF Dispatch
  <2> QED
    BY <1>7, <2>2, Zenon DEF Dispatch, Accepted, Goto, handlerVars, Typed, StopsLocal
<1>8. ASSUME NEW c \in Calls, Deliver(c) PROVE Typed' /\ StopsLocal'
  <2>1. c \in DOMAIN plan /\ Target(c) \in AllLoops
    BY <1>0, <1>8, PlanType, Underway, Zenon DEF Deliver
  <2>2. /\ queue' \in [AllLoops -> TaskSeqs]
        /\ \A k \in RemoteLoops : \A i \in 1..Len(queue'[k]) : queue'[k][i] # StopTask
    BY <1>6, <1>8, <2>1 DEF Deliver, Typed, StopsLocal
  <2>3. first' \in [Calls -> AnswerSeqs]
    <3>1. first' = first \/ \E a \in Answers : first' = [first EXCEPT ![c] = <<a>>]
      BY <1>8, Zenon DEF Deliver
    <3>2. first \in [Calls -> AnswerSeqs] /\ \A a \in Answers : <<a>> \in AnswerSeqs
      BY Sequences, Zenon DEF Typed
    <3> QED
      BY <3>1, <3>2
  <2> QED
    BY <1>8, <2>2, <2>3 DEF Deliver, Typed, StopsLocal
<1>9. ASSUME NEW c \in Calls, Receive(c) PROVE Typed' /\ StopsLocal'
  <2>1. c \in DOMAIN plan /\ first[c][1] \in Answers \cup {"timeout"}
    <3>1. c \in DOMAIN plan
      BY <1>9, Underway, Zenon DEF Receive
    <3>2. Answered(c) /\ wire[c] = "response"
      BY <1>9 DEF CallInv, Receive
    <3> QED
      BY <3>1, <3>2 DEF Answered
  <2>2. /\ completed' \in [Calls -> BOOLEAN] /\ timer' \in [Calls -> {"off", "armed", "firing"}]
        /\ queue' \in [AllLoops -> TaskSeqs] /\ response' \in [Calls -> OutcomeSeqs]
        /\ \A l \in RemoteLoops : \A i \in 1..Len(queue'[l]) : queue'[l][i] # StopTask
    BY <1>9, <2>1, CompleteType, Zenon DEF Receive
  <2> QED
    BY <1>9, <2>2, Zenon DEF Receive, handlerVars, Typed, StopsLocal
<1>10. ASSUME NEW c \in Calls, Expire(c) PROVE Typed' /\ StopsLocal'
  <2>1. c \in DOMAIN plan
    BY <1>10, Underway, Zenon DEF Expire
  <2>2. CASE Wins(c)
    <3>1. /\ queue' \in [AllLoops -> TaskSeqs] /\ response' \in [Calls -> OutcomeSeqs]
          /\ \A l \in RemoteLoops : \A i \in 1..Len(queue'[l]) : queue'[l][i] # StopTask
      BY <1>0, <1>10, <2>1, <2>2, NotifyType, Zenon DEF Expire, TaskSeqs, OutcomeSeqs
    <3> QED
      BY <1>10, <2>2, <3>1, Zenon DEF Expire, handlerVars, Typed, StopsLocal
  <2>3. CASE ~ Wins(c)
    BY <1>10, <2>3 DEF Expire, handlerVars, Typed, StopsLocal
  <2> QED
    BY <2>2, <2>3
<1>11. ASSUME NEW c \in Calls, RunAppCallback(c) \/ Return(c) \/ ReturnStopped(c)
       PROVE  Typed' /\ StopsLocal'
  <2>1. response[c] \in OutcomeSeqs /\ told[c] \in ToldSeqs
    BY Zenon DEF Typed
  <2>2. CASE RunAppCallback(c)
    <3>1. Append(told[c], Head(response[c])) \in ToldSeqs /\ Tail(response[c]) \in OutcomeSeqs
      BY <2>1, <2>2, Sequences, Zenon DEF RunAppCallback
    <3> QED
      BY <2>2, <3>1, Zenon DEF RunAppCallback, handlerVars, loopVars, Typed, StopsLocal
  <2>3. CASE Return(c)
    <3>1. Append(told[c], Head(response[c])) \in ToldSeqs
      BY <2>1, <2>3, Sequences, Zenon DEF Return
    <3> QED
      BY <2>3, <3>1, Zenon DEF Return, Goto, handlerVars, loopVars, Typed, StopsLocal
  <2>4. CASE ReturnStopped(c)
    <3>1. Append(told[c], "stopped") \in ToldSeqs
      BY <2>1, Sequences
    <3> QED
      BY <2>4, <3>1, Zenon DEF ReturnStopped, Goto, handlerVars, loopVars, Typed, StopsLocal
  <2> QED
    BY <1>11, <2>2, <2>3, <2>4
<1>12. ASSUME NEW c \in DOMAIN plan, NEW a \in Answers, RespondOnce(c, a)
       PROVE  /\ completed' \in [Calls -> BOOLEAN] /\ timer' \in [Calls -> {"off", "armed", "firing"}]
              /\ wire' \in [Calls -> {"none", "request", "served", "response", "gone"}]
              /\ queue' \in [AllLoops -> TaskSeqs] /\ response' \in [Calls -> OutcomeSeqs]
              /\ responded' \in [Calls -> {"none", "no", "yes"}] /\ first' \in [Calls -> AnswerSeqs]
              /\ \A l \in RemoteLoops : \A i \in 1..Len(queue'[l]) : queue'[l][i] # StopTask
  <2>0. c \in Calls
    BY <1>0, PlanType
  <2>1. CASE AnswersFirst(c)
    <3>1. Append(first[c], a) \in AnswerSeqs
      BY <2>0, Sequences, Zenon DEF Typed
    <3>2. /\ responded' = [responded EXCEPT ![c] = "yes"]
          /\ first' = [first EXCEPT ![c] = Append(@, a)] /\ Respond(c, a)
      BY <1>12, <2>1, Zenon DEF RespondOnce
    <3>3. responded' \in [Calls -> {"none", "no", "yes"}] /\ first' \in [Calls -> AnswerSeqs]
      BY <3>1, <3>2, Zenon DEF Typed
    <3> QED
      BY <3>2, <3>3, RespondType, Zenon
  <2>2. CASE ~ AnswersFirst(c)
    BY <1>12, <2>2 DEF RespondOnce, Typed, StopsLocal
  <2> QED
    BY <2>1, <2>2, Zenon
<1>13. ASSUME NEW c \in Calls, CallRespond(c) PROVE Typed' /\ StopsLocal'
  <2>1. c \in DOMAIN plan
    BY <1>13, Underway, Zenon DEF CallRespond
  <2>2. PICK a \in Answers : RespondOnce(c, a)
    BY <1>13 DEF CallRespond
  <2>3. responds' \in [Calls -> 0..MaxResponds]
    BY <1>13, CallAssumption DEF CallRespond, Typed
  <2> QED
    BY <1>12, <1>13, <2>1, <2>2, <2>3, Zenon DEF CallRespond, Typed, StopsLocal
<1>14. ASSUME NEW l \in AllLoops, Take(l) PROVE Typed' /\ StopsLocal'
  <2>1. /\ Head(queue[l]) \in Task /\ Tail(queue[l]) \in TaskSeqs
        /\ Head(queue[l]).kind = "handle" => Head(queue[l]).call \in Calls
    BY <1>14, Sequences, TaskFacts, Zenon DEF Take, Typed
  <2>2. l \in RemoteLoops =>
          Head(queue[l]) # StopTask /\ \A i \in 1..Len(Tail(queue[l])) : Tail(queue[l])[i] # StopTask
    <3>1. queue[l] \in Seq(Task) /\ queue[l] # <<>>
      BY <1>14, Zenon DEF Typed, TaskSeqs, Take
    <3>2. l \in RemoteLoops => \A i \in 1..Len(queue[l]) : queue[l][i] # StopTask
      BY DEF StopsLocal
    <3> QED
      BY <3>1, <3>2
  <2>3. running' = [running EXCEPT ![l] = Head(queue[l])] /\ queue' = [queue EXCEPT ![l] = Tail(@)]
    BY <1>14, Zenon DEF Take
  <2>4. Typed'
    BY <1>14, <2>1, Zenon DEF Take, callVars, Typed
  <2>5. \A k \in AllLoops \ {l} : queue'[k] = queue[k] /\ running'[k] = running[k]
    BY <2>3 DEF Typed
  <2>6. queue'[l] = Tail(queue[l]) /\ running'[l] = Head(queue[l])
    BY <2>3 DEF Typed
  <2>7. \A k \in RemoteLoops : /\ \A i \in 1..Len(queue'[k]) : queue'[k][i] # StopTask
                               /\ running'[k] # StopTask
    BY <2>2, <2>5, <2>6, Zenon DEF StopsLocal, AllLoops
  <2> QED
    BY <2>4, <2>7, Zenon DEF StopsLocal
<1>15. ASSUME NEW l \in AllLoops, Free(l)
       PROVE  /\ running' \in [AllLoops -> Task \cup {NoTask}]
              /\ \A k \in RemoteLoops : running'[k] # StopTask
  <2>1. running' = [running EXCEPT ![l] = NoTask] /\ NoTask # StopTask
    BY <1>15 DEF Free, NoTask, StopTask
  <2> QED
    BY <2>1, Zenon DEF Typed, StopsLocal, AllLoops
<1>16. ASSUME NEW l \in AllLoops, NEW c \in Calls, ReturnSync(l, c) PROVE Typed' /\ StopsLocal'
  <2>1. Run("handle", c)
    BY <1>16 DEF ReturnSync, Handling, Handle, Run
  <2>2. c \in DOMAIN plan
    BY <2>1, Underway
  <2>3. PICK a \in Answers : first' = [first EXCEPT ![c] = Append(@, a)] /\ Respond(c, a)
    BY <1>16, Zenon DEF ReturnSync
  <2>4. first' \in [Calls -> AnswerSeqs]
    BY <2>3, Sequences, Zenon DEF Typed
  <2>5. /\ running' \in [AllLoops -> Task \cup {NoTask}]
        /\ \A k \in RemoteLoops : running'[k] # StopTask
    BY <1>15, <1>16, Zenon DEF ReturnSync
  <2> QED
    BY <1>16, <2>2, <2>3, <2>4, <2>5, RespondType, Zenon DEF ReturnSync, Typed, StopsLocal
<1>17. ASSUME NEW l \in AllLoops, NEW c \in Calls, ReturnAsync(l, c) PROVE Typed' /\ StopsLocal'
  <2>1. Run("handle", c)
    BY <1>17 DEF ReturnAsync, Handling, Handle, Run
  <2>2. c \in DOMAIN plan
    BY <2>1, Underway
  <2>3. /\ running' \in [AllLoops -> Task \cup {NoTask}]
        /\ \A k \in RemoteLoops : running'[k] # StopTask
    BY <1>15, <1>17, Zenon DEF ReturnAsync
  <2>4. CASE \E a \in Answers : RespondOnce(c, a)
    BY <1>12, <1>17, <2>2, <2>3, <2>4, Zenon DEF ReturnAsync, Typed, StopsLocal
  <2>5. CASE UNCHANGED <<responded, first, wire, completed, timer, response, queue>>
    BY <1>17, <2>3, <2>5 DEF ReturnAsync, Typed, StopsLocal
  <2> QED
    BY <1>17, <2>4, <2>5, Zenon DEF ReturnAsync
<1>18. ASSUME NEW l \in AllLoops, RunCallback(l) PROVE Typed' /\ StopsLocal'
  <2>1. running[l] \in Task /\ running[l].kind = "callback"
    BY <1>18, TaskFacts DEF RunCallback, Typed
  <2>2. running[l].call \in Calls /\ running[l].outcome \in Answers \cup {"timeout", "stopped"}
    BY <2>1, TaskFacts, Zenon
  <2>3. told' \in [Calls -> ToldSeqs]
    BY <1>18, <2>2, Sequences, Zenon DEF RunCallback, Typed
  <2>4. /\ running' \in [AllLoops -> Task \cup {NoTask}]
        /\ \A k \in RemoteLoops : running'[k] # StopTask
    BY <1>15, <1>18, Zenon DEF RunCallback
  <2> QED
    BY <1>18, <2>3, <2>4, Zenon DEF RunCallback, callVars, handlerVars, Typed, StopsLocal
<1>19. ASSUME NEW l \in AllLoops, CloseLoop(l) PROVE Typed' /\ StopsLocal'
  <2>1. l \in Loops /\ l \notin RemoteLoops
    BY <1>19, CallAssumption, Zenon DEF CloseLoop, StopsLocal, AllLoops
  <2>2. /\ running' \in [AllLoops -> Task \cup {NoTask}]
        /\ \A k \in RemoteLoops : running'[k] # StopTask
    BY <1>15, <1>19, Zenon DEF CloseLoop
  <2>3. queue' \in [AllLoops -> TaskSeqs] /\ \A k \in RemoteLoops : queue'[k] = queue[k]
    BY <1>19, <2>1, Sequences, Zenon DEF CloseLoop, Typed, AllLoops
  <2>4. halt' \in [at : Loops \cup {"none"}, closed : SUBSET Loops]
    BY <1>19, <2>1 DEF CloseLoop, Typed
  <2>5. Typed'
    BY <1>19, <2>2, <2>3, <2>4, Zenon DEF CloseLoop, callVars, handlerVars, Typed
  <2>6. StopsLocal'
    BY <2>2, <2>3, Zenon DEF StopsLocal
  <2> QED
    BY <2>5, <2>6
<1> QED
  BY <1>1, <1>2, <1>3, <1>4, <1>5, <1>7, <1>8, <1>9, <1>10, <1>11, <1>13, <1>14, <1>16,
     <1>17, <1>18, <1>19, Zenon DEF Next, StopStep, CallStep, TimerStep, LoopStep

-----------------------------------------------------------------------------
(* Tasks *)

\* The effects a step has on the tasks: one is posted, or none; a Loop becomes
\* free, or none; a Loop takes its next task; a closed Loop loses its tasks.
Posts(t) == queue' = queue \/ \E l \in AllLoops : queue' = [queue EXCEPT ![l] = Append(@, t)]
Frees == running' = running \/ \E l \in AllLoops : Free(l)
Closes == \E l \in AllLoops : queue' = [queue EXCEPT ![l] = <<>>] /\ Free(l)

\* An answer that counts is never replaced.
FirstKept == \A d \in Calls : first'[d] = first[d] \/ first[d] = <<>>

\* This call's tasks do not become more.
Fewer(c) ==
  /\ Queued("handle", c)' => Queued("handle", c)
  /\ Queued("callback", c)' => Queued("callback", c)
  /\ Run("handle", c)' => Run("handle", c)
  /\ Run("callback", c)' => Run("callback", c)

\* An outcome that may be told may be told ever after.
LEMMA ValidKept ==
  ASSUME FirstKept, NEW c \in Calls, NEW o, Valid(c, o)
  PROVE  Valid(c, o)'
<1>1. <<o>> # <<>>
  OBVIOUS
<1> QED
  BY <1>1, Zenon DEF FirstKept, Valid

\* A Loop that becomes free runs nothing.
LEMMA FreesRun ==
  ASSUME Typed, Frees
  PROVE  \A k \in AllLoops : running'[k] = running[k] \/ running'[k].kind = "none"
<1>1. CASE running' = running
  BY <1>1
<1>2. ASSUME NEW l \in AllLoops, Free(l)
      PROVE  \A k \in AllLoops : running'[k] = running[k] \/ running'[k].kind = "none"
  <2>1. running' = [running EXCEPT ![l] = NoTask] /\ NoTask.kind = "none"
    BY <1>2, TaskFacts, Zenon DEF Free
  <2> QED
    BY <2>1 DEF Typed
<1> QED
  BY <1>1, <1>2 DEF Frees

\* Where the tasks are after one was posted.
LEMMA PostsAt ==
  ASSUME Typed, NEW t \in Task, Posts(t)
  PROVE  \/ \A k \in AllLoops : queue'[k] = queue[k]
         \/ \E l \in AllLoops : \A k \in AllLoops : \A i \in 1..Len(queue'[k]) :
              \/ i \in 1..Len(queue[k]) /\ queue'[k][i] = queue[k][i]
              \/ k = l /\ i = Len(queue[k]) + 1 /\ queue'[k][i] = t
<1>1. CASE queue' = queue
  BY <1>1
<1>2. ASSUME NEW l \in AllLoops, queue' = [queue EXCEPT ![l] = Append(@, t)]
      PROVE  \A k \in AllLoops : \A i \in 1..Len(queue'[k]) :
              \/ i \in 1..Len(queue[k]) /\ queue'[k][i] = queue[k][i]
              \/ k = l /\ i = Len(queue[k]) + 1 /\ queue'[k][i] = t
  <2>1. queue'[l] = Append(queue[l], t) /\ \A k \in AllLoops \ {l} : queue'[k] = queue[k]
    BY <1>2 DEF Typed
  <2>2. queue[l] \in Seq(Task)
    BY Zenon DEF Typed, TaskSeqs
  <2>3. \A i \in 1..Len(queue'[l]) :
          \/ i \in 1..Len(queue[l]) /\ queue'[l][i] = queue[l][i]
          \/ i = Len(queue[l]) + 1 /\ queue'[l][i] = t
    BY <2>1, <2>2
  <2> QED
    BY <2>1, <2>3, Zenon
<1> QED
  BY <1>1, <1>2, Zenon DEF Posts

\* No call gets more tasks, but for the one posted.
LEMMA PostsFew ==
  ASSUME Typed, NEW t \in Task, Posts(t), Frees, NEW c \in Calls
  PROVE  /\ ~ (t.kind \in {"handle", "callback"} /\ t.call = c) => Fewer(c)
         /\ \A kind \in {"handle", "callback"} :
              /\ Run(kind, c)' => Run(kind, c)
              /\ t.kind # kind => (Queued(kind, c)' => Queued(kind, c))
<1>1. \A kind \in {"handle", "callback"} : Run(kind, c)' => Run(kind, c)
  BY FreesRun DEF Run
<1>2. ASSUME NEW kind \in {"handle", "callback"}, ~ (t.kind = kind /\ t.call = c), Queued(kind, c)'
      PROVE  Queued(kind, c)
  <2>0. PICK k \in AllLoops : \E i \in 1..Len(queue'[k]) :
          queue'[k][i].kind = kind /\ queue'[k][i].call = c
    BY <1>2, Zenon DEF Queued
  <2>1. PICK i \in 1..Len(queue'[k]) : queue'[k][i].kind = kind /\ queue'[k][i].call = c
    BY <2>0, Zenon
  <2>2. i \in 1..Len(queue[k]) /\ queue'[k][i] = queue[k][i]
    BY <1>2, <2>1, PostsAt
  <2> QED
    BY <2>1, <2>2, Zenon DEF Queued
<1> QED
  BY <1>1, <1>2 DEF Fewer

\* A task posted for the first time leaves the tasks unique.
LEMMA PostsUnique ==
  ASSUME Typed, Unique, NEW t \in Task, Posts(t), Frees,
         t.kind \in {"handle", "callback"} => ~ Queued(t.kind, t.call) /\ ~ Run(t.kind, t.call)
  PROVE  Unique'
<1>0. \A k \in AllLoops : queue[k] \in Seq(Task)
  BY Zenon DEF Typed, TaskSeqs
<1>1. /\ \A k \in AllLoops : \A i \in 1..Len(queue[k]) :
           ~ Same(queue[k][i], t) /\ ~ Same(t, queue[k][i])
      /\ \A k \in AllLoops : ~ Same(t, running[k])
  BY Zenon DEF Same, Queued, Run
<1>2. \A k \in AllLoops : running'[k] = running[k] \/ running'[k].kind = "none"
  BY FreesRun
<1>3. CASE \A k \in AllLoops : queue'[k] = queue[k]
  <2>1. \A j, k \in AllLoops : \A i \in 1..Len(queue'[j]), h \in 1..Len(queue'[k]) :
          Same(queue'[j][i], queue'[k][h]) => j = k /\ i = h
    BY <1>3 DEF Unique
  <2>2. \A j, k \in AllLoops : \A i \in 1..Len(queue'[j]) : ~ Same(queue'[j][i], running'[k])
    BY <1>2, <1>3 DEF Unique, Same
  <2>3. \A j, k \in AllLoops : Same(running'[j], running'[k]) => j = k
    BY <1>2 DEF Unique, Same
  <2> QED
    BY <2>1, <2>2, <2>3, Zenon DEF Unique, Same
<1>4. ASSUME NEW l \in AllLoops,
             \A k \in AllLoops : \A i \in 1..Len(queue'[k]) :
               \/ i \in 1..Len(queue[k]) /\ queue'[k][i] = queue[k][i]
               \/ k = l /\ i = Len(queue[k]) + 1 /\ queue'[k][i] = t
      PROVE  Unique'
  <2>1. \A j, k \in AllLoops : \A i \in 1..Len(queue'[j]), h \in 1..Len(queue'[k]) :
          Same(queue'[j][i], queue'[k][h]) => j = k /\ i = h
    BY <1>0, <1>1, <1>4 DEF Unique
  <2>2. ASSUME NEW j \in AllLoops, NEW k \in AllLoops, NEW i \in 1..Len(queue'[j]),
               Same(queue'[j][i], running'[k])
        PROVE  FALSE
    <3>1. running'[k] = running[k]
      BY <1>2, <2>2 DEF Same
    <3>2. queue'[j][i] = t \/ (i \in 1..Len(queue[j]) /\ queue'[j][i] = queue[j][i])
      BY <1>4, Zenon
    <3>3. ~ Same(t, running[k])
      BY <1>1
    <3>4. i \in 1..Len(queue[j]) => ~ Same(queue[j][i], running[k])
      BY DEF Unique
    <3> QED
      BY <2>2, <3>1, <3>2, <3>3, <3>4
  <2>3. \A j, k \in AllLoops : Same(running'[j], running'[k]) => j = k
    BY <1>2 DEF Unique, Same
  <2> QED
    BY <2>1, <2>2, <2>3, Zenon DEF Unique, Same
<1> QED
  BY <1>3, <1>4, PostsAt

\* A callback task posted with an outcome that may be told leaves the others as they are.
LEMMA PostsCarried ==
  ASSUME Typed, Carried, FirstKept, NEW t \in Task, Posts(t), Frees,
         t.kind = "callback" => Valid(t.call, t.outcome)'
  PROVE  Carried'
<1>0. \A k \in AllLoops : running'[k] = running[k] \/ running'[k].kind = "none"
  BY FreesRun
<1>1. ASSUME NEW u \in Task, u.kind = "callback", Valid(u.call, u.outcome)
      PROVE  u.outcome = "timeout" \/ first'[u.call] = <<u.outcome>>
  <2>1. u.call \in Calls
    BY <1>1, TaskFacts, Zenon
  <2> QED
    BY <1>1, <2>1, ValidKept, Zenon DEF Valid
<1>2. /\ \A k \in AllLoops : \A i \in 1..Len(queue[k]) : queue[k][i] \in Task
      /\ \A k \in AllLoops : running[k].kind = "callback" => running[k] \in Task
  BY TaskFacts DEF Typed, TaskSeqs
<1>3. ASSUME NEW k \in AllLoops, running'[k].kind = "callback"
      PROVE  running'[k].outcome = "timeout" \/ first'[running'[k].call] = <<running'[k].outcome>>
  BY <1>0, <1>1, <1>2, <1>3, Zenon DEF Carried
<1>4. t.kind = "callback" => t.outcome = "timeout" \/ first'[t.call] = <<t.outcome>>
  BY DEF Valid
<1>5. ASSUME NEW k \in AllLoops, NEW i \in 1..Len(queue'[k]), queue'[k][i].kind = "callback"
      PROVE  \/ queue'[k][i].outcome = "timeout"
             \/ first'[queue'[k][i].call] = <<queue'[k][i].outcome>>
  <2>1. \/ i \in 1..Len(queue[k]) /\ queue'[k][i] = queue[k][i]
        \/ queue'[k][i] = t
    BY PostsAt, Zenon
  <2>2. CASE queue'[k][i] = t
    BY <1>4, <1>5, <2>2
  <2>3. CASE i \in 1..Len(queue[k]) /\ queue'[k][i] = queue[k][i]
    BY <1>1, <1>2, <1>5, <2>3, Zenon DEF Carried
  <2> QED
    BY <2>1, <2>2, <2>3, Zenon
<1> QED
  BY <1>3, <1>5, Zenon DEF Carried, Valid

\* A Loop's next task is no longer queued, and running.
LEMMA TakesTask ==
  ASSUME Typed, Unique, Carried, NEW l \in AllLoops, Take(l)
  PROVE  /\ Unique' /\ Carried'
         /\ \A c \in Calls, kind \in {"handle", "callback"} :
              /\ Queued(kind, c)' => Queued(kind, c)
              /\ Run(kind, c)' => \/ Run(kind, c)
                                  \/ Head(queue[l]).kind = kind /\ Head(queue[l]).call = c
              /\ Head(queue[l]).kind = kind /\ Head(queue[l]).call = c =>
                   Queued(kind, c) /\ ~ Queued(kind, c)'
<1> DEFINE t == Head(queue[l])
<1>0. queue[l] \in Seq(Task) /\ queue[l] # <<>>
  BY Zenon DEF Take, Typed, TaskSeqs
<1>1. /\ queue'[l] = Tail(queue[l]) /\ running'[l] = t
      /\ \A k \in AllLoops \ {l} : queue'[k] = queue[k] /\ running'[k] = running[k]
  BY DEF Take, Typed
<1>2. 1 \in 1..Len(queue[l]) /\ queue[l][1] = t
  BY <1>0
<1>3. /\ Len(queue'[l]) \in Nat
      /\ \A i \in 1..Len(queue'[l]) : i + 1 \in 2..Len(queue[l]) /\ queue'[l][i] = queue[l][i + 1]
  BY <1>0, <1>1
<1>4. ASSUME NEW k \in AllLoops, NEW i \in 1..Len(queue'[k])
      PROVE  \E h \in 1..Len(queue[k]) :
               /\ queue'[k][i] = queue[k][h] /\ (k = l => h = i + 1) /\ (k # l => h = i)
  <2>1. CASE k = l
    BY <1>0, <1>3, <2>1
  <2>2. CASE k # l
    BY <1>1, <2>2
  <2> QED
    BY <2>1, <2>2, Zenon
<1>5. \A k \in AllLoops : \A i \in 1..Len(queue'[k]) :
        ~ Same(queue'[k][i], t) /\ ~ Same(t, queue'[k][i])
  <2>1. SUFFICES ASSUME NEW k \in AllLoops, NEW i \in 1..Len(queue'[k]),
                        Same(queue'[k][i], t) \/ Same(t, queue'[k][i])
                 PROVE  FALSE
    BY Zenon
  <2>2. PICK h \in 1..Len(queue[k]) :
          /\ queue'[k][i] = queue[k][h] /\ (k = l => h = i + 1) /\ (k # l => h = i)
    BY <1>4, Zenon
  <2>3. k = l /\ h = 1
    BY <1>2, <2>1, <2>2 DEF Unique, Same
  <2> QED
    BY <2>2, <2>3
<1>6. Unique'
  <2>1. \A j, k \in AllLoops : \A i \in 1..Len(queue'[j]), h \in 1..Len(queue'[k]) :
          Same(queue'[j][i], queue'[k][h]) => j = k /\ i = h
    <3>1. SUFFICES ASSUME NEW j \in AllLoops, NEW k \in AllLoops,
                          NEW i \in 1..Len(queue'[j]), NEW h \in 1..Len(queue'[k]),
                          Same(queue'[j][i], queue'[k][h])
                   PROVE  j = k /\ i = h
      BY Zenon
    <3>2. PICK m \in 1..Len(queue[j]) :
            /\ queue'[j][i] = queue[j][m] /\ (j = l => m = i + 1) /\ (j # l => m = i)
      BY <1>4, Zenon
    <3>3. PICK n \in 1..Len(queue[k]) :
            /\ queue'[k][h] = queue[k][n] /\ (k = l => n = h + 1) /\ (k # l => n = h)
      BY <1>4, Zenon
    <3>4. j = k /\ m = n
      BY <3>1, <3>2, <3>3 DEF Unique
    <3> QED
      BY <3>2, <3>3, <3>4
  <2>2. \A j, k \in AllLoops : \A i \in 1..Len(queue'[j]) : ~ Same(queue'[j][i], running'[k])
    <3>1. SUFFICES ASSUME NEW j \in AllLoops, NEW k \in AllLoops, NEW i \in 1..Len(queue'[j])
                   PROVE  ~ Same(queue'[j][i], running'[k])
      OBVIOUS
    <3>2. PICK m \in 1..Len(queue[j]) : queue'[j][i] = queue[j][m]
      BY <1>4
    <3>3. ~ Same(queue[j][m], running[k]) /\ ~ Same(queue'[j][i], t)
      BY <1>5, Zenon DEF Unique
    <3> QED
      BY <1>1, <3>2, <3>3, Zenon
  <2>3. \A j, k \in AllLoops : Same(running'[j], running'[k]) => j = k
    <3>1. \A k \in AllLoops : ~ Same(t, running[k]) /\ ~ Same(running[k], t)
      BY <1>2 DEF Unique, Same
    <3>2. \A j, k \in AllLoops : Same(running[j], running[k]) => j = k
      BY Zenon DEF Unique
    <3> QED
      BY <1>1, <3>1, <3>2
  <2> QED
    BY <2>1, <2>2, <2>3, Zenon DEF Unique, Same
<1>7. Carried'
  <2>1. first' = first
    BY Zenon DEF Take
  <2>2. ASSUME NEW k \in AllLoops, NEW i \in 1..Len(queue'[k]), queue'[k][i].kind = "callback"
        PROVE  \/ queue'[k][i].outcome = "timeout"
               \/ first'[queue'[k][i].call] = <<queue'[k][i].outcome>>
    <3>1. PICK h \in 1..Len(queue[k]) : queue'[k][i] = queue[k][h]
      BY <1>4
    <3> QED
      BY <2>1, <2>2, <3>1, Zenon DEF Carried, Valid
  <2>3. ASSUME NEW k \in AllLoops, running'[k].kind = "callback"
        PROVE  \/ running'[k].outcome = "timeout"
               \/ first'[running'[k].call] = <<running'[k].outcome>>
    <3>1. CASE k = l
      <4>1. running'[k] = queue[l][1] /\ queue[l][1].kind = "callback"
        BY <1>1, <1>2, <2>3, <3>1
      <4>2. Valid(queue[l][1].call, queue[l][1].outcome)
        BY <1>2, <4>1, Zenon DEF Carried
      <4> QED
        BY <2>1, <4>1, <4>2, Zenon DEF Valid
    <3>2. CASE k # l
      <4>1. running'[k] = running[k]
        BY <1>1, <3>2
      <4> QED
        BY <2>1, <2>3, <4>1, Zenon DEF Carried, Valid
    <3> QED
      BY <3>1, <3>2, Zenon
  <2> QED
    BY <2>2, <2>3, Zenon DEF Carried, Valid
<1>8. ASSUME NEW c \in Calls, NEW kind \in {"handle", "callback"}
      PROVE  /\ Queued(kind, c)' => Queued(kind, c)
             /\ Run(kind, c)' => Run(kind, c) \/ (t.kind = kind /\ t.call = c)
             /\ t.kind = kind /\ t.call = c => Queued(kind, c) /\ ~ Queued(kind, c)'
  <2>1. Queued(kind, c)' => Queued(kind, c)
    <3>1. SUFFICES ASSUME NEW k \in AllLoops, NEW i \in 1..Len(queue'[k]),
                          queue'[k][i].kind = kind /\ queue'[k][i].call = c
                   PROVE  Queued(kind, c)
      BY Zenon DEF Queued
    <3>2. PICK h \in 1..Len(queue[k]) : queue'[k][i] = queue[k][h]
      BY <1>4
    <3> QED
      BY <3>1, <3>2, Zenon DEF Queued
  <2>2. Run(kind, c)' => Run(kind, c) \/ (t.kind = kind /\ t.call = c)
    BY <1>1, Zenon DEF Run
  <2>3. t.kind = kind /\ t.call = c => Queued(kind, c)
    BY <1>2, Zenon DEF Queued
  <2>4. t.kind = kind /\ t.call = c => ~ Queued(kind, c)'
    BY <1>5, Zenon DEF Queued, Same
  <2> QED
    BY <2>1, <2>2, <2>3, <2>4, Zenon
<1> QED
  BY <1>6, <1>7, <1>8, Zenon

\* A Loop that is closed loses its tasks.
LEMMA ClosesTasks ==
  ASSUME Typed, Unique, Carried, first' = first, Closes
  PROVE  Unique' /\ Carried' /\ \A c \in Calls : Fewer(c)
<1>1. PICK l \in AllLoops : queue' = [queue EXCEPT ![l] = <<>>] /\ Free(l)
  BY Zenon DEF Closes
<1>2. \A k \in AllLoops : running'[k] = running[k] \/ running'[k].kind = "none"
  BY <1>1, FreesRun DEF Frees
<1>3. /\ queue'[l] = <<>> /\ Len(queue'[l]) = 0
      /\ \A k \in AllLoops \ {l} : queue'[k] = queue[k]
  BY <1>1 DEF Typed
<1>4. \A k \in AllLoops : \A i \in 1..Len(queue'[k]) : k # l /\ queue'[k] = queue[k]
  BY <1>3
<1>5. Unique'
  <2>1. \A j, k \in AllLoops : \A i \in 1..Len(queue'[j]), h \in 1..Len(queue'[k]) :
          Same(queue'[j][i], queue'[k][h]) => j = k /\ i = h
    <3>1. SUFFICES ASSUME NEW j \in AllLoops, NEW k \in AllLoops,
                          NEW i \in 1..Len(queue'[j]), NEW h \in 1..Len(queue'[k]),
                          Same(queue'[j][i], queue'[k][h])
                   PROVE  j = k /\ i = h
      BY Zenon
    <3>2. queue'[j] = queue[j] /\ queue'[k] = queue[k]
      BY <1>4
    <3> QED
      BY <3>1, <3>2, Zenon DEF Unique
  <2>2. \A j, k \in AllLoops : \A i \in 1..Len(queue'[j]) : ~ Same(queue'[j][i], running'[k])
    BY <1>2, <1>4 DEF Unique, Same
  <2>3. \A j, k \in AllLoops : Same(running'[j], running'[k]) => j = k
    BY <1>2 DEF Unique, Same
  <2> QED
    BY <2>1, <2>2, <2>3, Zenon DEF Unique, Same
<1>6. Carried'
  <2>1. ASSUME NEW k \in AllLoops, NEW i \in 1..Len(queue'[k]), queue'[k][i].kind = "callback"
        PROVE  \/ queue'[k][i].outcome = "timeout"
               \/ first'[queue'[k][i].call] = <<queue'[k][i].outcome>>
    <3>1. queue'[k] = queue[k]
      BY <1>4
    <3> QED
      BY <2>1, <3>1 DEF Carried, Valid
  <2>2. ASSUME NEW k \in AllLoops, running'[k].kind = "callback"
        PROVE  \/ running'[k].outcome = "timeout"
               \/ first'[running'[k].call] = <<running'[k].outcome>>
    <3>1. running'[k] = running[k]
      BY <1>2, <2>2
    <3> QED
      BY <2>2, <3>1, Zenon DEF Carried, Valid
  <2> QED
    BY <2>1, <2>2, Zenon DEF Carried, Valid
<1>7. ASSUME NEW c \in Calls, NEW kind \in {"handle", "callback"}
      PROVE  (Queued(kind, c)' => Queued(kind, c)) /\ (Run(kind, c)' => Run(kind, c))
  <2>1. Queued(kind, c)' => Queued(kind, c)
    <3>1. SUFFICES ASSUME NEW k \in AllLoops, NEW i \in 1..Len(queue'[k]),
                          queue'[k][i].kind = kind /\ queue'[k][i].call = c
                   PROVE  Queued(kind, c)
      BY Zenon DEF Queued
    <3>2. queue'[k] = queue[k]
      BY <1>4
    <3> QED
      BY <3>1, <3>2, Zenon DEF Queued
  <2>2. Run(kind, c)' => Run(kind, c)
    BY <1>2 DEF Run
  <2> QED
    BY <2>1, <2>2
<1> QED
  BY <1>5, <1>6, <1>7 DEF Fewer

-----------------------------------------------------------------------------
(* The life of a call *)

\* What the rest of a call's invariants is about stays as it is.
SameCall(c) ==
  /\ phase'[c] = phase[c] /\ timer'[c] = timer[c] /\ completed'[c] = completed[c]
  /\ wire'[c] = wire[c] /\ responded'[c] = responded[c] /\ first'[c] = first[c]
  /\ response'[c] = response[c] /\ told'[c] = told[c]

Holds(c) == Progress(c) /\ Answered(c) /\ Flow(c)

\* A step of another call does not disturb this one.
LEMMA Frame ==
  ASSUME NEW c \in Calls, Holds(c), SameCall(c), Fewer(c), plan' = plan
  PROVE  Holds(c)'
<1>1. (c \in Sync)' <=> c \in Sync
  BY DEF Sync
<1>2. Quiet(c) => Quiet(c)'
  BY Zenon DEF SameCall, Fewer, Quiet
<1>3. Progress(c)'
  BY <1>1, <1>2, Zenon DEF Holds, Progress, SameCall
<1>4. Answered(c)'
  BY <1>1, Zenon DEF Holds, Answered, SameCall, Fewer
<1>5. Flow(c)'
  <2>1. \A o : Valid(c, o)' <=> Valid(c, o)
    BY Zenon DEF Valid, SameCall
  <2> QED
    BY <1>1, <2>1, Zenon DEF Holds, Flow, SameCall, Fewer
<1> QED
  BY <1>3, <1>4, <1>5 DEF Holds

\* The outcome of a call is on its way, once, or the call was completed before.
Settles(c, o) ==
  \/ /\ ~ completed[c] /\ completed' = [completed EXCEPT ![c] = TRUE]
     /\ Notify(c, o) /\ Valid(c, o)'
  \/ UNCHANGED <<completed, response, queue>>

\* Completing a call puts its outcome in one place, and concerns no other call.
LEMMA SettlesCall ==
  ASSUME Typed, Unique, Carried, FirstKept, Frees, plan' = plan, told' = told,
         NEW c \in DOMAIN plan, NEW o \in Answers \cup {"timeout"},
         Flow(c), phase'[c] = phase[c], Settles(c, o)
  PROVE  /\ Flow(c)' /\ Unique' /\ Carried'
         /\ \A d \in Calls : /\ Queued("handle", d)' => Queued("handle", d)
                             /\ Run("handle", d)' => Run("handle", d)
         /\ \A d \in Calls \ {c} :
              Fewer(d) /\ completed'[d] = completed[d] /\ response'[d] = response[d]
<1> DEFINE t == Callback(c, o)
<1>0. /\ c \in Calls /\ t \in Task /\ t.kind = "callback" /\ t.call = c /\ t.outcome = o
      /\ Caller(c) \in Loops \cup {App} /\ StopTask \in Task /\ StopTask.kind = "stop"
  BY TypedIsTypeOK, PlanType, TaskFacts
<1>1. (c \in Sync)' <=> c \in Sync
  BY DEF Sync
<1>2. \A p \in Answers \cup {"timeout"} : Valid(c, p) => Valid(c, p)'
  BY <1>0, ValidKept, Zenon
<1>3. CASE UNCHANGED <<completed, response, queue>>
  <2>1. Posts(StopTask)
    BY <1>3 DEF Posts
  <2>2. Unique' /\ Carried'
    BY <1>0, <2>1, PostsUnique, PostsCarried, Zenon
  <2>3. \A d \in Calls : Fewer(d)
    BY <1>0, <2>1, PostsFew, Zenon
  <2>4. Flow(c)'
    <3>1. Fewer(c) /\ response'[c] = response[c] /\ told'[c] = told[c] /\ completed'[c] = completed[c]
      BY <1>0, <1>3, <2>3
    <3> QED
      BY <1>1, <1>2, <3>1, Zenon DEF Flow, Fewer
  <2> QED
    BY <1>3, <2>2, <2>3, <2>4, Zenon DEF Fewer
<1>4. CASE /\ ~ completed[c] /\ completed' = [completed EXCEPT ![c] = TRUE]
           /\ Notify(c, o) /\ Valid(c, o)'
  <2>1. /\ response[c] = <<>> /\ told'[c] = <<>>
        /\ ~ Queued("callback", c) /\ ~ Run("callback", c)
    BY <1>4, Zenon DEF Flow
  <2>2. completed'[c] /\ \A d \in Calls \ {c} : completed'[d] = completed[d]
    <3>1. completed \in [Calls -> BOOLEAN]
      BY Zenon DEF Typed
    <3> QED
      BY <1>0, <1>4, <3>1, Zenon
  <2>3. Posts(t)
    <3>1. queue' = queue \/ (queue' = Posted(Caller(c), t) /\ Caller(c) \in AllLoops)
      BY <1>0, <1>4, Zenon DEF Notify, AllLoops
    <3> QED
      BY <3>1, Zenon DEF Posts, Posted
  <2>4. Unique' /\ Carried'
    BY <1>0, <1>4, <2>1, <2>3, PostsUnique, PostsCarried, Zenon
  <2>5. /\ \A d \in Calls : /\ Queued("handle", d)' => Queued("handle", d)
                            /\ Run("handle", d)' => Run("handle", d)
        /\ Run("callback", c)' => Run("callback", c)
        /\ \A d \in Calls \ {c} : Fewer(d)
    BY <1>0, <2>3, PostsFew, Zenon
  <2>6. CASE c \in Sync \/ Caller(c) = App
    <3>1. queue' = queue /\ response' = [response EXCEPT ![c] = Append(@, o)]
      BY <1>4, <2>6, Zenon DEF Notify
    <3>2. response'[c] = <<o>> /\ \A d \in Calls \ {c} : response'[d] = response[d]
      BY <1>0, <2>1, <3>1 DEF Typed
    <3>3. ~ Queued("callback", c)'
      BY <2>1, <3>1, Zenon DEF Queued
    <3>4. Flow(c)'
      BY <1>1, <1>4, <2>1, <2>2, <2>5, <3>2, <3>3, Zenon DEF Flow
    <3> QED
      BY <2>2, <2>4, <2>5, <3>2, <3>4, Zenon
  <2>7. CASE ~ (c \in Sync \/ Caller(c) = App)
    <3>1. response' = response
      BY <1>4, <2>7 DEF Notify
    <3>2. Flow(c)'
      BY <1>1, <2>1, <2>2, <2>7, <3>1, Zenon DEF Flow
    <3> QED
      BY <2>2, <2>4, <2>5, <3>1, <3>2
  <2> QED
    BY <2>6, <2>7, Zenon
<1> QED
  BY <1>3, <1>4, Zenon DEF Settles

\* A step that leaves the other calls alone keeps the invariant if it does so for its own.
LEMMA Others ==
  ASSUME CallInv, plan' = plan, NEW c, c \in Calls => Holds(c)',
         \A d \in Calls \ {c} : SameCall(d) /\ Fewer(d)
  PROVE  CallInv'
<1>1. ASSUME NEW d \in Calls, d # c PROVE Holds(d)'
  BY <1>1, Frame, Zenon DEF CallInv, Holds
<1>2. \A d \in Calls : Holds(d)'
  BY <1>1, Zenon
<1> QED
  BY <1>2, Zenon DEF CallInv, Holds

\* So does one that leaves all of them alone.
LEMMA Nobody ==
  ASSUME CallInv, plan' = plan, \A d \in Calls : SameCall(d) /\ Fewer(d)
  PROVE  CallInv'
<1>1. ASSUME NEW d \in Calls PROVE Holds(d)'
  BY <1>1, Frame, Zenon DEF CallInv, Holds
<1> QED
  BY <1>1, Zenon DEF CallInv, Holds

\* A step without a new task leaves the tasks as they are.
LEMMA NoTasks ==
  ASSUME Typed, Unique, Carried, FirstKept, queue' = queue, Frees
  PROVE  Unique' /\ Carried' /\ \A d \in Calls : Fewer(d)
<1>1. StopTask \in Task /\ StopTask.kind = "stop" /\ Posts(StopTask)
  BY TaskFacts, Zenon DEF Posts
<1> QED
  BY <1>1, PostsUnique, PostsCarried, PostsFew

\* The first answer of the called service, of a local and of a remote call.
LEMMA AnswerStep ==
  ASSUME Typed, Unique, Carried, CallInv, NEW c \in DOMAIN plan, NEW a \in Answers,
         first[c] = <<>>, first' = [first EXCEPT ![c] = <<a>>], Respond(c, a), Frees,
         ~ Queued("handle", c), phase[c] \notin {"new", "begun", "armed", "refused"},
         wire[c] # "request", UNCHANGED <<plan, phase, told>>,
         c \notin Sync => responded'[c] # "no", c \in Sync => ~ Run("handle", c)',
         \A d \in Calls \ {c} : responded'[d] = responded[d]
  PROVE  Unique' /\ Carried' /\ CallInv'
<1>0. c \in Calls /\ Holds(c)
  BY TypedIsTypeOK, PlanType, Zenon DEF CallInv, Holds
<1>1. first'[c] = <<a>> /\ \A d \in Calls \ {c} : first'[d] = first[d]
  BY <1>0 DEF Typed
<1>2. FirstKept /\ Valid(c, a)'
  BY <1>1, Zenon DEF FirstKept, Valid
<1>3. Settles(c, a)
  BY <1>2, Zenon DEF Respond, Complete, Settles, Wins
<1>4. /\ Flow(c)' /\ Unique' /\ Carried'
      /\ \A d \in Calls : /\ Queued("handle", d)' => Queued("handle", d)
                          /\ Run("handle", d)' => Run("handle", d)
      /\ \A d \in Calls \ {c} :
           Fewer(d) /\ completed'[d] = completed[d] /\ response'[d] = response[d]
  BY <1>0, <1>2, <1>3, SettlesCall, Zenon DEF Holds
<1>5. \A d \in Calls \ {c} : timer'[d] = timer[d] /\ wire'[d] = wire[d]
  <2>1. /\ timer' = timer \/ \E v : timer' = [timer EXCEPT ![c] = v]
        /\ wire' = wire \/ \E v : wire' = [wire EXCEPT ![c] = v]
    BY Zenon DEF Respond, Complete
  <2>2. timer \in [Calls -> {"off", "armed", "firing"}] /\ DOMAIN wire = Calls
    BY DEF Typed
  <2> QED
    BY <1>0, <2>1, <2>2, Zenon
<1>6. \A d \in Calls \ {c} : SameCall(d) /\ Fewer(d)
  BY <1>1, <1>4, <1>5, Zenon DEF SameCall
<1>7. wire'[c] # "request"
  BY <1>0 DEF Respond, Typed
<1>8. (c \in Sync)' <=> c \in Sync
  BY Zenon DEF Sync
<1>9. Progress(c)'
  BY <1>0, <1>7, <1>8, Zenon DEF Progress, Holds
<1>10. Answered(c)'
  <2>1. <<a>> # <<>>
    OBVIOUS
  <2> QED
    BY <1>0, <1>1, <1>4, <1>8, <2>1, Zenon DEF Answered
<1>11. Holds(c)'
  BY <1>4, <1>9, <1>10, Zenon DEF Holds
<1> QED
  BY <1>4, <1>6, <1>11, Others, Zenon

\* The end of a call, by an answer that arrives or by its timer.
LEMMA SettleStep ==
  ASSUME Typed, Unique, Carried, CallInv, NEW c \in DOMAIN plan, NEW o \in Answers \cup {"timeout"},
         Settles(c, o), UNCHANGED <<plan, phase, told, first, responded, running>>,
         phase[c] \notin {"new", "begun", "refused"},
         wire'[c] = wire[c] \/ (wire'[c] = "gone" /\ wire[c] # "none"),
         \A d \in Calls \ {c} : timer'[d] = timer[d] /\ wire'[d] = wire[d]
  PROVE  Unique' /\ Carried' /\ CallInv'
<1>0. c \in Calls /\ Holds(c) /\ FirstKept /\ Frees
  BY TypedIsTypeOK, PlanType, Zenon DEF CallInv, Holds, FirstKept, Frees
<1>1. /\ Flow(c)' /\ Unique' /\ Carried'
      /\ \A d \in Calls : /\ Queued("handle", d)' => Queued("handle", d)
                          /\ Run("handle", d)' => Run("handle", d)
      /\ \A d \in Calls \ {c} :
           Fewer(d) /\ completed'[d] = completed[d] /\ response'[d] = response[d]
  BY <1>0, SettlesCall, Zenon DEF Holds
<1>2. \A d \in Calls \ {c} : SameCall(d) /\ Fewer(d)
  BY <1>1, Zenon DEF SameCall
<1>3. (c \in Sync)' <=> c \in Sync
  BY DEF Sync
<1>4. Quiet(c) => Quiet(c)'
  BY <1>0, <1>1, Zenon DEF Quiet
<1>5. Progress(c)'
  BY <1>0, <1>3, <1>4, Zenon DEF Progress, Holds
<1>6. Answered(c)'
  BY <1>0, <1>1, <1>3, Zenon DEF Answered, Holds
<1>7. Holds(c)'
  BY <1>1, <1>5, <1>6, Zenon DEF Holds
<1> QED
  BY <1>1, <1>2, <1>7, Others, Zenon

\* The handler of a call is posted, once.
LEMMA HandleStep ==
  ASSUME Typed, Unique, Carried, CallInv, NEW c \in DOMAIN plan, Quiet(c),
         queue' = Posted(Target(c), Handle(c)),
         UNCHANGED <<plan, timer, completed, response, told, first, responded, running>>,
         phase'[c] \notin {"new", "begun", "armed", "refused"},
         phase'[c] = phase[c] \/ phase[c] # "returned",
         phase'[c] = "waiting" => c \in Sync, wire'[c] \notin {"request", "response"},
         \A d \in Calls \ {c} : phase'[d] = phase[d] /\ wire'[d] = wire[d]
  PROVE  Unique' /\ Carried' /\ CallInv'
<1> DEFINE t == Handle(c)
<1>0. /\ c \in Calls /\ t \in Task /\ t.kind = "handle" /\ t.call = c
      /\ Target(c) \in AllLoops /\ Holds(c) /\ FirstKept /\ Frees
  BY TypedIsTypeOK, PlanType, TaskFacts, Zenon DEF CallInv, Holds, FirstKept, Frees
<1>1. Posts(t)
  BY <1>0, Zenon DEF Posts, Posted
<1>2. Unique' /\ Carried'
  BY <1>0, <1>1, PostsUnique, PostsCarried, Zenon DEF Quiet
<1>3. /\ \A d \in Calls \ {c} : Fewer(d)
      /\ Queued("callback", c)' => Queued("callback", c)
      /\ Run("callback", c)' => Run("callback", c)
      /\ Run("handle", c)' => Run("handle", c)
  BY <1>0, <1>1, PostsFew, Zenon
<1>4. \A d \in Calls \ {c} : SameCall(d) /\ Fewer(d)
  BY <1>3, Zenon DEF SameCall
<1>5. (c \in Sync)' <=> c \in Sync
  BY Zenon DEF Sync
<1>6. Progress(c)'
  BY <1>0, <1>5, Zenon DEF Progress, Holds
<1>7. Answered(c)'
  BY <1>0, <1>3, <1>5, Zenon DEF Answered, Holds, Quiet
<1>8. Flow(c)'
  <2>1. \A o : Valid(c, o)' <=> Valid(c, o)
    BY Zenon DEF Valid
  <2> QED
    BY <1>0, <1>3, <1>5, <2>1, Zenon DEF Flow, Holds
<1>9. Holds(c)'
  BY <1>6, <1>7, <1>8 DEF Holds
<1> QED
  BY <1>2, <1>4, <1>9, Others, Zenon

\* Every step keeps the tasks unique, their outcomes valid and the calls' invariants.
LEMMA LifeStep ==
  ASSUME Typed, Unique, Carried, CallInv, [Next]_vars
  PROVE  Unique' /\ Carried' /\ CallInv'
<1>1. CASE UNCHANGED <<plan, callVars, handlerVars, loopVars, told>>
  <2>1. /\ FirstKept /\ Frees /\ queue' = queue /\ plan' = plan
        /\ \A d \in Calls : SameCall(d)
    BY <1>1 DEF FirstKept, Frees, SameCall, callVars, handlerVars, loopVars
  <2>2. Unique' /\ Carried' /\ \A d \in Calls : Fewer(d)
    BY <2>1, NoTasks
  <2> QED
    BY <2>1, <2>2, Nobody, Zenon
<1>2. ASSUME NEW l \in Loops, StopService(l) PROVE Unique' /\ Carried' /\ CallInv'
  <2>0. StopTask \in Task /\ StopTask.kind = "stop" /\ l \in AllLoops
    BY TaskFacts DEF AllLoops
  <2>1. /\ FirstKept /\ Frees /\ Posts(StopTask) /\ plan' = plan
        /\ \A d \in Calls : SameCall(d)
    BY <1>2, <2>0, Zenon DEF StopService, FirstKept, Frees, Posts, Posted, SameCall,
       callVars, handlerVars
  <2>2. Unique' /\ Carried' /\ \A d \in Calls : Fewer(d)
    BY <2>0, <2>1, PostsUnique, PostsCarried, PostsFew
  <2> QED
    BY <2>1, <2>2, Nobody, Zenon
<1>3. ASSUME NEW c \in Calls, Begin(c) \/ Arm(c) \/ Send(c) \/ TimerFires(c) \/ Lose(c)
      PROVE  Unique' /\ Carried' /\ CallInv'
  <2>1. /\ FirstKept /\ Frees /\ queue' = queue /\ plan' = plan
        /\ UNCHANGED <<completed, responded, first, response, told>>
    BY <1>3, Zenon DEF Begin, Arm, Send, TimerFires, Lose, FirstKept, Frees, handlerVars,
       loopVars
  <2>2. Unique' /\ Carried' /\ \A d \in Calls : Fewer(d)
    BY <2>1, NoTasks
  <2>3. \A d \in Calls \ {c} : phase'[d] = phase[d] /\ timer'[d] = timer[d] /\ wire'[d] = wire[d]
    <3>1. /\ phase' = phase \/ \E v : phase' = [phase EXCEPT ![c] = v]
          /\ timer' = timer \/ \E v : timer' = [timer EXCEPT ![c] = v]
          /\ wire' = wire \/ \E v : wire' = [wire EXCEPT ![c] = v]
      BY <1>3, Zenon DEF Begin, Arm, Send, TimerFires, Lose, Accepted, Goto
    <3> QED
      BY <3>1, Zenon DEF Typed
  <2>4. \A d \in Calls \ {c} : SameCall(d) /\ Fewer(d)
    BY <2>1, <2>2, <2>3 DEF SameCall
  <2>5. /\ (c \in Sync)' <=> c \in Sync
        /\ \A o : Valid(c, o)' <=> Valid(c, o)
        /\ Quiet(c) => Quiet(c)'
    BY <2>1, <2>2, Zenon DEF Sync, Valid, Quiet, Fewer
  <2>6. \/ phase'[c] = phase[c]
        \/ phase[c] # "returned" /\ phase'[c] # "returned"
    BY <1>3 DEF Begin, Arm, Send, TimerFires, Lose, Accepted, Goto, Typed
  <2>7. Flow(c)'
    <3>1. Flow(c) /\ Fewer(c) /\ UNCHANGED <<completed, response, told>>
      BY <2>1, <2>2 DEF CallInv
    <3> QED
      BY <2>5, <2>6, <3>1, Zenon DEF Flow, Fewer
  <2>8. wire'[c] # "response" \/ wire'[c] = wire[c]
    BY <1>3 DEF Begin, Arm, Send, TimerFires, Lose, Typed
  <2>9. Answered(c)'
    BY <2>1, <2>2, <2>5, <2>8, Zenon DEF Answered, Fewer, CallInv
  <2>10. Progress(c)'
    <3>0. Progress(c)
      BY DEF CallInv
    <3>1. CASE Begin(c)
      <4>1. c \in DOMAIN plan /\ phase[c] = "new" /\ phase'[c] \in {"begun", "refused"}
        BY <3>1, Zenon DEF Begin, Goto, Typed
      <4>2. timer' = timer /\ wire' = wire
        BY <3>1 DEF Begin
      <4> QED
        BY <2>1, <2>5, <3>0, <4>1, <4>2, Zenon DEF Progress
    <3>2. CASE Arm(c)
      <4>1. /\ phase[c] = "begun" /\ wire' = wire
            /\ \/ phase'[c] = "armed"
               \/ phase'[c] = "refused" /\ timer' = timer
        BY <3>2 DEF Arm, Goto, Typed
      <4> QED
        BY <2>1, <2>5, <3>0, <4>1, Zenon DEF Progress
    <3>3. CASE Send(c)
      <4>1. /\ phase[c] = "begun"
            /\ \/ /\ phase'[c] \in {"waiting", "accepted"} /\ wire'[c] = "request"
                  /\ phase'[c] = "waiting" => c \in Sync
               \/ phase'[c] = "refused" /\ timer' = timer /\ wire' = wire
        BY <3>3 DEF Send, Accepted, Goto, Typed
      <4> QED
        BY <2>1, <2>5, <3>0, <4>1, Zenon DEF Progress
    <3>4. CASE TimerFires(c)
      <4>1. timer[c] = "armed" /\ phase' = phase /\ wire' = wire
        BY <3>4 DEF TimerFires
      <4> QED
        BY <2>1, <2>5, <3>0, <4>1, Zenon DEF Progress
    <3>5. CASE Lose(c)
      <4>1. wire[c] # "none" /\ wire'[c] = "gone" /\ phase' = phase /\ timer' = timer
        BY <3>5 DEF Lose, Typed
      <4> QED
        BY <2>1, <2>5, <3>0, <4>1, Zenon DEF Progress
    <3> QED
      BY <1>3, <3>1, <3>2, <3>3, <3>4, <3>5
  <2>11. Holds(c)'
    BY <2>7, <2>9, <2>10, Zenon DEF Holds
  <2> QED
    BY <2>1, <2>2, <2>4, <2>11, Others, Zenon
<1>4. ASSUME NEW c \in Calls, Dispatch(c) PROVE Unique' /\ Carried' /\ CallInv'
  <2>1. c \in DOMAIN plan /\ Quiet(c) /\ wire[c] = "none" /\ phase[c] = "armed"
    BY <1>4, Zenon DEF Dispatch, CallInv, Progress
  <2>2. /\ phase'[c] \in {"waiting", "accepted"} /\ (phase'[c] = "waiting" => c \in Sync)
        /\ \A d \in Calls \ {c} : phase'[d] = phase[d]
        /\ wire' = wire
    BY <1>4 DEF Dispatch, Accepted, Goto, Typed
  <2>3. /\ queue' = Posted(Target(c), Handle(c))
        /\ UNCHANGED <<plan, timer, completed, response, told, first, responded, running>>
    BY <1>4 DEF Dispatch, handlerVars
  <2> QED
    BY <2>1, <2>2, <2>3, HandleStep, Zenon
<1>5. ASSUME NEW c \in Calls, Deliver(c) PROVE Unique' /\ Carried' /\ CallInv'
  <2>1. /\ c \in DOMAIN plan /\ Quiet(c) /\ phase[c] \notin {"new", "begun", "armed", "refused"}
        /\ phase[c] = "waiting" => c \in Sync
    BY <1>5, Underway, Zenon DEF Deliver, CallInv, Progress
  <2>2. CASE wire' = [wire EXCEPT ![c] = "served"] /\ queue' = Posted(Target(c), Handle(c)) /\ first' = first
    <3>1. wire'[c] = "served" /\ \A d \in Calls \ {c} : wire'[d] = wire[d]
      BY <2>2 DEF Typed
    <3>2. UNCHANGED <<plan, phase, timer, completed, response, told, first, responded, running>>
      BY <1>5, <2>2 DEF Deliver
    <3> QED
      BY <2>1, <2>2, <3>1, <3>2, HandleStep, Zenon
  <2>3. ASSUME NEW a \in Answers, wire' = [wire EXCEPT ![c] = "response"],
               first' = [first EXCEPT ![c] = <<a>>], queue' = queue
        PROVE  Unique' /\ Carried' /\ CallInv'
    <3>1. first'[c] = <<a>> /\ \A d \in Calls \ {c} : first'[d] = first[d]
      BY <2>3 DEF Typed
    <3>2. wire'[c] = "response" /\ \A d \in Calls \ {c} : wire'[d] = wire[d]
      BY <2>3 DEF Typed
    <3>3. /\ UNCHANGED <<plan, phase, timer, completed, response, told, responded, running>>
          /\ Frees /\ FirstKept
      BY <1>5, <2>1, <3>1, Zenon DEF Deliver, Frees, FirstKept, Quiet
    <3>4. Unique' /\ Carried' /\ \A d \in Calls : Fewer(d)
      BY <2>3, <3>3, NoTasks
    <3>5. /\ (c \in Sync)' <=> c \in Sync
          /\ \A o \in Answers \cup {"timeout"} : Valid(c, o) => Valid(c, o)'
      BY <3>3, ValidKept DEF Sync
    <3>6. Flow(c)'
      BY <3>3, <3>4, <3>5, Zenon DEF Flow, Fewer, CallInv
    <3>7. Progress(c)'
      BY <2>1, <3>2, <3>3, <3>5 DEF Progress
    <3>8. Answered(c)'
      <4>1. <<a>> # <<>>
        OBVIOUS
      <4> QED
        BY <2>1, <3>1, <3>3, <3>4, <3>5, <4>1, Zenon DEF Answered, Fewer, Quiet
    <3>9. \A d \in Calls \ {c} : SameCall(d) /\ Fewer(d)
      BY <3>1, <3>2, <3>3, <3>4 DEF SameCall
    <3>10. Holds(c)'
      BY <3>6, <3>7, <3>8, Zenon DEF Holds
    <3> QED
      BY <3>3, <3>4, <3>9, <3>10, Others, Zenon
  <2> QED
    BY <1>5, <2>2, <2>3, Zenon DEF Deliver
<1>6. ASSUME NEW c \in Calls, Receive(c) PROVE Unique' /\ Carried' /\ CallInv'
  <2>1. c \in DOMAIN plan /\ phase[c] \notin {"new", "begun", "refused"}
    BY <1>6, Underway DEF Receive
  <2>2. PICK a \in Answers : first[c] = <<a>>
    BY <1>6, Zenon DEF Receive, CallInv, Answered
  <2>3. first' = first /\ first[c][1] = a
    BY <1>6, <2>2 DEF Receive, handlerVars
  <2>4. Settles(c, a)
    BY <1>6, <2>2, <2>3, Zenon DEF Receive, Complete, Wins, Settles, Valid
  <2>5. wire[c] # "none" /\ wire'[c] = "gone" /\ \A d \in Calls \ {c} : timer'[d] = timer[d] /\ wire'[d] = wire[d]
    BY <1>6 DEF Receive, Complete, Typed
  <2>6. UNCHANGED <<plan, phase, told, first, responded, running>>
    BY <1>6 DEF Receive, handlerVars
  <2> QED
    BY <2>1, <2>4, <2>5, <2>6, SettleStep, Zenon
<1>7. ASSUME NEW c \in Calls, Expire(c) PROVE Unique' /\ Carried' /\ CallInv'
  <2>1. c \in DOMAIN plan /\ phase[c] \notin {"new", "begun", "refused"}
    BY <1>7, Underway DEF Expire
  <2>2. Settles(c, "timeout")
    BY <1>7, Zenon DEF Expire, Wins, Settles, Valid
  <2>3. wire' = wire /\ \A d \in Calls \ {c} : timer'[d] = timer[d]
    BY <1>7 DEF Expire, Typed
  <2>4. UNCHANGED <<plan, phase, told, first, responded, running>>
    BY <1>7 DEF Expire, handlerVars
  <2> QED
    BY <2>1, <2>2, <2>3, <2>4, SettleStep, Zenon
<1>8. ASSUME NEW c \in Calls, RunAppCallback(c) \/ Return(c) \/ ReturnStopped(c)
      PROVE  Unique' /\ Carried' /\ CallInv'
  <2>0. Progress(c) /\ Answered(c) /\ Flow(c)
    BY DEF CallInv
  <2>1. /\ FirstKept /\ Frees /\ queue' = queue /\ plan' = plan
        /\ UNCHANGED <<wire, responded, first>>
    BY <1>8, Zenon DEF RunAppCallback, Return, ReturnStopped, FirstKept, Frees, handlerVars,
       loopVars
  <2>2. Unique' /\ Carried' /\ \A d \in Calls : Fewer(d)
    BY <2>1, NoTasks
  <2>3. \A d \in Calls \ {c} : /\ phase'[d] = phase[d] /\ timer'[d] = timer[d]
                               /\ response'[d] = response[d] /\ told'[d] = told[d]
    BY <1>8 DEF RunAppCallback, Return, ReturnStopped, Goto, Typed
  <2>4. \A d \in Calls \ {c} : completed'[d] = completed[d]
    BY <1>8, Zenon DEF RunAppCallback, Return, ReturnStopped, Typed
  <2>5. \A d \in Calls \ {c} : SameCall(d) /\ Fewer(d)
    BY <2>1, <2>2, <2>3, <2>4 DEF SameCall
  <2>6. /\ (c \in Sync)' <=> c \in Sync
        /\ \A o : Valid(c, o)' <=> Valid(c, o)
        /\ Quiet(c) => Quiet(c)'
    BY <2>1, <2>2 DEF Sync, Valid, Quiet, Fewer
  <2>7. Answered(c)'
    BY <2>0, <2>1, <2>2, <2>6, Zenon DEF Answered, Fewer
  <2>8. CASE RunAppCallback(c)
    <3>1. PICK o \in Answers \cup {"timeout"} : response[c] = <<o>>
      BY <2>0, <2>8, Zenon DEF RunAppCallback, Flow
    <3>2. response'[c] = <<>>
      BY <2>8, <3>1 DEF RunAppCallback, Typed
    <3>3. UNCHANGED <<phase, timer, completed>> /\ c \notin Sync /\ completed[c]
      BY <2>0, <2>8, Zenon DEF RunAppCallback, Flow
    <3>4. ~ Queued("callback", c) /\ ~ Run("callback", c)
      BY <2>0, <2>8, Zenon DEF RunAppCallback, Flow
    <3>5. Flow(c)'
      BY <2>2, <2>6, <3>2, <3>3, <3>4, Zenon DEF Flow, Fewer
    <3>6. Progress(c)'
      BY <2>0, <2>1, <2>6, <3>3, Zenon DEF Progress
    <3>7. Holds(c)'
      BY <2>7, <3>5, <3>6, Zenon DEF Holds
    <3> QED
      BY <2>1, <2>2, <2>5, <3>7, Others, Zenon
  <2>9. CASE Return(c)
    <3>1. phase[c] = "waiting" /\ phase'[c] = "returned" /\ UNCHANGED <<timer, completed, response>>
      BY <2>9, Zenon DEF Return, Goto, Typed
    <3>2. c \in Sync /\ completed[c]
      BY <2>0, <2>9, Zenon DEF Return, Flow, Progress
    <3>3. Flow(c)'
      BY <2>0, <2>2, <2>6, <3>1, <3>2, Zenon DEF Flow, Fewer
    <3>4. Progress(c)'
      BY <2>0, <2>1, <2>6, <3>1, Zenon DEF Progress
    <3>5. Holds(c)'
      BY <2>7, <3>3, <3>4, Zenon DEF Holds
    <3> QED
      BY <2>1, <2>2, <2>5, <3>5, Others, Zenon
  <2>10. CASE ReturnStopped(c)
    <3>1. phase[c] = "waiting" /\ phase'[c] = "returned" /\ response' = response
      BY <2>10, Zenon DEF ReturnStopped, Goto, Typed
    <3>2. c \in Sync
      BY <2>0, <3>1 DEF Progress
    <3>3. completed'[c]
      BY <2>10, Zenon DEF ReturnStopped, Typed
    <3>4. Flow(c)'
      BY <2>0, <2>2, <2>6, <3>1, <3>2, <3>3, Zenon DEF Flow, Fewer
    <3>5. Progress(c)'
      BY <2>0, <2>1, <2>6, <3>1, Zenon DEF Progress
    <3>6. Holds(c)'
      BY <2>7, <3>4, <3>5, Zenon DEF Holds
    <3> QED
      BY <2>1, <2>2, <2>5, <3>6, Others, Zenon
  <2> QED
    BY <1>8, <2>8, <2>9, <2>10
<1>9. ASSUME NEW c \in Calls, NEW a \in Answers, c \notin Sync, RespondOnce(c, a), responded[c] # "none",
             Frees, UNCHANGED <<plan, phase, told>>
      PROVE  Unique' /\ Carried' /\ CallInv'
  <2>0. Progress(c) /\ Answered(c) /\ Flow(c)
    BY DEF CallInv
  <2>1. CASE AnswersFirst(c)
    <3>1. /\ c \in DOMAIN plan /\ first[c] = <<>> /\ ~ Queued("handle", c)
          /\ phase[c] \notin {"new", "begun", "armed", "refused"} /\ wire[c] # "request"
      BY <1>9, <2>0, <2>1, Underway, Zenon DEF AnswersFirst, Answered, Progress, Quiet
    <3>4. /\ responded' = [responded EXCEPT ![c] = "yes"]
          /\ first' = [first EXCEPT ![c] = Append(@, a)] /\ Respond(c, a)
      BY <1>9, <2>1, Zenon DEF RespondOnce
    <3>2. responded'[c] = "yes" /\ \A d \in Calls \ {c} : responded'[d] = responded[d]
      BY <3>4, Zenon DEF Typed
    <3>3. first' = [first EXCEPT ![c] = <<a>>]
      BY <3>1, <3>4
    <3> QED
      BY <1>9, <3>1, <3>2, <3>3, <3>4, AnswerStep, Zenon
  <2>2. CASE ~ AnswersFirst(c)
    <3>1. /\ FirstKept /\ queue' = queue /\ plan' = plan
          /\ \A d \in Calls : SameCall(d)
      BY <1>9, <2>2 DEF RespondOnce, FirstKept, SameCall
    <3>2. Unique' /\ Carried' /\ \A d \in Calls : Fewer(d)
      BY <1>9, <3>1, NoTasks
    <3> QED
      BY <3>1, <3>2, Nobody, Zenon
  <2> QED
    BY <2>1, <2>2
<1>10. ASSUME NEW c \in Calls, CallRespond(c) PROVE Unique' /\ Carried' /\ CallInv'
  <2>1. Frees /\ UNCHANGED <<plan, phase, told>> /\ c \notin Sync /\ responded[c] # "none"
    BY <1>10 DEF CallRespond, Frees
  <2>2. PICK a \in Answers : RespondOnce(c, a)
    BY <1>10 DEF CallRespond
  <2> QED
    BY <1>9, <2>1, <2>2
<1>11. ASSUME NEW l \in AllLoops, Take(l) PROVE Unique' /\ Carried' /\ CallInv'
  <2> DEFINE t == Head(queue[l])
  <2>0. /\ t \in Task /\ (t.kind = "handle" => t.call \in Calls)
        /\ (t.kind = "callback" => t.call \in Calls)
    BY <1>11, Sequences, TaskFacts, Zenon DEF Take, Typed
  <2>1. /\ Unique' /\ Carried'
        /\ \A c \in Calls, kind \in {"handle", "callback"} :
             /\ Queued(kind, c)' => Queued(kind, c)
             /\ Run(kind, c)' => Run(kind, c) \/ (t.kind = kind /\ t.call = c)
             /\ t.kind = kind /\ t.call = c => Queued(kind, c) /\ ~ Queued(kind, c)'
    BY <1>11, TakesTask, Zenon
  <2>2. UNCHANGED <<plan, phase, timer, completed, wire, response, first, told>>
    BY <1>11, Zenon DEF Take, callVars
  <2>3. /\ t.kind # "handle" => responded' = responded
        /\ t.kind = "handle" => /\ responded'[t.call] = "no"
                                /\ \A d \in Calls \ {t.call} : responded'[d] = responded[d]
    BY <1>11, <2>0, Zenon DEF Take, Typed
  <2>4. CASE t.kind = "stop"
    <3>1. \A d \in Calls : SameCall(d) /\ Fewer(d)
      BY <2>1, <2>2, <2>3, <2>4, Zenon DEF SameCall, Fewer
    <3> QED
      BY <2>1, <2>2, <3>1, Nobody, Zenon
  <2>5. ASSUME NEW c \in Calls, t.call = c, t.kind \in {"handle", "callback"}
        PROVE  CallInv'
    <3>0. Progress(c) /\ Answered(c) /\ Flow(c)
      BY DEF CallInv
    <3>1. \A d \in Calls \ {c} : SameCall(d) /\ Fewer(d)
      BY <2>1, <2>2, <2>3, <2>5, Zenon DEF SameCall, Fewer
    <3>2. /\ (c \in Sync)' <=> c \in Sync
          /\ \A o : Valid(c, o)' <=> Valid(c, o)
      BY <2>2 DEF Sync, Valid
    <3>3. CASE t.kind = "handle"
      <4>1. /\ responded[c] = "none" /\ first[c] = <<>> /\ responded'[c] = "no"
            /\ Queued("handle", c) /\ ~ Queued("handle", c)'
            /\ Queued("callback", c)' => Queued("callback", c)
            /\ Run("callback", c)' => Run("callback", c)
        BY <2>1, <2>3, <2>5, <3>0, <3>3, Zenon DEF Answered
      <4>2. Progress(c)'
        BY <2>2, <3>0, <3>2, <4>1, Zenon DEF Progress, Quiet
      <4>3. Answered(c)'
        BY <2>2, <3>0, <3>2, <4>1, Zenon DEF Answered
      <4>4. Flow(c)'
        BY <2>2, <3>0, <3>2, <4>1, Zenon DEF Flow
      <4>5. Holds(c)'
        BY <4>2, <4>3, <4>4, Zenon DEF Holds
      <4> QED
        BY <2>2, <3>1, <4>5, Others, Zenon
    <3>4. CASE t.kind = "callback"
      <4>1. /\ Queued("callback", c) /\ ~ Queued("callback", c)' /\ responded' = responded
            /\ Queued("handle", c)' => Queued("handle", c)
            /\ Run("handle", c)' => Run("handle", c)
        BY <2>1, <2>3, <2>5, <3>4, Zenon
      <4>2. Progress(c)'
        BY <2>2, <3>0, <3>2, <4>1, Zenon DEF Progress, Quiet
      <4>3. Answered(c)'
        BY <2>2, <3>0, <3>2, <4>1, Zenon DEF Answered
      <4>4. Flow(c)'
        BY <2>2, <3>0, <3>2, <4>1, Zenon DEF Flow
      <4>5. Holds(c)'
        BY <4>2, <4>3, <4>4, Zenon DEF Holds
      <4> QED
        BY <2>2, <3>1, <4>5, Others, Zenon
    <3> QED
      BY <2>5, <3>3, <3>4
  <2>6. t.kind \in {"handle", "callback", "stop"}
    BY <2>0, TaskFacts, Zenon
  <2> QED
    BY <2>0, <2>1, <2>4, <2>5, <2>6, Zenon
<1>12. ASSUME NEW l \in AllLoops, NEW c \in Calls, NEW kind \in {"handle", "callback"},
              running[l].kind = kind, running[l].call = c, Free(l)
       PROVE  Frees /\ ~ Run(kind, c)' /\ ~ Queued(kind, c) /\ Run(kind, c)
  <2>1. running' = [running EXCEPT ![l] = NoTask] /\ NoTask.kind = "none"
    BY <1>12, TaskFacts, Zenon DEF Free
  <2>2. running'[l].kind = "none" /\ \A k \in AllLoops \ {l} : running'[k] = running[k]
    BY <2>1 DEF Typed
  <2>3. \A k \in AllLoops : Same(running[l], running[k]) => l = k
    BY Zenon DEF Unique
  <2>4. ~ Run(kind, c)'
    BY <1>12, <2>2, <2>3 DEF Run, Same
  <2>5. ~ Queued(kind, c)
    BY <1>12, Zenon DEF Queued, Unique, Same
  <2> QED
    BY <1>12, <2>4, <2>5 DEF Frees, Run
<1>13. ASSUME NEW l \in AllLoops, NEW c \in Calls, ReturnSync(l, c)
       PROVE  Unique' /\ Carried' /\ CallInv'
  <2>0. Progress(c) /\ Answered(c) /\ Flow(c)
    BY DEF CallInv
  <2>1. Frees /\ ~ Run("handle", c)' /\ ~ Queued("handle", c) /\ Run("handle", c)
    <3>1. running[l] = Handle(c) /\ Free(l)
      BY <1>13, Zenon DEF ReturnSync, Handling
    <3>2. running[l].kind = "handle" /\ running[l].call = c
      BY <3>1 DEF Handle
    <3> QED
      BY <1>12, <3>1, <3>2, Zenon
  <2>2. /\ c \in DOMAIN plan /\ c \in Sync /\ first[c] = <<>>
        /\ phase[c] \notin {"new", "begun", "armed", "refused"} /\ wire[c] # "request"
    BY <1>13, <2>0, <2>1, Underway, Zenon DEF ReturnSync, Answered, Progress, Quiet
  <2>3. PICK a \in Answers : first' = [first EXCEPT ![c] = Append(@, a)] /\ Respond(c, a)
    BY <1>13, Zenon DEF ReturnSync
  <2>4. first' = [first EXCEPT ![c] = <<a>>]
    BY <2>2, <2>3
  <2>5. UNCHANGED <<plan, phase, told, responded>>
    BY <1>13 DEF ReturnSync
  <2> QED
    BY <2>1, <2>2, <2>3, <2>4, <2>5, AnswerStep, Zenon
<1>14. ASSUME NEW l \in AllLoops, NEW c \in Calls, ReturnAsync(l, c)
       PROVE  Unique' /\ Carried' /\ CallInv'
  <2>1. Frees /\ Run("handle", c) /\ UNCHANGED <<plan, phase, told>> /\ c \notin Sync
    <3>1. /\ running[l] = Handle(c) /\ Free(l)
          /\ UNCHANGED <<plan, phase, told>> /\ c \notin Sync
      BY <1>14, Zenon DEF ReturnAsync, Handling
    <3>2. running[l].kind = "handle" /\ running[l].call = c
      BY <3>1 DEF Handle
    <3> QED
      BY <1>12, <3>1, <3>2, Zenon
  <2>2. CASE UNCHANGED <<responded, first, wire, completed, timer, response, queue>>
    <3>1. /\ FirstKept /\ queue' = queue /\ plan' = plan
          /\ \A d \in Calls : SameCall(d)
      BY <2>1, <2>2 DEF FirstKept, SameCall
    <3>2. Unique' /\ Carried' /\ \A d \in Calls : Fewer(d)
      BY <2>1, <3>1, NoTasks
    <3> QED
      BY <3>1, <3>2, Nobody, Zenon
  <2>3. ASSUME NEW a \in Answers, RespondOnce(c, a), responded[c] # "none"
        PROVE  Unique' /\ Carried' /\ CallInv'
    BY <1>9, <2>1, <2>3
  <2>4. ASSUME NEW a \in Answers, RespondOnce(c, a), responded[c] = "none"
        PROVE  UNCHANGED <<responded, first, wire, completed, timer, response, queue>>
    BY <2>4 DEF RespondOnce, AnswersFirst
  <2> QED
    BY <1>14, <2>2, <2>3, <2>4, Zenon DEF ReturnAsync
<1>15. ASSUME NEW l \in AllLoops, RunCallback(l) PROVE Unique' /\ Carried' /\ CallInv'
  <2>1. running[l].kind = "callback" /\ running[l] \in Task
    BY <1>15, TaskFacts DEF RunCallback, Typed
  <2>2. PICK c \in Calls : running[l].call = c
    BY <2>1, TaskFacts
  <2>3. Frees /\ ~ Run("callback", c)' /\ ~ Queued("callback", c) /\ Run("callback", c)
    BY <1>12, <1>15, <2>1, <2>2, Zenon DEF RunCallback
  <2>4. /\ queue' = queue /\ UNCHANGED <<plan, phase, timer, completed, wire, response, responded, first>>
        /\ FirstKept
    BY <1>15, Zenon DEF RunCallback, callVars, handlerVars, FirstKept
  <2>5. Unique' /\ Carried' /\ \A d \in Calls : Fewer(d)
    BY <2>3, <2>4, NoTasks
  <2>6. \A d \in Calls \ {c} : told'[d] = told[d]
    BY <1>15, <2>2, Zenon DEF RunCallback, Typed
  <2>7. \A d \in Calls \ {c} : SameCall(d) /\ Fewer(d)
    BY <2>4, <2>5, <2>6 DEF SameCall
  <2>8. Progress(c) /\ Answered(c) /\ Flow(c)
    BY DEF CallInv
  <2>9. /\ (c \in Sync)' <=> c \in Sync
        /\ \A o : Valid(c, o)' <=> Valid(c, o)
        /\ Quiet(c) => Quiet(c)'
    BY <2>4, <2>5, Zenon DEF Sync, Valid, Quiet, Fewer
  <2>10. Progress(c)'
    BY <2>4, <2>8, <2>9, Zenon DEF Progress
  <2>11. Answered(c)'
    BY <2>4, <2>5, <2>8, <2>9, Zenon DEF Answered, Fewer
  <2>12. Flow(c)'
    BY <2>3, <2>4, <2>5, <2>8, <2>9, Zenon DEF Flow, Fewer
  <2>13. Holds(c)'
    BY <2>10, <2>11, <2>12, Zenon DEF Holds
  <2> QED
    BY <2>4, <2>5, <2>7, <2>13, Others, Zenon
<1>16. ASSUME NEW l \in AllLoops, CloseLoop(l) PROVE Unique' /\ Carried' /\ CallInv'
  <2>1. Closes /\ first' = first /\ plan' = plan /\ \A d \in Calls : SameCall(d)
    BY <1>16, Zenon DEF CloseLoop, Closes, SameCall, callVars, handlerVars
  <2>2. Unique' /\ Carried' /\ \A d \in Calls : Fewer(d)
    BY <2>1, ClosesTasks
  <2> QED
    BY <2>1, <2>2, Nobody, Zenon
<1>17. ASSUME StopNode \/ Finish \/ UNCHANGED vars
       PROVE  UNCHANGED <<plan, callVars, handlerVars, loopVars, told>>
  BY <1>17 DEF StopNode, Finish, vars
<1> QED
  BY <1>1, <1>2, <1>3, <1>4, <1>5, <1>6, <1>7, <1>8, <1>10, <1>11, <1>13, <1>14, <1>15,
     <1>16, <1>17, Zenon DEF Next, StopStep, CallStep, TimerStep, LoopStep

-----------------------------------------------------------------------------
(* The theorems *)

\* The invariant holds when the Node has started.
LEMMA InitInv == Init => Inv
<1> SUFFICES ASSUME Init PROVE Inv
  OBVIOUS
<1>1. \A l \in AllLoops : queue[l] = <<>> /\ Len(queue[l]) = 0 /\ running[l] = NoTask
  BY Zenon DEF Init
<1>2. NoTask.kind = "none" /\ NoTask # StopTask
  BY TaskFacts, Zenon DEF NoTask, StopTask
<1>3. Typed
  <2>1. MaxResponds \in Nat
    BY CallAssumption
  <2>2. \A c \in Calls : 0 \in 0..MaxResponds
    BY <2>1
  <2> QED
    BY <2>2, Sequences, Zenon DEF Init, Typed
<1>4. StopsLocal
  BY <1>1, <1>2 DEF StopsLocal, AllLoops
<1>5. Unique
  BY <1>1, <1>2 DEF Unique, Same
<1>6. Carried
  BY <1>1, <1>2 DEF Carried
<1>7. \A c \in Calls, kind \in {"handle", "callback"} : ~ Queued(kind, c) /\ ~ Run(kind, c)
  BY <1>1, <1>2 DEF Queued, Run
<1>8. ASSUME NEW c \in Calls PROVE Progress(c) /\ Answered(c) /\ Flow(c)
  <2>1. /\ phase[c] = "new" /\ timer[c] = "off" /\ wire[c] = "none" /\ responded[c] = "none"
        /\ first[c] = <<>> /\ response[c] = <<>> /\ told[c] = <<>>
    BY Zenon DEF Init
  <2>2. ~ completed[c]
    BY Zenon DEF Init
  <2> QED
    BY <1>7, <2>1, <2>2, Zenon DEF Progress, Answered, Flow, Quiet
<1> QED
  BY <1>3, <1>4, <1>5, <1>6, <1>8, TypedIsTypeOK DEF Inv, CallInv

\* The invariant holds always.
THEOREM Invariance == Spec => []Inv
<1>1. ASSUME Inv, [Next]_vars PROVE Inv'
  <2>1. Typed /\ StopsLocal /\ Unique /\ Carried /\ CallInv
    BY <1>1, TypedIsTypeOK DEF Inv
  <2>2. Typed' /\ StopsLocal'
    BY <1>1, <2>1, TypeStep
  <2>3. Unique' /\ Carried' /\ CallInv'
    BY <1>1, <2>1, LifeStep
  <2>4. Typed' => TypeOK'
    BY Zenon DEF TypeOK, Typed, AnswerSeqs, OutcomeSeqs, TaskSeqs, ToldSeqs
  <2> QED
    BY <2>2, <2>3, <2>4 DEF Inv
<1> QED
  BY <1>1, InitInv, PTL DEF Spec

\* Every variable keeps its type.
THEOREM TypeCorrect == Spec => []TypeOK
<1>1. Inv => TypeOK
  BY DEF Inv
<1> QED
  BY <1>1, Invariance, PTL

\* CallServiceSync's channel, which holds one value, never gets a second one, so that
\* neither a called service's Loop nor the time wheel blocks on it (node.go:760-778).
THEOREM ChannelNeverBlocks == Spec => []ResponseFits
<1>1. Inv => ResponseFits
  <2>1. ASSUME Inv, NEW c \in Sync PROVE Len(response[c]) <= 1
    <3>1. c \in Calls
      BY <2>1, PlanType DEF Inv, Sync
    <3>2. response[c] = <<>> \/ \E o \in Answers \cup {"timeout"} : response[c] = <<o>>
      BY <2>1, <3>1 DEF Inv, CallInv, Flow
    <3>3. CASE response[c] = <<>>
      BY <3>3
    <3>4. ASSUME NEW o, response[c] = <<o>> PROVE Len(response[c]) <= 1
      BY <3>4
    <3> QED
      BY <3>2, <3>3, <3>4
  <2> QED
    BY <2>1 DEF ResponseFits
<1> QED
  BY <1>1, Invariance, PTL

\* The contract's view of a call.
Stage == [c \in Calls |-> IF phase[c] = "new" THEN "idle"
                          ELSE IF phase[c] = "refused" THEN "refused" ELSE "open"]

\* What the caller is told is the contract's only outcome.
LEMMA Tells ==
  ASSUME Inv, NEW c \in Calls, phase[c] \notin {"new", "refused"}, told[c] = <<>>, NEW o,
         \/ o \in Answers \cup {"timeout"} /\ Valid(c, o)
         \/ o = "stopped" /\ c \in Sync /\ state # "Running",
         told' = [told EXCEPT ![c] = Append(@, o)], Stage' = Stage,
         UNCHANGED <<plan, state, first>>
  PROVE  Contract!Next
<1>1. Stage[c] = "open"
  BY Zenon DEF Stage
<1>2. told' = [told EXCEPT ![c] = <<o>>]
  BY DEF Inv, TypeOK
<1>3. o \in Contract!Outcomes(c)
  BY Zenon DEF Contract!Outcomes, Valid
<1>4. Sync' = Sync /\ (state # "Running")' = (state # "Running")
  BY DEF Sync
<1>5. Contract!Tell(c, o)
  BY <1>1, <1>2, <1>4, Zenon DEF Contract!Tell, Stage
<1> QED
  BY <1>3, <1>5 DEF Contract!Next

\* The first answer is the contract's.
LEMMA Counts ==
  ASSUME NEW c \in Calls, NEW a \in Answers, phase[c] \notin {"new", "refused"}, first[c] = <<>>,
         first' = [first EXCEPT ![c] = <<a>>], Stage' = Stage, UNCHANGED <<plan, state, told>>
  PROVE  Contract!Next
<1>1. Stage[c] = "open"
  BY DEF Stage
<1>2. Sync' = Sync /\ (state # "Running")' = (state # "Running")
  BY DEF Sync
<1>3. Contract!Answer(c, a)
  BY <1>1, <1>2, Zenon DEF Contract!Answer, Stage
<1> QED
  BY <1>3 DEF Contract!Next

\* A step that neither answers, tells, begins, refuses nor stops is none of the contract's.
LEMMA Stutters ==
  ASSUME Stage' = Stage, UNCHANGED <<plan, state, first, told>>
  PROVE  UNCHANGED Contract!vars
  BY DEF Stage, Sync, Contract!vars

\* A call's phase decides its stage.
LEMMA StageKept ==
  ASSUME NEW c \in Calls, phase \in [Calls -> {"new", "begun", "armed", "waiting", "accepted",
                                                "refused", "returned"}],
         phase[c] \notin {"new", "refused"},
         phase' = phase \/ \E p \in {"begun", "armed", "waiting", "accepted", "returned"} : Goto(c, p)
  PROVE  Stage' = Stage
<1>1. \A d \in Calls : /\ phase'[d] = "new" <=> phase[d] = "new"
                       /\ phase'[d] = "refused" <=> phase[d] = "refused"
  BY DEF Goto
<1> QED
  BY <1>1 DEF Stage

\* A call that ends before anything was sent is refused.
LEMMA Refuses ==
  ASSUME Inv, NEW c \in Calls, phase[c] \in {"new", "begun"}, Goto(c, "refused"),
         UNCHANGED <<plan, state, first, told>>
  PROVE  Contract!Next
<1>1. Stage' = [Stage EXCEPT ![c] = "refused"] /\ Stage[c] \in {"idle", "open"}
  <2>1. phase'[c] = "refused" /\ \A d \in Calls \ {c} : phase'[d] = phase[d]
    BY DEF Goto, Inv, TypeOK
  <2> QED
    BY <2>1, Zenon DEF Stage
<1>2. told[c] = <<>>
  BY Zenon DEF Inv, CallInv, Progress, Flow
<1>3. Sync' = Sync /\ (state # "Running")' = (state # "Running")
  BY DEF Sync
<1>4. Contract!Refuse(c)
  BY <1>1, <1>2, <1>3, Zenon DEF Contract!Refuse, Stage
<1> QED
  BY <1>4 DEF Contract!Next

\* Every step of the calls is a step of the contract, or none.
LEMMA ContractStep ==
  ASSUME Inv, [Next]_vars
  PROVE  [Contract!Next]_(Contract!vars)
<1>0. /\ phase \in [Calls -> {"new", "begun", "armed", "waiting", "accepted", "refused", "returned"}]
      /\ CallInv /\ Typed
  BY TypedIsTypeOK, Zenon DEF Inv, TypeOK
<1>1. ASSUME UNCHANGED <<plan, phase, first, told>>, state' = state PROVE UNCHANGED Contract!vars
  <2>1. Stage' = Stage
    BY <1>1 DEF Stage
  <2> QED
    BY <1>1, <2>1, Stutters
<1>2. CASE StopNode
  <2>1. /\ state = "Running" /\ state' = "Stopping" /\ Sync' = Sync /\ Stage' = Stage
        /\ UNCHANGED <<first, told>>
    BY <1>2 DEF StopNode, callVars, handlerVars, Sync, Stage
  <2>2. (state # "Running") = FALSE /\ (state # "Running")' = TRUE
    BY <2>1
  <2>3. Contract!Stop
    BY <2>1, <2>2 DEF Contract!Stop, Stage
  <2> QED
    BY <2>3 DEF Contract!Next
<1>3. CASE Finish
  <2>1. /\ (state # "Running")' = (state # "Running") /\ Sync' = Sync /\ Stage' = Stage
        /\ UNCHANGED <<first, told>>
    BY <1>3 DEF Finish, callVars, handlerVars, Sync, Stage
  <2> QED
    BY <2>1 DEF Contract!vars, Stage
<1>4. ASSUME NEW c \in Calls, Begin(c) PROVE [Contract!Next]_(Contract!vars)
  <2>1. phase[c] = "new" /\ UNCHANGED <<plan, state, first, told>>
    BY <1>4 DEF Begin, handlerVars
  <2>2. CASE Goto(c, "refused")
    BY <2>1, <2>2, Refuses
  <2>3. CASE Goto(c, "begun")
    <3>1. phase'[c] = "begun" /\ \A d \in Calls \ {c} : phase'[d] = phase[d]
      BY <1>0, <2>3 DEF Goto
    <3>2. Stage' = [Stage EXCEPT ![c] = "open"] /\ Stage[c] = "idle"
      BY <2>1, <3>1, Zenon DEF Stage
    <3>3. Sync' = Sync /\ (state # "Running")' = (state # "Running")
      BY <2>1 DEF Sync
    <3>4. Contract!Open(c)
      BY <2>1, <3>2, <3>3 DEF Contract!Open, Stage
    <3> QED
      BY <3>4 DEF Contract!Next
  <2> QED
    BY <1>4, <2>2, <2>3 DEF Begin
<1>5. ASSUME NEW c \in Calls, Arm(c) \/ Send(c) \/ Dispatch(c)
      PROVE  [Contract!Next]_(Contract!vars)
  <2>1. UNCHANGED <<plan, state, first, told>> /\ phase[c] \in {"begun", "armed"}
    BY <1>5, Zenon DEF Arm, Send, Dispatch, handlerVars
  <2>2. \/ phase[c] = "begun" /\ Goto(c, "refused")
        \/ \E p \in {"begun", "armed", "waiting", "accepted", "returned"} : Goto(c, p)
    BY <1>5, Zenon DEF Arm, Send, Dispatch, Accepted
  <2>3. CASE phase[c] = "begun" /\ Goto(c, "refused")
    BY <2>1, <2>3, Refuses
  <2>4. CASE \E p \in {"begun", "armed", "waiting", "accepted", "returned"} : Goto(c, p)
    <3>1. Stage' = Stage
      BY <1>0, <2>1, <2>4, StageKept
    <3> QED
      BY <2>1, <3>1, Stutters
  <2> QED
    BY <2>2, <2>3, <2>4
<1>6. ASSUME NEW c \in Calls, TimerFires(c) \/ Expire(c) \/ Receive(c) \/ Lose(c)
      PROVE  [Contract!Next]_(Contract!vars)
  <2>1. UNCHANGED <<plan, phase, first, told>> /\ state' = state
    BY <1>6, Zenon DEF TimerFires, Expire, Receive, Lose, handlerVars
  <2> QED
    BY <1>1, <2>1
<1>7. ASSUME NEW c \in Calls, Deliver(c) PROVE [Contract!Next]_(Contract!vars)
  <2>1. /\ UNCHANGED <<plan, phase, told>> /\ state' = state
        /\ phase[c] \notin {"new", "begun", "refused"} /\ first[c] = <<>>
    BY <1>0, <1>7, Underway, Zenon DEF Deliver, CallInv, Progress, Quiet
  <2>2. Stage' = Stage
    BY <2>1 DEF Stage
  <2>3. first' = first \/ \E a \in Answers : first' = [first EXCEPT ![c] = <<a>>]
    BY <1>7 DEF Deliver
  <2> QED
    BY <1>1, <2>1, <2>2, <2>3, Counts
<1>8. ASSUME NEW c \in Calls, RunAppCallback(c) \/ Return(c) PROVE [Contract!Next]_(Contract!vars)
  <2>0. Progress(c) /\ Flow(c)
    BY <1>0 DEF CallInv
  <2>1. response[c] # <<>> /\ UNCHANGED <<plan, state, first>>
    BY <1>8, Zenon DEF RunAppCallback, Return, handlerVars
  <2>2. PICK o \in Answers \cup {"timeout"} : response[c] = <<o>> /\ Valid(c, o)
    BY <2>0, <2>1, Zenon DEF Flow
  <2>3. told' = [told EXCEPT ![c] = Append(@, o)]
    BY <1>8, <2>2 DEF RunAppCallback, Return
  <2>4. phase[c] \notin {"new", "begun", "refused"} /\ completed[c]
    BY <2>0, <2>1, Zenon DEF Flow, Progress
  <2>5. told[c] = <<>>
    BY <1>8, <2>0, <2>1, Zenon DEF RunAppCallback, Return, Flow, Progress
  <2>6. phase' = phase \/ Goto(c, "returned")
    BY <1>8, Zenon DEF RunAppCallback, Return
  <2>7. Stage' = Stage
    BY <1>0, <2>4, <2>6, StageKept
  <2> QED
    BY <2>1, <2>2, <2>3, <2>4, <2>5, <2>7, Tells, Zenon
<1>9. ASSUME NEW c \in Calls, ReturnStopped(c) PROVE [Contract!Next]_(Contract!vars)
  <2>1. /\ phase[c] = "waiting" /\ c \in Sync /\ told[c] = <<>> /\ state # "Running"
        /\ Goto(c, "returned") /\ UNCHANGED <<plan, state, first>>
        /\ told' = [told EXCEPT ![c] = Append(@, "stopped")]
    BY <1>0, <1>9, Zenon DEF ReturnStopped, StopReleases, Operational, CallInv, Progress,
       Flow, handlerVars
  <2>2. Stage' = Stage
    BY <1>0, <2>1, StageKept
  <2> QED
    BY <2>1, <2>2, Tells, Zenon
<1>10. ASSUME NEW c \in Calls, NEW a \in Answers, c \notin Sync, responded[c] # "none",
              RespondOnce(c, a), UNCHANGED <<plan, phase, told>>, state' = state
       PROVE  [Contract!Next]_(Contract!vars)
  <2>1. CASE AnswersFirst(c)
    <3>1. phase[c] \notin {"new", "begun", "refused"} /\ first[c] = <<>>
      BY <1>0, <1>10, <2>1, Underway, Zenon DEF AnswersFirst, CallInv, Answered
    <3>2. first' = [first EXCEPT ![c] = <<a>>]
      BY <1>10, <2>1, <3>1 DEF RespondOnce
    <3>3. Stage' = Stage
      BY <1>10 DEF Stage
    <3> QED
      BY <1>10, <3>1, <3>2, <3>3, Counts, Zenon
  <2>2. CASE ~ AnswersFirst(c)
    BY <1>1, <1>10, <2>2 DEF RespondOnce
  <2> QED
    BY <2>1, <2>2
<1>11. ASSUME NEW c \in Calls, CallRespond(c) PROVE [Contract!Next]_(Contract!vars)
  <2>1. /\ UNCHANGED <<plan, phase, told>> /\ state' = state
        /\ c \notin Sync /\ responded[c] # "none"
    BY <1>11 DEF CallRespond
  <2>2. PICK a \in Answers : RespondOnce(c, a)
    BY <1>11 DEF CallRespond
  <2> QED
    BY <1>10, <2>1, <2>2
<1>12. ASSUME NEW l \in AllLoops, NEW c \in Calls, ReturnSync(l, c)
       PROVE  [Contract!Next]_(Contract!vars)
  <2>1. Run("handle", c) /\ UNCHANGED <<plan, phase, told>> /\ state' = state
    BY <1>12 DEF ReturnSync, Handling, Handle, Run
  <2>2. phase[c] \notin {"new", "begun", "refused"} /\ first[c] = <<>>
    BY <1>0, <1>12, <2>1, Underway, Zenon DEF ReturnSync, CallInv, Answered
  <2>3. PICK a \in Answers : first' = [first EXCEPT ![c] = Append(@, a)]
    BY <1>12, Zenon DEF ReturnSync
  <2>4. first' = [first EXCEPT ![c] = <<a>>] /\ Stage' = Stage
    BY <2>1, <2>2, <2>3 DEF Stage
  <2> QED
    BY <2>1, <2>2, <2>4, Counts, Zenon
<1>13. ASSUME NEW l \in AllLoops, NEW c \in Calls, ReturnAsync(l, c)
       PROVE  [Contract!Next]_(Contract!vars)
  <2>1. /\ Run("handle", c) /\ UNCHANGED <<plan, phase, told>> /\ state' = state
        /\ c \notin Sync
    BY <1>13 DEF ReturnAsync, Handling, Handle, Run
  <2>2. \/ first' = first
        \/ \E a \in Answers : RespondOnce(c, a)
    BY <1>13 DEF ReturnAsync
  <2>3. ASSUME NEW a \in Answers, RespondOnce(c, a), responded[c] = "none" PROVE first' = first
    BY <2>3 DEF RespondOnce, AnswersFirst
  <2> QED
    BY <1>1, <1>10, <2>1, <2>2, <2>3
<1>14. ASSUME NEW l \in AllLoops, RunCallback(l) PROVE [Contract!Next]_(Contract!vars)
  <2>1. running[l].kind = "callback" /\ running[l] \in Task
    BY <1>0, <1>14, TaskFacts DEF RunCallback, Typed
  <2>2. PICK c \in Calls, o \in Answers \cup {"timeout"} :
          running[l].call = c /\ running[l].outcome = o
    BY <2>1, TaskFacts, Zenon
  <2>3. Run("callback", c) /\ Valid(c, o)
    <3>1. Valid(running[l].call, running[l].outcome)
      BY <2>1, Zenon DEF Inv, Carried
    <3> QED
      BY <2>1, <2>2, <3>1 DEF Run
  <2>4. /\ UNCHANGED <<plan, phase, state, first>>
        /\ told' = [told EXCEPT ![c] = Append(@, o)]
    BY <1>14, <2>2 DEF RunCallback, callVars, handlerVars
  <2>5. phase[c] \notin {"new", "begun", "refused"} /\ told[c] = <<>>
    BY <1>0, <2>3, Zenon DEF CallInv, Flow, Progress
  <2>6. Stage' = Stage
    BY <2>4 DEF Stage
  <2> QED
    BY <2>2, <2>3, <2>4, <2>5, <2>6, Tells, Zenon
<1>15. ASSUME NEW l \in AllLoops, Take(l) \/ CloseLoop(l) \/ StopService(l)
       PROVE  [Contract!Next]_(Contract!vars)
  <2>1. UNCHANGED <<plan, phase, first, told>> /\ state' = state
    BY <1>15, Zenon DEF Take, CloseLoop, StopService, callVars, handlerVars
  <2> QED
    BY <1>1, <2>1
<1>16. CASE UNCHANGED vars
  BY <1>1, <1>16 DEF vars, callVars, handlerVars
<1>17. \A l \in Loops : l \in AllLoops
  BY DEF AllLoops
<1> QED
  BY <1>2, <1>3, <1>4, <1>5, <1>6, <1>7, <1>8, <1>9, <1>11, <1>12, <1>13, <1>14, <1>15,
     <1>16, <1>17, Zenon DEF Next, StopStep, CallStep, TimerStep, LoopStep

\* Calls keep their contract: a call that returned an error is told nothing, and
\* every other is told one outcome at most, the first answer of the called service,
\* a timeout, or for CallServiceSync ErrNodeStopped once Stop was called
\* (node.go:629-632, 681-701, 765-793, 881-890; service.go:16-17).
THEOREM Implements == Spec => KeepsContract
<1>1. Init => Contract!Init
  <2>1. SUFFICES ASSUME Init PROVE Contract!Init
    OBVIOUS
  <2>2. TypeOK
    BY <2>1, InitInv DEF Inv
  <2>3. Sync \in SUBSET Calls
    BY <2>2, PlanType DEF Sync
  <2>4. Stage = [c \in Calls |-> "idle"] /\ (state # "Running") = FALSE
    BY <2>1 DEF Init, Stage
  <2> QED
    BY <2>1, <2>3, <2>4 DEF Init, Contract!Init, Stage
<1>2. Inv /\ [Next]_vars => [Contract!Next]_(Contract!vars)
  BY ContractStep
<1> QED
  BY <1>1, <1>2, Invariance, PTL DEF Spec, KeepsContract, Contract!Spec
=============================================================================
