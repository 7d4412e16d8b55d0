---------------------- MODULE NodeLifecycleStartProofs ----------------------
(***************************************************************************)
(* Proofs about the life of the main Node, first part: the calls of Start  *)
(* and Stop exclude each other, every task that waits in a Loop is one     *)
(* that somebody waits for, and each step of Start leaves every Service at *)
(* a stage that matches the progress of the call.                          *)
(***************************************************************************)
EXTENDS NodeLifecycle, TLAPS

\* The labels of Start, those at which Start works on a Service, and those that
\* Stop and rollbackStart share.
Rising == {"loop", "starting", "undoing", "undone", "registering", "subscribing"}
Withdrawing == {"unregister", "unregistering"}
Halting == {"stop", "stopping", "stopped"}
Falling == Withdrawing \cup Halting \cup {"network", "close", "closing", "finish"}
Labels == Rising \cup Falling \cup {"idle", "returned", "control", "server", "run"}

Busy(c) == pc[c] \notin {"idle", "returned"}

-----------------------------------------------------------------------------
(* Where a Service can be between two steps of Start or Stop *)

\* Nobody can find s.
Hidden(s) == s \notin registered /\ s \notin registry

Count(s, starts, stops) == calls[s].start = starts /\ calls[s].stop = stops

Fresh(s) == loop[s] = "new" /\ s \notin started /\ Hidden(s) /\ Count(s, 0, 0)
Lone(s) == loop[s] = "running" /\ s \in started /\ Hidden(s) /\ Count(s, 1, 0)
Gone(s) == loop[s] = "ended" /\ s \notin started /\ Hidden(s) /\ Count(s, 1, 1)
Up(s) ==
  /\ loop[s] = "running" /\ s \in started
  /\ s \in registered /\ s \in registry /\ Count(s, 1, 0)

Quiet(s) == Fresh(s) \/ Gone(s)
Withdrawn(s) == Quiet(s) \/ Lone(s)
Whole(s) == Withdrawn(s) \/ Up(s)

-----------------------------------------------------------------------------
(* The invariant *)

\* Who is at work in which state of the Node.
LifeInv ==
  /\ life = "Starting" => Busy(Starter)
  /\ life = "Stopping" => \E c \in Stoppers : lock = {c} /\ Busy(c)
  /\ Busy(Starter) => life = "Starting"
  /\ \A c \in Stoppers : Busy(c) => life = "Stopping" /\ lock = {c} /\ pc[c] \in Falling

\* The state of a Node at which nobody is at work.
RestInv ==
  /\ life \in {"unborn", "building", "refused", "Initial"} =>
       /\ \A s \in Order : Fresh(s)
       /\ loop[Control] = "new" /\ server = "down"
  /\ life = "Running" =>
       (\A s \in Order : Up(s)) /\ loop[Control] = "running"
  /\ life = "Stopped" =>
       /\ \A s \in Order : Quiet(s)
       /\ loop[Control] \in {"new", "ended"} /\ server = "down"

\* The control Loop and the server when c is at work.
NodeStage(c) ==
  /\ pc[c] = "control" => loop[Control] = "new" /\ server = "down"
  /\ pc[c] = "server" => server = "down"
  /\ pc[c] \in Rising \cup Withdrawing \cup {"server", "run", "network", "close"} =>
       loop[Control] = "running"
  /\ pc[c] = "closing" => loop[Control] \in {"closing", "ended"}
  /\ pc[c] \in Halting \cup {"finish"} => loop[Control] = "ended"
  /\ pc[c] \in Halting \cup {"close", "closing", "finish"} => server = "down"
  /\ pc[c] \in Rising \cup {"unregistering", "stopping", "stopped"} => at \in Order

\* One answer has come, or not yet.
Answered(c) == IF done[c] = "none" THEN 0 ELSE 1

\* The Service s that c is at.
Here(c, s) ==
  /\ pc[c] = "loop" => Fresh(s)
  /\ pc[c] \in {"starting", "undoing", "undone"} => s \notin started /\ Hidden(s)
  /\ pc[c] \in {"starting", "undoing", "registering", "unregistering", "stopping"} =>
       loop[s] = "running"
  /\ pc[c] = "starting" => Count(s, Answered(c), 0)
  /\ pc[c] \in {"undoing", "stopping"} => Count(s, 1, Answered(c))
  /\ pc[c] \in {"undone", "stopped"} =>
       loop[s] \in {"closing", "ended"} /\ Count(s, 1, 1)
  /\ pc[c] \in {"registering", "unregistering"} => s \in started /\ Count(s, 1, 0)
  /\ pc[c] = "registering" =>
       s \notin registered /\ (s \in registry <=> done[c] = "ok")
  /\ pc[c] = "unregistering" =>
       s \in registered /\ (s \in registry <=> done[c] = "none")
  /\ pc[c] = "subscribing" => Up(s)
  /\ pc[c] = "unregister" => Whole(s)
  /\ pc[c] = "stop" => Withdrawn(s)
  /\ pc[c] \in {"stopping", "stopped"} => s \in started /\ Hidden(s)

\* A Service s that c is past, or has before it.
There(c, s) ==
  /\ pc[c] \in Rising => (s < at => Up(s)) /\ (s > at => Fresh(s))
  /\ pc[c] \in Withdrawing => (s < at => Whole(s)) /\ (s > at => Withdrawn(s))
  /\ pc[c] \in Halting => (s < at => Withdrawn(s)) /\ (s > at => Quiet(s))

\* Any Service s when c works on none.
Anywhere(c, s) ==
  /\ pc[c] \in {"control", "server"} => Fresh(s)
  /\ pc[c] = "run" => Up(s)
  /\ pc[c] \in {"network", "close", "closing"} => Withdrawn(s)
  /\ pc[c] = "finish" => Quiet(s)

ServiceStage(c, s) == Anywhere(c, s) /\ There(c, s) /\ (s = at => Here(c, s))

StageInv ==
  \A c \in Callers : NodeStage(c) /\ \A s \in Order : ServiceStage(c, s)

\* Caller c waits for what it has posted to Loop l.
Waits(c, l, what) ==
  \/ pc[c] = "starting" /\ l = at /\ what = "start"
  \/ pc[c] \in {"undoing", "stopping"} /\ l = at /\ what = "stop"
  \/ pc[c] = "registering" /\ l = Control /\ what = "register"
  \/ pc[c] = "unregistering" /\ l = Control /\ what = "unregister"
  \/ pc[c] = "subscribing" /\ l = Control /\ what = "subscribe"

\* Task i of Loop l is a message or a handler's.
Handlers(l, i) ==
  queue[l][i].from \in Order /\ queue[l][i].do \in {"message", "subscribe"}

\* A caller waits for task i of Loop l.
Awaited(l, i) ==
  /\ queue[l][i].from \in Callers /\ done[queue[l][i].from] = "none"
  /\ Waits(queue[l][i].from, l, queue[l][i].do)

Sole(l, i) == \A j \in DOMAIN queue[l] : queue[l][j].from = queue[l][i].from => j = i

\* A task in a queue is a handler's, or a caller waits for it and for no other.
TaskInv ==
  \A l \in Loops : \A i \in DOMAIN queue[l] : Handlers(l, i) \/ (Awaited(l, i) /\ Sole(l, i))

\* The loggers.
LoggerInv ==
  /\ life = "unborn" => process = "previous" /\ own = "none"
  /\ life = "refused" => process # "ours" /\ own # "open"
  /\ life = "Stopped" => own # "open"
  /\ own = "closed" => life \in {"refused", "Stopped"}

\* Who has been told that the Node is down.
ResultInv ==
  /\ \A c \in Stoppers : result[c] \in {"nil", "done"} => life = "Stopped"
  /\ result[Starter] = "err" => life = "Stopped"

-----------------------------------------------------------------------------
(* Types *)

Ops == {"start", "stop", "register", "unregister", "subscribe", "message"}
Tasks == [do : Ops, from : Callers \cup Order]

Shape ==
  /\ input \in Inputs
  /\ life \in {"unborn", "building", "refused", "Initial", "Starting", "Running",
               "Stopping", "Stopped"}
  /\ pc \in [Callers -> Labels]
  /\ at \in 0..LastService
  /\ loop \in [Loops -> {"new", "running", "closing", "ended"}]
  /\ queue \in [Loops -> Seq(Tasks)]
  /\ done \in [Callers \cup Order -> {"none", "ok", "err"}]
  /\ started \subseteq Order /\ registered \subseteq Order /\ registry \subseteq Order
  /\ calls \in [Order -> [start : Nat, stop : Nat]]
  /\ handler \in [Order -> {"idle", "subscribe", "wait"}]
  /\ result \in [Callers -> Answers]

Inv == LifeInv /\ RestInv /\ StageInv /\ TaskInv /\ LoggerInv /\ ResultInv

-----------------------------------------------------------------------------
(* The Services and the queues *)

\* The Services of the input are numbered from 1 on.
LEMMA Numbered ==
  ASSUME input \in Inputs
  PROVE  LastService \in Nat /\ Order = 1..LastService
<1>1. input.factories \in Seq({"ok", "relogs", "fails"})
  BY LifeAssumption
<1>2. Order = 1..Len(input.factories) /\ Len(input.factories) \in Nat
  BY <1>1 DEF Order
<1> QED
  BY <1>2 DEF LastService

\* The control Loop is not a Service's, and Services are not callers.
LEMMA Apart ==
  ASSUME input \in Inputs
  PROVE  /\ Control \in Loops /\ Control \notin Order /\ Order \subseteq Loops
         /\ \A s \in Order : s \in Int /\ s > 0 /\ s \notin Callers
         /\ Starter \in Callers /\ Stoppers \subseteq Callers
<1>1. \A s \in Order : s \in Int /\ s > 0
  BY Numbered
<1>2. Control \notin Order
  BY <1>1 DEF Control
<1> QED
  BY <1>1, <1>2, LifeAssumption, Zenon DEF Loops, Callers

\* No step changes the input, so the Services and the Loops stay the same.
LEMMA Fixed ==
  ASSUME [Next]_vars
  PROVE  input' = input /\ Order' = Order /\ Loops' = Loops /\ LastService' = LastService
<1>1. CASE UNCHANGED vars
  BY <1>1, Zenon DEF vars, birthVars, Order, Loops, LastService
<1>2. ASSUME Next PROVE input' = input
  BY <1>2, Zenon DEF Next, birthVars, BuildNext, NewNode, Built, BuildService, Start, StartNext,
     StartControl, StartServer, StartService, ServiceStarted, ServiceUndone, ServiceGivenUp,
     ServiceRegistered, ServiceSubscribed, StartReturns, LoopNext, RegisterTask,
     UnregisterTask, SubscribeTask, StartTask, StopTask, Handle, HandlerSubscribes,
     HandlerReturns, LoopEnds, Stop, TearDown, Unregister, Unregistered, CloseNetwork,
     CloseControl, ControlClosed, StopService, ServiceStopped, ServiceLoopClosed, Finish,
     Message
<1> QED
  BY <1>1, <1>2, Zenon DEF Order, Loops, LastService

\* What posting a task to a Loop does to the queues.
LEMMA Posting ==
  ASSUME Shape, NEW l \in Loops, NEW what \in Ops, NEW c \in Callers \cup Order,
         Post(l, [do |-> what, from |-> c])
  PROVE  /\ queue' \in [Loops -> Seq(Tasks)]
         /\ \A m \in Loops : m # l => queue'[m] = queue[m]
         /\ \A i \in DOMAIN queue'[l] :
              \/ i \in DOMAIN queue[l] /\ queue'[l][i] = queue[l][i]
              \/ i = Len(queue[l]) + 1 /\ queue'[l][i] = [do |-> what, from |-> c]
<1>1. queue \in [Loops -> Seq(Tasks)] /\ queue[l] \in Seq(Tasks)
  BY DEF Shape
<1>2. [do |-> what, from |-> c] \in Tasks
  BY DEF Tasks
<1>3. queue' = [queue EXCEPT ![l] = Append(queue[l], [do |-> what, from |-> c])]
  BY DEF Post
<1> DEFINE long == Append(queue[l], [do |-> what, from |-> c])
<1>4. /\ long \in Seq(Tasks)
      /\ \A i \in DOMAIN long :
           \/ i \in DOMAIN queue[l] /\ long[i] = queue[l][i]
           \/ i = Len(queue[l]) + 1 /\ long[i] = [do |-> what, from |-> c]
  BY <1>1, <1>2
<1>5. queue'[l] = long /\ \A m \in Loops : m # l => queue'[m] = queue[m]
  BY <1>1, <1>3
<1>6. queue' \in [Loops -> Seq(Tasks)]
  <2> HIDE DEF long
  <2> QED BY <1>1, <1>3, <1>4 DEF long
<1> HIDE DEF long
<1> QED
  BY <1>4, <1>5, <1>6, Zenon DEF long

\* What a Loop does to the queues when it takes a task.
LEMMA Taking ==
  ASSUME Shape, NEW l \in Loops, NEW what, Takes(l, what)
  PROVE  /\ queue' \in [Loops -> Seq(Tasks)]
         /\ \A m \in Loops : m # l => queue'[m] = queue[m]
         /\ 1 \in DOMAIN queue[l] /\ queue[l][1].do = what /\ queue[l][1].from = Asker(l)
         /\ Asker(l) \in Callers \cup Order
         /\ \A i \in DOMAIN queue'[l] :
              /\ i \in Int /\ i + 1 # 1
              /\ i + 1 \in DOMAIN queue[l] /\ queue'[l][i] = queue[l][i + 1]
<1>1. queue \in [Loops -> Seq(Tasks)] /\ queue[l] \in Seq(Tasks) /\ queue[l] # <<>>
  BY DEF Shape, Takes
<1>2. queue' = [queue EXCEPT ![l] = Tail(queue[l])] /\ Head(queue[l]).do = what
  BY DEF Takes
<1>3. Tail(queue[l]) \in Seq(Tasks)
  BY <1>1
<1>4. /\ 1 \in DOMAIN queue[l] /\ queue[l][1] = Head(queue[l]) /\ queue[l][1] \in Tasks
      /\ \A i \in DOMAIN Tail(queue[l]) :
              /\ i \in Int /\ i + 1 # 1
              /\ i + 1 \in DOMAIN queue[l] /\ Tail(queue[l])[i] = queue[l][i + 1]
  BY <1>1
<1>5. queue'[l] = Tail(queue[l]) /\ \A m \in Loops : m # l => queue'[m] = queue[m]
  BY <1>1, <1>2
<1>6. queue' \in [Loops -> Seq(Tasks)]
  BY <1>1, <1>2, <1>3
<1>7. queue[l][1].from \in Callers \cup Order
  BY <1>4 DEF Tasks
<1> QED
  BY <1>2, <1>4, <1>5, <1>6, <1>7, Zenon DEF Asker

-----------------------------------------------------------------------------
(* Types *)

CallTypes ==
  /\ life \in {"unborn", "building", "refused", "Initial", "Starting", "Running",
               "Stopping", "Stopped"}
  /\ pc \in [Callers -> Labels]
  /\ at \in 0..LastService
  /\ result \in [Callers -> Answers]

LoopTypes ==
  /\ loop \in [Loops -> {"new", "running", "closing", "ended"}]
  /\ queue \in [Loops -> Seq(Tasks)]
  /\ done \in [Callers \cup Order -> {"none", "ok", "err"}]

ServiceTypes ==
  /\ started \subseteq Order /\ registered \subseteq Order /\ registry \subseteq Order
  /\ calls \in [Order -> [start : Nat, stop : Nat]]
  /\ handler \in [Order -> {"idle", "subscribe", "wait"}]

\* The types, in parts that steps leave alone together.
LEMMA ShapeParts == Shape <=> input \in Inputs /\ CallTypes /\ LoopTypes /\ ServiceTypes
  BY Zenon DEF Shape, CallTypes, LoopTypes, ServiceTypes

\* A step that leaves the calls, the Loops or the Services alone keeps their types.
LEMMA CallTypesKept ==
  ASSUME CallTypes, LastService' = LastService, UNCHANGED <<life, pc, at, result>>
  PROVE  CallTypes'
  BY Zenon DEF CallTypes

\* Likewise for the Services.
LEMMA ServiceTypesKept ==
  ASSUME ServiceTypes, Order' = Order, UNCHANGED <<serviceVars, handler>>
  PROVE  ServiceTypes'
  BY Zenon DEF ServiceTypes, serviceVars

\* Likewise for the Loops.
LEMMA LoopTypesKept ==
  ASSUME LoopTypes, Order' = Order, Loops' = Loops, UNCHANGED loopVars
  PROVE  LoopTypes'
  BY Zenon DEF LoopTypes, loopVars, Tasks

\* callOnLoop keeps the types of the Loops.
LEMMA CallingTypes ==
  ASSUME Shape, Order' = Order, Loops' = Loops, NEW c \in Callers \cup Order,
         NEW l \in Loops, NEW what \in Ops, callOnLoop(c, l, what)
  PROVE  LoopTypes'
<1>1. LoopTypes
  BY ShapeParts
<1>2. queue' \in [Loops -> Seq(Tasks)]
  BY Posting, Zenon DEF callOnLoop
<1>3. loop' = loop /\ done' \in [Callers \cup Order -> {"none", "ok", "err"}]
  BY <1>1 DEF callOnLoop, LoopTypes
<1> QED
  BY <1>1, <1>2, <1>3, Zenon DEF LoopTypes, Tasks

\* NewNode keeps the types.
LEMMA BuildTypes ==
  ASSUME Shape, BuildNext, Order' = Order, Loops' = Loops, LastService' = LastService
  PROVE  CallTypes' /\ LoopTypes' /\ ServiceTypes'
<1>1. CallTypes /\ LoopTypes /\ ServiceTypes
  BY ShapeParts
<1>2. UNCHANGED <<loopVars, serviceVars, handler>>
  BY Zenon DEF BuildNext, NewNode, BuildService, Built, handlerVars
<1>3. /\ UNCHANGED <<pc, at, result>>
      /\ life' \in {"building", "refused", "Initial"} \/ life' = life
  BY Zenon DEF BuildNext, NewNode, BuildService, Built
<1>4. CallTypes'
  BY <1>1, <1>3, Zenon DEF CallTypes
<1> QED
  BY <1>1, <1>2, <1>4, LoopTypesKept, ServiceTypesKept, Zenon

\* Start keeps the types.
LEMMA StartTypes ==
  ASSUME Shape, Start \/ StartNext, Order' = Order, Loops' = Loops,
         LastService' = LastService, \A c \in Callers : NodeStage(c)
  PROVE  CallTypes' /\ LoopTypes' /\ ServiceTypes'
<1>a. CallTypes /\ LoopTypes /\ ServiceTypes /\ input \in Inputs
  BY ShapeParts
<1>b. /\ Starter \in Callers /\ Control \in Loops /\ Order \subseteq Loops
      /\ LastService \in Nat /\ Order = 1..LastService
  BY <1>a, Apart, Numbered, Zenon
<1>c. pc[Starter] \in Rising => at \in Order
  BY <1>b, Zenon DEF NodeStage
<1>d. CallTypes'
  <2>1. CASE Start
    BY <2>1, <1>a, <1>b DEF Start, Goto, CallTypes, Labels, Answers
  <2>2. CASE StartControl \/ StartService \/ ServiceStarted \/ ServiceUndone
    BY <2>2, <1>a, <1>b DEF StartControl, StartService, ServiceStarted, ServiceUndone,
       UndoStart, Goto, CallTypes, Labels, Rising
  <2>3. CASE StartServer \/ ServiceGivenUp \/ ServiceRegistered
    BY <2>3, <1>a, <1>b DEF StartServer, ServiceGivenUp, ServiceRegistered,
       rollbackStart, Goto, CallTypes, Labels, Rising, Falling, Withdrawing
  <2>4. CASE ServiceSubscribed \/ StartReturns
    BY <2>4, <1>a, <1>b DEF ServiceSubscribed, StartReturns, rollbackStart, Goto,
       CallTypes, Labels, Rising, Falling, Withdrawing, Answers
  <2> QED
    BY <2>1, <2>2, <2>3, <2>4, Zenon DEF StartNext
<1>e. ServiceTypes'
  <2>1. CASE \/ Start \/ StartControl \/ StartServer \/ StartService \/ ServiceUndone
             \/ ServiceGivenUp \/ ServiceSubscribed \/ StartReturns
    <3>1. UNCHANGED <<serviceVars, handler>>
      BY <2>1, Zenon DEF Start, StartControl, StartServer, StartService, ServiceUndone,
         ServiceGivenUp, ServiceSubscribed, StartReturns, handlerVars
    <3> QED
      BY <3>1, <1>a, ServiceTypesKept, Zenon
  <2>2. CASE ServiceStarted \/ ServiceRegistered
    <3>1. at \in Order
      BY <2>2, <1>c, Zenon DEF ServiceStarted, ServiceRegistered, Rising
    <3>2. /\ started' = started \/ started' = started \cup {at}
          /\ registered' = registered \/ registered' = registered \cup {at}
          /\ UNCHANGED <<registry, calls, handler>>
      BY <2>2, Zenon DEF ServiceStarted, ServiceRegistered, handlerVars
    <3> QED
      BY <3>1, <3>2, <1>a, Zenon DEF ServiceTypes
  <2> QED
    BY <2>1, <2>2, Zenon DEF StartNext
<1>f. LoopTypes'
  <2>1. CASE Start \/ StartServer \/ ServiceGivenUp \/ ServiceSubscribed \/ StartReturns
    <3>1. UNCHANGED loopVars
      BY <2>1, Zenon DEF Start, StartServer, ServiceGivenUp, ServiceSubscribed, StartReturns
    <3> QED
      BY <3>1, <1>a, LoopTypesKept, Zenon
  <2>2. CASE StartControl \/ ServiceUndone
    <3>1. UNCHANGED <<queue, done>> /\ \E l \in Loops, v \in {"running", "closing"} :
            loop' = [loop EXCEPT ![l] = v]
      BY <2>2, <1>b, <1>c, Zenon DEF StartControl, ServiceUndone, Close, Rising
    <3> QED
      BY <3>1, <1>a DEF LoopTypes, Tasks
  <2>3. CASE StartService
    <3>1. at \in Loops /\ Post(at, [do |-> "start", from |-> Starter])
      BY <2>3, <1>b, <1>c, Zenon DEF StartService, Rising
    <3>2. queue' \in [Loops -> Seq(Tasks)]
      BY <3>1, <1>b, Posting, Zenon DEF Ops
    <3>3. /\ loop' \in [Loops -> {"new", "running", "closing", "ended"}]
          /\ done' \in [Callers \cup Order -> {"none", "ok", "err"}]
      BY <2>3, <3>1, <1>a DEF StartService, LoopTypes
    <3> QED
      BY <3>2, <3>3, Zenon DEF LoopTypes, Tasks
  <2>4. CASE ServiceStarted \/ ServiceRegistered
    <3>1. \/ UNCHANGED loopVars
          \/ \E l \in Loops, what \in Ops : callOnLoop(Starter, l, what)
      BY <2>4, <1>b, <1>c, Zenon DEF ServiceStarted, ServiceRegistered, UndoStart, Rising,
         Ops
    <3> QED
      BY <3>1, <1>a, <1>b, CallingTypes, LoopTypesKept, Zenon
  <2> QED
    BY <2>1, <2>2, <2>3, <2>4, Zenon DEF StartNext
<1> QED
  BY <1>d, <1>e, <1>f

\* Stop and rollbackStart keep the types.
LEMMA StopTypes ==
  ASSUME Shape, NEW c \in Callers, Stop(c) \/ TearDown(c), Order' = Order, Loops' = Loops,
         LastService' = LastService, NodeStage(c)
  PROVE  CallTypes' /\ LoopTypes' /\ ServiceTypes'
<1>a. CallTypes /\ LoopTypes /\ ServiceTypes /\ input \in Inputs
  BY ShapeParts
<1>b. /\ Control \in Loops /\ Order \subseteq Loops
      /\ LastService \in Nat /\ Order = 1..LastService
  BY <1>a, Apart, Numbered, Zenon
<1>c. pc[c] \in {"unregistering", "stopping", "stopped"} => at \in Order
  BY Zenon DEF NodeStage
<1>g. at > 0 => at \in Order
  BY <1>a, <1>b DEF CallTypes
<1>d. CallTypes'
  <2>1. CASE Stop(c)
    BY <2>1, <1>a, <1>b DEF Stop, Goto, CallTypes, Labels, Falling, Withdrawing, Answers
  <2>2. CASE Unregister(c) \/ Unregistered(c) \/ CloseNetwork(c) \/ CloseControl(c)
    BY <2>2, <1>a, <1>b, <1>c DEF Unregister, Unregistered, CloseNetwork, CloseControl, Goto,
       CallTypes, Labels, Falling, Withdrawing
  <2>3. CASE \/ ControlClosed(c) \/ StopService(c) \/ ServiceStopped(c)
             \/ ServiceLoopClosed(c)
    BY <2>3, <1>a, <1>b, <1>c DEF ControlClosed, StopService, ServiceStopped,
       ServiceLoopClosed, Goto, CallTypes, Labels, Falling, Halting
  <2>4. CASE Finish(c)
    BY <2>4, <1>a, <1>b DEF Finish, Goto, CallTypes, Labels, Answers
  <2> QED
    BY <2>1, <2>2, <2>3, <2>4, Zenon DEF TearDown
<1>e. ServiceTypes'
  <2>1. /\ started' \subseteq started /\ registered' \subseteq registered
        /\ UNCHANGED <<registry, calls, handler>>
    BY Zenon DEF TearDown, Stop, Unregister, Unregistered, CloseNetwork, CloseControl,
       ControlClosed, StopService, ServiceStopped, ServiceLoopClosed, Finish, serviceVars,
       handlerVars
  <2> QED
    BY <2>1, <1>a, Zenon DEF ServiceTypes
<1>f. LoopTypes'
  <2>1. CASE \/ Stop(c) \/ Unregistered(c) \/ CloseNetwork(c) \/ ControlClosed(c)
             \/ ServiceLoopClosed(c) \/ Finish(c)
    <3>1. UNCHANGED loopVars
      BY <2>1, Zenon DEF Stop, Unregistered, CloseNetwork, ControlClosed, ServiceLoopClosed,
         Finish
    <3> QED
      BY <3>1, <1>a, LoopTypesKept, Zenon
  <2>2. CASE CloseControl(c) \/ ServiceStopped(c)
    <3>1. UNCHANGED <<queue, done>> /\ \E l \in Loops : Close(l)
      BY <2>2, <1>b, <1>c, Zenon DEF CloseControl, CloseControlLoop, ServiceStopped
    <3> QED
      BY <3>1, <1>a DEF LoopTypes, Tasks, Close
  <2>3. CASE Unregister(c) \/ StopService(c)
    <3>1. UNCHANGED loopVars \/ \E l \in Loops, what \in Ops : callOnLoop(c, l, what)
      BY <2>3, <1>b, <1>g, Zenon DEF Unregister, StopService, Ops
    <3> QED
      BY <3>1, <1>a, CallingTypes, LoopTypesKept, Zenon
  <2> QED
    BY <2>1, <2>2, <2>3, Zenon DEF TearDown
<1> QED
  BY <1>d, <1>e, <1>f

\* The answer to a task keeps the types of the Loops.
LEMMA AnswerTypes ==
  ASSUME Shape, Order' = Order, Loops' = Loops, NEW l \in Loops, NEW what, Takes(l, what),
         loop' = loop, done' = done \/ \E answer \in {"ok", "err"} : Answer(Asker(l), answer)
  PROVE  LoopTypes'
<1>1. LoopTypes
  BY ShapeParts
<1>2. queue' \in [Loops -> Seq(Tasks)] /\ Asker(l) \in Callers \cup Order
  BY Taking, Zenon
<1>3. done' \in [Callers \cup Order -> {"none", "ok", "err"}]
  BY <1>1, <1>2 DEF LoopTypes, Answer
<1> QED
  BY <1>1, <1>2, <1>3, Zenon DEF LoopTypes, Tasks

\* The Loops keep the types.
LEMMA TaskTypes ==
  ASSUME Shape, LoopNext \/ \E s \in Order : Message(s), Order' = Order, Loops' = Loops,
         LastService' = LastService, RegisterTask => at \in Order
  PROVE  CallTypes' /\ LoopTypes' /\ ServiceTypes'

<1>a. CallTypes /\ LoopTypes /\ ServiceTypes /\ input \in Inputs
  BY ShapeParts
<1>b. Control \in Loops /\ Order \subseteq Loops /\ \A s \in Order : s \in Loops
  BY <1>a, Apart, Zenon
<1>c. CallTypes'
  <2>1. UNCHANGED <<life, pc, at, result>>
    BY Zenon DEF LoopNext, RegisterTask, UnregisterTask, SubscribeTask, StartTask, StopTask,
       Handle, HandlerSubscribes, HandlerReturns, LoopEnds, Message
  <2> QED
    BY <2>1, <1>a, CallTypesKept, Zenon
<1>d. LoopTypes'
  <2>1. CASE RegisterTask \/ UnregisterTask \/ SubscribeTask
    <3>1. loop' = loop /\ \E what : Takes(Control, what)
      BY <2>1, Zenon DEF RegisterTask, UnregisterTask, SubscribeTask
    <3>2. \E answer \in {"ok", "err"} : Answer(Asker(Control), answer)
      BY <2>1, Zenon DEF RegisterTask, UnregisterTask, SubscribeTask
    <3> QED
      BY <3>1, <3>2, <1>b, AnswerTypes, Zenon
  <2>2. ASSUME NEW s \in Order, StartTask(s) \/ StopTask(s) \/ Handle(s) PROVE LoopTypes'
    <3>1. loop' = loop /\ \E what : Takes(s, what)
      BY <2>2, Zenon DEF StartTask, StopTask, Handle
    <3>2. done' = done \/ \E answer \in {"ok", "err"} : Answer(Asker(s), answer)
      BY <2>2, Zenon DEF StartTask, StopTask, Handle
    <3> QED
      BY <3>1, <3>2, <1>b, AnswerTypes, Zenon
  <2>3. ASSUME NEW s \in Order, HandlerSubscribes(s) PROVE LoopTypes'
    BY <2>3, <1>b, CallingTypes, Zenon DEF HandlerSubscribes, Ops
  <2>4. ASSUME NEW s \in Order, HandlerReturns(s) PROVE LoopTypes'
    BY <2>4, <1>a DEF HandlerReturns, LoopTypes, Tasks
  <2>5. ASSUME NEW l \in Loops, LoopEnds(l) PROVE LoopTypes'
    BY <2>5, <1>a DEF LoopEnds, LoopTypes, Tasks
  <2>6. ASSUME NEW s \in Order, Message(s) PROVE LoopTypes'
    <3>1. queue' \in [Loops -> Seq(Tasks)]
      BY <2>6, <1>b, Posting, Zenon DEF Message, Ops
    <3> QED
      BY <3>1, <2>6, <1>a, Zenon DEF Message, LoopTypes, Tasks
  <2> QED
    BY <2>1, <2>2, <2>3, <2>4, <2>5, <2>6, Zenon DEF LoopNext
<1>e. ServiceTypes'
  <2>1. CASE RegisterTask \/ UnregisterTask
    BY <2>1, <1>a, Zenon DEF RegisterTask, UnregisterTask, ServiceTypes, handlerVars
  <2>2. CASE SubscribeTask \/ (\E l \in Loops : LoopEnds(l)) \/ \E s \in Order : Message(s)
    BY <2>2, <1>a, ServiceTypesKept, Zenon DEF SubscribeTask, LoopEnds, Message, handlerVars
  <2>3. ASSUME NEW s \in Order, StartTask(s) \/ StopTask(s) PROVE ServiceTypes'
    <3>1. calls' \in [Order -> [start : Nat, stop : Nat]]
      BY <2>3, <1>a DEF StartTask, StopTask, ServiceTypes
    <3> QED
      BY <3>1, <2>3, <1>a, Zenon DEF StartTask, StopTask, ServiceTypes, handlerVars
  <2>4. ASSUME NEW s \in Order, Handle(s) \/ HandlerSubscribes(s) \/ HandlerReturns(s)
        PROVE  ServiceTypes'
    <3>1. handler' \in [Order -> {"idle", "subscribe", "wait"}]
      BY <2>4, <1>a DEF Handle, HandlerSubscribes, HandlerReturns, ServiceTypes
    <3> QED
      BY <3>1, <2>4, <1>a, Zenon DEF Handle, HandlerSubscribes, HandlerReturns,
         ServiceTypes, serviceVars
  <2> QED
    BY <2>1, <2>2, <2>3, <2>4, Zenon DEF LoopNext
<1> QED
  BY <1>c, <1>d, <1>e

-----------------------------------------------------------------------------
(* Who is at work *)

\* Of the callers one at most is at work.
LEMMA Alone ==
  ASSUME LifeInv, NEW c \in Callers, Busy(c), NEW q \in Callers, q # c
  PROVE  ~Busy(q)
<1>1. c \in Stoppers => life = "Stopping" /\ lock = {c}
  BY Zenon DEF LifeInv
<1>2. Busy(q) /\ q \in Stoppers => life = "Stopping" /\ lock = {q}
  BY Zenon DEF LifeInv
<1>3. (c \in Stoppers /\ q \in Stoppers) \/ c = Starter \/ q = Starter
  BY Zenon DEF Callers
<1>4. Busy(Starter) => life = "Starting"
  BY Zenon DEF LifeInv
<1> QED
  BY <1>1, <1>2, <1>3, <1>4, Zenon DEF Callers

\* The caller that is at work goes on.
LEMMA GoesOn ==
  ASSUME Shape, LifeInv, NEW c \in Callers, Busy(c), UNCHANGED <<life, lock>>, NEW label,
         label \notin {"idle", "returned"}, c # Starter => label \in Falling,
         Goto(c, label) \/ pc' = pc
  PROVE  LifeInv'
<1>1. pc \in [Callers -> Labels]
  BY Zenon DEF Shape
<1>2. CASE pc' = pc
  BY <1>2, Zenon DEF LifeInv, Busy
<1>3. CASE Goto(c, label)
  <2>1. pc'[c] = label /\ \A q \in Callers : q # c => pc'[q] = pc[q]
    BY <1>1, <1>3, Zenon DEF Goto
  <2>2. \A q \in Callers : Busy(q)' <=> Busy(q)
    BY <2>1, Zenon DEF Busy
  <2>3. Starter \in Callers /\ \A q \in Stoppers : q \in Callers
    BY Zenon DEF Callers
  <2>4. \A q \in Stoppers : Busy(q)' => life' = "Stopping" /\ lock' = {q} /\ pc'[q] \in Falling
    BY <2>1, <2>2, <2>3, LifeAssumption, Zenon DEF LifeInv
  <2> QED
    BY <2>2, <2>3, <2>4, Zenon DEF LifeInv
<1> QED
  BY <1>2, <1>3

\* Who is at work after a step.
LEMMA LifeStep ==
  ASSUME Shape, LifeInv, [Next]_vars
  PROVE  LifeInv'
<1>a. /\ pc \in [Callers -> Labels] /\ Starter \in Callers /\ Starter \notin Stoppers
      /\ \A q \in Stoppers : q \in Callers
  BY LifeAssumption, Zenon DEF Shape, Callers
<1>1. ASSUME UNCHANGED <<life, lock, pc>> PROVE LifeInv'
  BY <1>1, Zenon DEF LifeInv, Busy
<1>2. CASE \/ UNCHANGED vars \/ LoopNext \/ \E s \in Order : Message(s)
  <2>1. UNCHANGED <<life, lock, pc>>
    BY <1>2, Zenon DEF vars, LoopNext, RegisterTask, UnregisterTask, SubscribeTask,
       StartTask, StopTask, Handle, HandlerSubscribes, HandlerReturns, LoopEnds, Message
  <2> QED
    BY <2>1, <1>1
<1>3. CASE BuildNext
  <2>1. /\ life \in {"unborn", "building"} /\ UNCHANGED <<lock, pc>>
        /\ life' \in {"unborn", "building", "refused", "Initial"}
    BY <1>3, Zenon DEF BuildNext, NewNode, BuildService, Built
  <2>2. ~Busy(Starter) /\ \A c \in Stoppers : ~Busy(c)
    BY <2>1 DEF LifeInv
  <2> QED
    BY <2>1, <2>2 DEF LifeInv, Busy
<1>4. CASE Start
  <2>1. pc[Starter] = "idle" /\ life \notin {"Starting", "Stopping"}
    <3>1. life \notin {"Starting"}
      BY <1>4, Zenon DEF Start, LifeInv, Busy
    <3>2. life # "Stopping"
      BY <1>4, Zenon DEF Start, LifeInv
    <3> QED
      BY <1>4, <3>1, <3>2, Zenon DEF Start
  <2>2. \A c \in Stoppers : ~Busy(c) /\ pc'[c] = pc[c]
    BY <1>4, <1>a, <2>1, Zenon DEF Start, LifeInv, Goto
  <2>3. \/ life' = "Starting" /\ pc'[Starter] = "control"
        \/ life' = life /\ pc'[Starter] = "returned"
    BY <1>4, <1>a, Zenon DEF Start, Goto
  <2> QED
    BY <2>1, <2>2, <2>3 DEF LifeInv, Busy
<1>5. CASE StartNext
  <2>1. Busy(Starter)
    BY <1>5, Zenon DEF StartNext, StartControl, StartServer, StartService, ServiceStarted,
       ServiceUndone, ServiceGivenUp, ServiceRegistered, ServiceSubscribed, StartReturns,
       Busy
  <2>2. CASE StartReturns
    <3>1. \A c \in Stoppers : ~Busy(c) /\ pc'[c] = pc[c]
      BY <2>1, <2>2, <1>a, Alone, Zenon DEF StartReturns, Goto
    <3>2. life' = "Running" /\ pc'[Starter] = "returned"
      BY <2>2, <1>a, Zenon DEF StartReturns, Goto
    <3> QED
      BY <3>1, <3>2 DEF LifeInv, Busy
  <2>3. CASE ~StartReturns
    <3>1. UNCHANGED <<life, lock>>
      BY <1>5, <2>3, Zenon DEF StartNext, StartControl, StartServer, StartService,
         ServiceStarted, ServiceUndone, ServiceGivenUp, ServiceRegistered, ServiceSubscribed
    <3>2. \E label \in Rising \cup {"server", "unregister", "run"} : Goto(Starter, label)
      BY <1>5, <2>3, Zenon DEF StartNext, StartControl, StartServer, StartService,
         ServiceStarted, ServiceUndone, ServiceGivenUp, ServiceRegistered,
         ServiceSubscribed, UndoStart, rollbackStart, Rising
    <3>3. \A label \in Rising \cup {"server", "unregister", "run"} :
            label \notin {"idle", "returned"}
      BY Zenon DEF Rising
    <3>4. ASSUME NEW label \in Rising \cup {"server", "unregister", "run"},
                 Goto(Starter, label)
          PROVE  LifeInv'
      BY <3>1, <3>3, <3>4, <2>1, <1>a, GoesOn, Zenon
    <3> QED
      BY <3>2, <3>4, Zenon
  <2> QED
    BY <2>2, <2>3
<1>6. ASSUME NEW c \in Stoppers, Stop(c) PROVE LifeInv'
  <2>1. life \notin {"Stopping"} /\ pc[c] = "idle" /\ lock = {}
    BY <1>6, Zenon DEF Stop, LifeInv
  <2>2. \A q \in Stoppers : ~Busy(q)
    BY <2>1, Zenon DEF LifeInv
  <2>3. pc'[Starter] = pc[Starter] /\ \A q \in Stoppers : q # c => pc'[q] = pc[q]
    BY <1>6, <1>a, Zenon DEF Stop, Goto
  <2>4. \/ /\ life \in {"Initial", "Stopped"} /\ life' = "Stopped" /\ pc'[c] = "returned"
        \/ /\ life = "Running" /\ life' = "Stopping" /\ lock' = {c}
           /\ pc'[c] = "unregister"
        \/ /\ life = "Starting" /\ life' = life /\ pc'[c] = "returned"
    BY <1>6, <1>a, Zenon DEF Stop, Goto
  <2>5. Busy(Starter)' <=> Busy(Starter)
    BY <2>3, Zenon DEF Busy
  <2>6. \A q \in Stoppers : Busy(q)' => q = c /\ life = "Running"
    BY <2>2, <2>3, <2>4, Zenon DEF Busy
  <2>7. life = "Running" => Busy(c)' /\ pc'[c] \in Falling
    BY <2>4 DEF Busy, Falling, Withdrawing
  <2>8. Busy(Starter) <=> life = "Starting"
    BY Zenon DEF LifeInv
  <2> QED
    BY <2>4, <2>5, <2>6, <2>7, <2>8, Zenon DEF LifeInv
<1>7. ASSUME NEW c \in Callers, TearDown(c) PROVE LifeInv'
  <2>1. Busy(c)
    BY <1>7, Zenon DEF TearDown, Unregister, Unregistered, CloseNetwork, CloseControl,
       ControlClosed, StopService, ServiceStopped, ServiceLoopClosed, Finish, Busy
  <2>2. CASE Finish(c)
    <3>1. pc'[c] = "returned" /\ \A q \in Callers : q # c => pc'[q] = pc[q]
      BY <2>2, <1>a, Zenon DEF Finish, Goto
    <3>2. \A q \in Callers : ~Busy(q)'
      BY <2>1, <3>1, Alone, Zenon DEF Busy
    <3>3. life' = "Stopped"
      BY <2>2, Zenon DEF Finish
    <3> QED
      BY <3>2, <3>3, <1>a DEF LifeInv
  <2>3. CASE ~Finish(c)
    <3>1. UNCHANGED <<life, lock>>
      BY <1>7, <2>3, Zenon DEF TearDown, Unregister, Unregistered, CloseNetwork,
         CloseControl, ControlClosed, StopService, ServiceStopped, ServiceLoopClosed
    <3>2. pc' = pc \/ \E label \in Falling : Goto(c, label)
      BY <1>7, <2>3, Zenon DEF TearDown, Unregister, Unregistered, CloseNetwork,
         CloseControl, ControlClosed, StopService, ServiceStopped, ServiceLoopClosed,
         Falling, Withdrawing, Halting
    <3>3. \A label \in Falling : label \notin {"idle", "returned"}
      BY Zenon DEF Falling, Withdrawing, Halting
    <3>4. ASSUME NEW label \in Falling, Goto(c, label) \/ pc' = pc PROVE LifeInv'
      BY <3>1, <3>3, <3>4, <2>1, GoesOn, Zenon
    <3> QED
      BY <3>2, <3>4, Zenon DEF Falling
  <2> QED
    BY <2>2, <2>3
<1> QED
  BY <1>2, <1>3, <1>4, <1>5, <1>6, <1>7, Zenon DEF Next

-----------------------------------------------------------------------------
(* The loggers and the results *)

\* A refused NewNode takes its logger back, and Stop and rollbackStart release
\* the Node's own logger in the step in which the Node becomes Stopped.
LEMMA LoggerStep ==
  ASSUME Shape, LifeInv, LoggerInv, [Next]_vars
  PROVE  LoggerInv'
<1>1. ASSUME UNCHANGED <<life, process, own>> PROVE LoggerInv'
  BY <1>1, Zenon DEF LoggerInv
<1>2. CASE \/ UNCHANGED vars \/ LoopNext \/ \E s \in Order : Message(s)
  <2>1. UNCHANGED <<life, process, own>>
    BY <1>2, Zenon DEF vars, birthVars, LoopNext, RegisterTask, UnregisterTask,
       SubscribeTask, StartTask, StopTask, Handle, HandlerSubscribes, HandlerReturns,
       LoopEnds, Message
  <2> QED
    BY <2>1, <1>1
<1>3. CASE NewNode
  BY <1>3 DEF NewNode, LoggerInv
<1>4. ASSUME NEW s \in Order, BuildService(s) PROVE LoggerInv'
  BY <1>4 DEF BuildService, Uninstall, LoggerInv
<1>5. CASE Built
  BY <1>5 DEF Built, birthVars, LoggerInv
<1>6. CASE Start
  BY <1>6 DEF Start, birthVars, LoggerInv
<1>7. CASE StartNext
  <2>1. UNCHANGED <<process, own>> /\ life' \in {life, "Running"}
    BY <1>7, Zenon DEF StartNext, StartControl, StartServer, StartService, ServiceStarted,
       ServiceUndone, ServiceGivenUp, ServiceRegistered, ServiceSubscribed, StartReturns,
       birthVars
  <2>2. Busy(Starter)
    BY <1>7, Zenon DEF StartNext, StartControl, StartServer, StartService, ServiceStarted,
       ServiceUndone, ServiceGivenUp, ServiceRegistered, ServiceSubscribed, StartReturns,
       Busy
  <2>3. life = "Starting"
    BY <2>2, Zenon DEF LifeInv
  <2> QED
    BY <2>1, <2>3 DEF LoggerInv
<1>8. ASSUME NEW c \in Stoppers, Stop(c) PROVE LoggerInv'
  BY <1>8 DEF Stop, releaseLogger, KeepLogger, LoggerInv
<1>9. ASSUME NEW c \in Callers, TearDown(c) PROVE LoggerInv'
  <2>1. \/ UNCHANGED <<life, process, own>>
        \/ life' = "Stopped" /\ releaseLogger /\ UNCHANGED process
    BY <1>9, Zenon DEF TearDown, Unregister, Unregistered, CloseNetwork, CloseControl,
       ControlClosed, StopService, ServiceStopped, ServiceLoopClosed, Finish, birthVars
  <2> QED
    BY <2>1, <1>1 DEF releaseLogger, LoggerInv
<1> QED
  BY <1>2, <1>3, <1>4, <1>5, <1>6, <1>7, <1>8, <1>9, Zenon DEF Next, BuildNext

\* A Node once stopped stays so.
LEMMA StaysStopped ==
  ASSUME LifeInv, life = "Stopped", [Next]_vars
  PROVE  life' = "Stopped"
<1>1. ~Busy(Starter)
  BY Zenon DEF LifeInv
<1>2. CASE BuildNext \/ Start \/ \E c \in Stoppers : Stop(c)
  BY <1>2, Zenon DEF BuildNext, NewNode, BuildService, Built, Start, Stop
<1>3. CASE UNCHANGED vars \/ LoopNext \/ \E s \in Order : Message(s)
  BY <1>3, Zenon DEF vars, LoopNext, RegisterTask, UnregisterTask, SubscribeTask, StartTask,
     StopTask, Handle, HandlerSubscribes, HandlerReturns, LoopEnds, Message
<1>4. CASE \E c \in Callers : TearDown(c)
  BY <1>4, Zenon DEF TearDown, Unregister, Unregistered, CloseNetwork, CloseControl,
     ControlClosed, StopService, ServiceStopped, ServiceLoopClosed, Finish
<1>5. CASE StartNext
  BY <1>1, <1>5, Zenon DEF StartNext, StartControl, StartServer, StartService,
     ServiceStarted, ServiceUndone, ServiceGivenUp, ServiceRegistered, ServiceSubscribed,
     StartReturns, Busy
<1> QED
  BY <1>2, <1>3, <1>4, <1>5, Zenon DEF Next

\* Nobody is told that the Node is down before it is.
LEMMA ResultStep ==
  ASSUME Shape, LifeInv, ResultInv, [Next]_vars
  PROVE  ResultInv'
<1>a. /\ result \in [Callers -> Answers] /\ Starter \in Callers /\ Starter \notin Stoppers
      /\ \A q \in Stoppers : q \in Callers
  BY LifeAssumption, Zenon DEF Shape, Callers
<1>b. life = "Stopped" => life' = "Stopped"
  BY StaysStopped
<1>1. CASE \/ UNCHANGED vars \/ LoopNext \/ BuildNext \/ \E s \in Order : Message(s)
  <2>1. UNCHANGED result
    BY <1>1, Zenon DEF vars, LoopNext, RegisterTask, UnregisterTask, SubscribeTask,
       StartTask, StopTask, Handle, HandlerSubscribes, HandlerReturns, LoopEnds, BuildNext,
       NewNode, BuildService, Built, Message
  <2> QED
    BY <2>1, <1>b, Zenon DEF ResultInv
<1>2. CASE Start \/ StartNext
  <2>1. \/ result' = result
        \/ \E v \in {"nil", "ErrNodeRunning"} : result' = [result EXCEPT ![Starter] = v]
    BY <1>2, Zenon DEF Start, StartNext, StartControl, StartServer, StartService,
       ServiceStarted, ServiceUndone, ServiceGivenUp, ServiceRegistered, ServiceSubscribed,
       StartReturns
  <2>2. /\ \A q \in Stoppers : result'[q] = result[q]
        /\ result'[Starter] = "err" => result[Starter] = "err"
    BY <2>1, <1>a
  <2> QED
    BY <2>2, <1>b, Zenon DEF ResultInv
<1>3. ASSUME NEW c \in Stoppers, Stop(c) PROVE ResultInv'
  <2>1. \/ result' = result
        \/ result' = [result EXCEPT ![c] = "ErrNodeStopped"]
        \/ result' = [result EXCEPT ![c] = "nil"] /\ life' = "Stopped"
    BY <1>3, Zenon DEF Stop
  <2>2. /\ result'[Starter] = result[Starter]
        /\ \A q \in Stoppers : q # c => result'[q] = result[q]
        /\ result'[c] \in {"nil", "done"} => result'[c] = result[c] \/ life' = "Stopped"
    BY <2>1, <1>a
  <2> QED
    BY <2>2, <1>b, Zenon DEF ResultInv
<1>4. ASSUME NEW c \in Callers, TearDown(c) PROVE ResultInv'
  <2>1. result' = result \/ life' = "Stopped"
    BY <1>4, Zenon DEF TearDown, Unregister, Unregistered, CloseNetwork, CloseControl,
       ControlClosed, StopService, ServiceStopped, ServiceLoopClosed, Finish
  <2> QED
    BY <2>1, <1>b, Zenon DEF ResultInv
<1> QED
  BY <1>1, <1>2, <1>3, <1>4, Zenon DEF Next

-----------------------------------------------------------------------------
(* The tasks of the callers *)

\* No task of caller c is in a queue.
NoTask(c) == \A l \in Loops : \A i \in DOMAIN queue[l] : queue[l][i].from # c

\* The labels at which a caller waits for an answer.
Waiting ==
  {"starting", "undoing", "registering", "subscribing", "unregistering", "stopping"}

\* Nobody has a task in a queue unless it waits for the answer.
LEMMA NobodyWaits ==
  ASSUME TaskInv, input \in Inputs, \A c \in Callers : pc[c] \in Waiting => done[c] # "none"
  PROVE  \A c \in Callers : NoTask(c)
<1> SUFFICES ASSUME NEW c \in Callers, NEW l \in Loops, NEW i \in DOMAIN queue[l],
                    queue[l][i].from = c
             PROVE  FALSE
  BY Zenon DEF NoTask
<1>1. c \notin Order
  BY Apart, Zenon
<1>2. done[c] = "none" /\ Waits(c, l, queue[l][i].do)
  BY <1>1, Zenon DEF TaskInv, Handlers, Awaited
<1>3. pc[c] \in Waiting
  BY <1>2, Zenon DEF Waits, Waiting
<1> QED
  BY <1>2, <1>3, Zenon

\* The one caller that is at work does not wait: no caller has a task.
LEMMA WorkerFree ==
  ASSUME TaskInv, LifeInv, input \in Inputs, NEW c \in Callers, Busy(c),
         pc[c] \notin Waiting \/ done[c] # "none"
  PROVE  \A q \in Callers : NoTask(q)
<1>1. \A q \in Callers : pc[q] \in Waiting => q = c
  BY Alone, Zenon DEF Busy, Waiting
<1> QED
  BY <1>1, NobodyWaits, Zenon

\* Nobody is at work: no caller has a task.
LEMMA RestFree ==
  ASSUME TaskInv, LifeInv, input \in Inputs, life \notin {"Starting", "Stopping"}
  PROVE  \A q \in Callers : NoTask(q)
<1>1. \A q \in Callers : ~Busy(q)
  BY Zenon DEF LifeInv, Callers
<1> QED
  BY <1>1, NobodyWaits, Zenon DEF Busy, Waiting

\* A task that stays in a queue keeps its kind.
LEMMA StaysHandlers ==
  ASSUME Order' = Order, NEW l, NEW i, NEW j, queue'[l][i] = queue[l][j], Handlers(l, j)
  PROVE  Handlers(l, i)'
  BY Zenon DEF Handlers

\* A task stays awaited while its caller stays and has no answer.
LEMMA StaysAwaited ==
  ASSUME UNCHANGED at, \A c \in Callers : pc[c] \in Waiting => pc'[c] = pc[c],
         \A c \in Callers : done'[c] = done[c],
         NEW l, NEW i, NEW j, queue'[l][i] = queue[l][j], Awaited(l, j)
  PROVE  Awaited(l, i)'
  BY Zenon DEF Awaited, Waits, Waiting

\* A step without effect on the queues and the callers that wait.
LEMMA TasksKept ==
  ASSUME TaskInv, Loops' = Loops, Order' = Order, UNCHANGED <<queue, at>>,
         \A c \in Callers : pc[c] \in Waiting => pc'[c] = pc[c],
         \A c \in Callers : done'[c] = done[c]
  PROVE  TaskInv'
<1> SUFFICES ASSUME NEW l \in Loops, NEW i \in DOMAIN queue[l]
             PROVE  Handlers(l, i)' \/ (Awaited(l, i)' /\ Sole(l, i)')
  BY Zenon DEF TaskInv
<1>1. Sole(l, i) => Sole(l, i)'
  BY Zenon DEF Sole
<1> QED
  BY <1>1, StaysHandlers, StaysAwaited, Zenon DEF TaskInv

\* When no caller has a task, all tasks are the handlers'.
LEMMA HandlersOnly ==
  ASSUME TaskInv, \A c \in Callers : NoTask(c)
  PROVE  \A l \in Loops : \A i \in DOMAIN queue[l] : Handlers(l, i)
  BY Zenon DEF TaskInv, NoTask, Awaited

\* A step of a caller when no caller has a task.
LEMMA TasksOfHandlers ==
  ASSUME TaskInv, Loops' = Loops, Order' = Order, UNCHANGED queue,
         \A c \in Callers : NoTask(c)
  PROVE  TaskInv'
  BY HandlersOnly, StaysHandlers, Zenon DEF TaskInv

\* callOnLoop by a caller when no caller has a task.
LEMMA TaskPosted ==
  ASSUME Shape, TaskInv, Loops' = Loops, Order' = Order, \A q \in Callers : NoTask(q),
         NEW c \in Callers, NEW l \in Loops, NEW what \in Ops,
         Post(l, [do |-> what, from |-> c]), Waits(c, l, what)', done'[c] = "none"
  PROVE  TaskInv'
<1>1. \A m \in Loops : \A i \in DOMAIN queue[m] : Handlers(m, i)
  BY HandlersOnly
<1>2. c \notin Order
  BY Apart, Zenon DEF Shape
<1>3. /\ \A m \in Loops : m # l => queue'[m] = queue[m]
      /\ \A i \in DOMAIN queue'[l] :
           \/ i \in DOMAIN queue[l] /\ queue'[l][i] = queue[l][i]
           \/ i = Len(queue[l]) + 1 /\ queue'[l][i] = [do |-> what, from |-> c]
  BY Posting
<1>4. ASSUME NEW m \in Loops, m # l, NEW i \in DOMAIN queue'[m]
      PROVE  Handlers(m, i)'
  BY <1>1, <1>3, <1>4, StaysHandlers, Zenon
<1>5. ASSUME NEW i \in DOMAIN queue'[l]
      PROVE  \/ Handlers(l, i)'
             \/ i = Len(queue[l]) + 1 /\ queue'[l][i].from = c /\ queue'[l][i].do = what
  BY <1>1, <1>3, <1>5, StaysHandlers
<1>6. ASSUME NEW i \in DOMAIN queue'[l], ~Handlers(l, i)'
      PROVE  Awaited(l, i)'
  <2>1. queue'[l][i].from = c /\ queue'[l][i].do = what
    BY <1>5, <1>6, Zenon
  <2> QED
    BY <2>1, Zenon DEF Awaited
<1>7. ASSUME NEW i \in DOMAIN queue'[l], ~Handlers(l, i)', NEW j \in DOMAIN queue'[l],
             queue'[l][j].from = queue'[l][i].from
      PROVE  j = i
  <2>1. i = Len(queue[l]) + 1 /\ queue'[l][i].from = c
    BY <1>5, <1>7, Zenon
  <2>2. ~Handlers(l, j)'
    BY <2>1, <1>2, <1>7, Zenon DEF Handlers
  <2> QED
    BY <2>1, <2>2, <1>5, Zenon
<1>8. ASSUME NEW i \in DOMAIN queue'[l] PROVE Handlers(l, i)' \/ Sole(l, i)'
  BY <1>7, Zenon DEF Sole
<1> QED
  BY <1>4, <1>6, <1>8, Zenon DEF TaskInv

\* The Loop takes a task of a caller, which is the only one, and answers it.
LEMMA TaskAnswered ==
  ASSUME Shape, LifeInv, TaskInv, Loops' = Loops, Order' = Order,
         NEW l \in Loops, NEW what, Takes(l, what), Asker(l) \in Callers
  PROVE  TaskInv'
<1>1. /\ \A m \in Loops : m # l => queue'[m] = queue[m]
      /\ 1 \in DOMAIN queue[l] /\ queue[l][1].from = Asker(l)
      /\ \A i \in DOMAIN queue'[l] :
           /\ i \in Int /\ i + 1 # 1
           /\ i + 1 \in DOMAIN queue[l] /\ queue'[l][i] = queue[l][i + 1]
  BY Taking
<1>2. \A q \in Callers : q \notin Order
  BY Apart, Zenon DEF Shape
<1>3. Awaited(l, 1) /\ Sole(l, 1)
  BY <1>1, <1>2, Zenon DEF TaskInv, Handlers
<1>4. Busy(Asker(l))
  BY <1>1, <1>3, Zenon DEF Awaited, Waits, Busy
<1>5. ASSUME NEW m \in Loops, NEW i \in DOMAIN queue[m], ~Handlers(m, i)
      PROVE  m = l /\ i = 1
  <2>1. Awaited(m, i)
    BY <1>5, Zenon DEF TaskInv
  <2>2. Busy(queue[m][i].from) /\ queue[m][i].from \in Callers
    BY <2>1, Zenon DEF Awaited, Waits, Busy
  <2>3. queue[m][i].from = queue[l][1].from
    BY <2>2, <1>1, <1>4, Alone, Zenon
  <2>4. m = l
    BY <2>1, <2>3, <1>3 DEF Awaited, Waits
  <2> QED
    BY <2>3, <2>4, <1>3, Zenon DEF Sole
<1>6. ASSUME NEW m \in Loops, NEW i \in DOMAIN queue'[m] PROVE Handlers(m, i)'
  <2>1. CASE m # l
    BY <2>1, <1>1, <1>5, <1>6, StaysHandlers, Zenon
  <2>2. CASE m = l
    BY <2>2, <1>1, <1>5, <1>6, StaysHandlers, Zenon
  <2> QED
    BY <2>1, <2>2
<1> QED
  BY <1>6, Zenon DEF TaskInv

\* The Loop takes a message or a task of a handler.
LEMMA TaskHandled ==
  ASSUME Shape, TaskInv, Loops' = Loops, Order' = Order, UNCHANGED <<pc, at>>,
         NEW l \in Loops, NEW what, Takes(l, what), \A c \in Callers : done'[c] = done[c]
  PROVE  TaskInv'
<1>1. /\ \A m \in Loops : m # l => queue'[m] = queue[m]
      /\ \A i \in DOMAIN queue'[l] :
           /\ i \in Int /\ i + 1 # 1
           /\ i + 1 \in DOMAIN queue[l] /\ queue'[l][i] = queue[l][i + 1]
  BY Taking
<1> SUFFICES ASSUME NEW m \in Loops, NEW i \in DOMAIN queue'[m]
             PROVE  Handlers(m, i)' \/ (Awaited(m, i)' /\ Sole(m, i)')
  BY Zenon DEF TaskInv
<1>4. CASE m # l
  <2>1. queue'[m] = queue[m] /\ i \in DOMAIN queue[m]
    BY <1>1, <1>4, Zenon
  <2>2. Sole(m, i) => Sole(m, i)'
    BY <2>1, Zenon DEF Sole
  <2>3. queue'[m][i] = queue[m][i]
    BY <2>1, Zenon
  <2> QED
    BY <2>1, <2>2, <2>3, StaysHandlers, StaysAwaited, Zenon DEF TaskInv
<1>5. CASE m = l
  <2>1. i \in Int /\ i + 1 \in DOMAIN queue[l] /\ queue'[l][i] = queue[l][i + 1]
    BY <1>1, <1>5, Zenon
  <2>2. ASSUME Sole(l, i + 1) PROVE Sole(l, i)'
    <3> SUFFICES ASSUME NEW j \in DOMAIN queue'[l], queue'[l][j].from = queue'[l][i].from
                 PROVE  j = i
      BY Zenon DEF Sole
    <3>1. j \in Int /\ j + 1 \in DOMAIN queue[l] /\ queue'[l][j] = queue[l][j + 1]
      BY <1>1, Zenon
    <3>2. j + 1 = i + 1
      BY <3>1, <2>1, <2>2, Zenon DEF Sole
    <3> QED
      BY <3>1, <3>2, <2>1
  <2>3. Handlers(l, i + 1) \/ (Awaited(l, i + 1) /\ Sole(l, i + 1))
    BY <2>1, Zenon DEF TaskInv
  <2> QED
    BY <2>1, <2>2, <2>3, <1>5, StaysHandlers, StaysAwaited, Zenon
<1> QED
  BY <1>4, <1>5

\* A message or a task of a handler is posted.
LEMMA HandlerPosts ==
  ASSUME Shape, TaskInv, Loops' = Loops, Order' = Order, UNCHANGED <<pc, at>>,
         NEW l \in Loops, NEW s \in Order, NEW what \in {"message", "subscribe"},
         Post(l, [do |-> what, from |-> s]), \A c \in Callers : done'[c] = done[c]
  PROVE  TaskInv'
<1>1. what \in Ops /\ s \in Callers \cup Order /\ s \notin Callers
  BY Apart, Zenon DEF Ops, Shape
<1>2. /\ \A m \in Loops : m # l => queue'[m] = queue[m]
      /\ \A i \in DOMAIN queue'[l] :
           \/ i \in DOMAIN queue[l] /\ queue'[l][i] = queue[l][i]
           \/ i = Len(queue[l]) + 1 /\ queue'[l][i] = [do |-> what, from |-> s]
  BY <1>1, Posting
<1>3. ASSUME NEW m \in Loops, NEW i \in DOMAIN queue'[m]
      PROVE  \/ i \in DOMAIN queue[m] /\ queue'[m][i] = queue[m][i]
             \/ queue'[m][i].from = s /\ queue'[m][i].do = what
  BY <1>2, <1>3
<1> SUFFICES ASSUME NEW m \in Loops, NEW i \in DOMAIN queue'[m], ~Handlers(m, i)'
             PROVE  Awaited(m, i)' /\ Sole(m, i)'
  BY Zenon DEF TaskInv
<1>4. ~(queue'[m][i].from = s /\ queue'[m][i].do = what)
  BY Zenon DEF Handlers
<1>5. i \in DOMAIN queue[m] /\ queue'[m][i] = queue[m][i]
  BY <1>3, <1>4, Zenon
<1>6. Awaited(m, i) /\ Sole(m, i)
  BY <1>5, StaysHandlers, Zenon DEF TaskInv
<1>7. queue'[m][i].from # s
  BY <1>1, <1>5, <1>6, Zenon DEF Awaited
<1>8. ASSUME NEW j \in DOMAIN queue'[m], queue'[m][j].from = queue'[m][i].from PROVE j = i
  <2>1. j \in DOMAIN queue[m] /\ queue'[m][j] = queue[m][j]
    BY <1>3, <1>7, <1>8, Zenon
  <2> QED
    BY <2>1, <1>5, <1>6, <1>8, Zenon DEF Sole
<1>9. Sole(m, i)'
  BY <1>8, Zenon DEF Sole
<1> QED
  BY <1>5, <1>6, <1>9, StaysAwaited, Zenon

\* A Loop at work on a caller's task: who waits for it.
LEMMA Asked ==
  ASSUME Shape, TaskInv, NEW l \in Loops, NEW what, Takes(l, what),
         what \in {"start", "stop", "register", "unregister"} \/ Asker(l) \in Callers
  PROVE  Asker(l) \in Callers /\ done[Asker(l)] = "none" /\ Waits(Asker(l), l, what)
<1>1. 1 \in DOMAIN queue[l] /\ queue[l][1].do = what /\ queue[l][1].from = Asker(l)
  BY Taking
<1>2. ~Handlers(l, 1)
  <2>1. \A q \in Callers : q \notin Order
    BY Apart, Zenon DEF Shape
  <2> QED
    BY <1>1, <2>1 DEF Handlers
<1>3. Awaited(l, 1)
  BY <1>1, <1>2, Zenon DEF TaskInv
<1> QED
  BY <1>1, <1>3, Zenon DEF Awaited

\* What the Loops do to the tasks.
LEMMA LoopTasks ==
  ASSUME Shape, LifeInv, TaskInv, LoopNext \/ \E s \in Order : Message(s), Order' = Order,
         Loops' = Loops
  PROVE  TaskInv'
<1>a. /\ Control \in Loops /\ \A s \in Order : s \in Loops /\ s \notin Callers
      /\ done \in [Callers \cup Order -> {"none", "ok", "err"}]
  BY Apart, Zenon DEF Shape
<1>1. CASE RegisterTask \/ UnregisterTask
  <2>1. \E what \in {"register", "unregister"} : Takes(Control, what)
    BY <1>1, Zenon DEF RegisterTask, UnregisterTask
  <2> QED
    BY <2>1, <1>a, Asked, TaskAnswered, Zenon
<1>2. ASSUME NEW s \in Order, StartTask(s) \/ StopTask(s) PROVE TaskInv'
  <2>1. \E what \in {"start", "stop"} : Takes(s, what)
    BY <1>2, Zenon DEF StartTask, StopTask
  <2> QED
    BY <2>1, <1>a, Asked, TaskAnswered, Zenon
<1>3. CASE SubscribeTask
  <2>1. CASE Asker(Control) \in Callers
    BY <1>3, <2>1, <1>a, TaskAnswered, Zenon DEF SubscribeTask
  <2>2. CASE Asker(Control) \notin Callers
    <3>1. UNCHANGED <<pc, at>> /\ \E v : done' = [done EXCEPT ![Asker(Control)] = v]
      BY <1>3, Zenon DEF SubscribeTask, Answer
    <3>2. \A c \in Callers : done'[c] = done[c]
      BY <2>2, <3>1, <1>a
    <3> QED
      BY <1>3, <3>1, <3>2, <1>a, TaskHandled, Zenon DEF SubscribeTask
  <2> QED
    BY <2>1, <2>2
<1>4. ASSUME NEW s \in Order, Handle(s) PROVE TaskInv'
  BY <1>4, <1>a, TaskHandled, Zenon DEF Handle
<1>5. ASSUME NEW s \in Order, HandlerSubscribes(s) PROVE TaskInv'
  <2>1. UNCHANGED <<pc, at>> /\ Post(Control, [do |-> "subscribe", from |-> s])
    BY <1>5, Zenon DEF HandlerSubscribes, callOnLoop
  <2>2. \A c \in Callers : done'[c] = done[c]
    BY <1>5, <1>a DEF HandlerSubscribes, callOnLoop
  <2> QED
    BY <2>1, <2>2, <1>a, HandlerPosts, Zenon
<1>6. ASSUME NEW s \in Order, HandlerReturns(s) PROVE TaskInv'
  <2>1. UNCHANGED <<queue, pc, at>>
    BY <1>6, Zenon DEF HandlerReturns
  <2>2. \A c \in Callers : done'[c] = done[c]
    BY <1>6, <1>a DEF HandlerReturns
  <2> QED
    BY <2>1, <2>2, TasksKept, Zenon
<1>7. ASSUME NEW l \in Loops, LoopEnds(l) PROVE TaskInv'
  BY <1>7, TasksKept, Zenon DEF LoopEnds
<1>8. ASSUME NEW s \in Order, Message(s) PROVE TaskInv'
  BY <1>8, <1>a, HandlerPosts, Zenon DEF Message
<1> QED
  BY <1>1, <1>2, <1>3, <1>4, <1>5, <1>6, <1>7, <1>8, Zenon DEF LoopNext

\* callOnLoop by the caller at work, which then waits.
LEMMA WorkerPosts ==
  ASSUME Shape, LifeInv, TaskInv, Order' = Order, Loops' = Loops,
         NEW c \in Callers, Busy(c), pc[c] \notin Waiting \/ done[c] # "none",
         NEW l \in Loops, NEW what \in Ops, NEW label, UNCHANGED at, Goto(c, label),
         Post(l, [do |-> what, from |-> c]), done' = [done EXCEPT ![c] = "none"],
         \/ label = "starting" /\ l = at /\ what = "start"
         \/ label \in {"undoing", "stopping"} /\ l = at /\ what = "stop"
         \/ label = "registering" /\ l = Control /\ what = "register"
         \/ label = "unregistering" /\ l = Control /\ what = "unregister"
         \/ label = "subscribing" /\ l = Control /\ what = "subscribe"
  PROVE  TaskInv'
<1>1. pc'[c] = label /\ done'[c] = "none"
  BY DEF Goto, Shape
<1>2. Waits(c, l, what)'
  BY <1>1, Zenon DEF Waits, Control
<1>3. \A q \in Callers : NoTask(q)
  BY WorkerFree, Zenon DEF Shape
<1> QED
  BY <1>1, <1>2, <1>3, TaskPosted, Zenon

\* A step of the caller at work that posts nothing.
LEMMA WorkerPostsNot ==
  ASSUME Shape, LifeInv, TaskInv, Order' = Order, Loops' = Loops, UNCHANGED queue,
         NEW c \in Callers, Busy(c), pc[c] \notin Waiting \/ done[c] # "none"
  PROVE  TaskInv'
<1>1. \A q \in Callers : NoTask(q)
  BY WorkerFree, Zenon DEF Shape
<1> QED
  BY <1>1, TasksOfHandlers, Zenon

\* What Start does to the tasks.
LEMMA StartTasks ==
  ASSUME Shape, LifeInv, TaskInv, StartNext, Order' = Order, Loops' = Loops,
         pc[Starter] \in Rising => at \in Order
  PROVE  TaskInv'
<1>a. Starter \in Callers /\ Control \in Loops /\ \A s \in Order : s \in Loops
  BY Apart, Zenon DEF Shape
<1>b. Busy(Starter) /\ (pc[Starter] \notin Waiting \/ done[Starter] # "none")
  BY Zenon DEF StartNext, StartControl, StartServer, StartService, ServiceStarted,
     ServiceUndone, ServiceGivenUp, ServiceRegistered, ServiceSubscribed, StartReturns,
     Busy, Waiting
<1>1. CASE \/ StartControl \/ StartServer \/ ServiceUndone \/ ServiceGivenUp
           \/ ServiceSubscribed \/ StartReturns
  <2>1. UNCHANGED queue
    BY <1>1, Zenon DEF StartControl, StartServer, ServiceUndone, ServiceGivenUp,
       ServiceSubscribed, StartReturns, loopVars
  <2> QED
    BY <2>1, <1>a, <1>b, WorkerPostsNot, Zenon
<1>2. CASE StartService
  <2>1. at \in Loops
    BY <1>2, <1>a, Zenon DEF StartService, Rising
  <2> QED
    BY <1>2, <2>1, <1>a, <1>b, WorkerPosts, Zenon DEF StartService, Ops
<1>3. CASE ServiceStarted
  <2>1. at \in Loops
    BY <1>3, <1>a, Zenon DEF ServiceStarted, Rising
  <2>2. \/ callOnLoop(Starter, Control, "register") /\ Goto(Starter, "registering")
        \/ callOnLoop(Starter, at, "stop") /\ Goto(Starter, "undoing")
    BY <1>3, Zenon DEF ServiceStarted, UndoStart
  <2>3. UNCHANGED at
    BY <1>3, Zenon DEF ServiceStarted
  <2> QED
    BY <2>1, <2>2, <2>3, <1>a, <1>b, WorkerPosts, Zenon DEF callOnLoop, Ops
<1>4. CASE ServiceRegistered
  <2>1. \/ UNCHANGED queue
        \/ /\ callOnLoop(Starter, Control, "subscribe") /\ Goto(Starter, "subscribing")
           /\ UNCHANGED at
    BY <1>4, Zenon DEF ServiceRegistered, loopVars
  <2> QED
    BY <2>1, <1>a, <1>b, WorkerPosts, WorkerPostsNot, Zenon DEF callOnLoop, Ops
<1> QED
  BY <1>1, <1>2, <1>3, <1>4, Zenon DEF StartNext

\* What Stop and rollbackStart do to the tasks.
LEMMA StopTasks ==
  ASSUME Shape, LifeInv, TaskInv, NEW c \in Callers, TearDown(c), Order' = Order,
         Loops' = Loops
  PROVE  TaskInv'
<1>c. at \in 0..LastService /\ LastService \in Nat /\ Order = 1..LastService
  BY Numbered, Zenon DEF Shape
<1>d. at > 0 => at \in Order
  BY <1>c
<1>a. Control \in Loops /\ (at > 0 => at \in Loops)
  BY <1>d, Apart, Zenon DEF Shape
<1>b. Busy(c) /\ (pc[c] \notin Waiting \/ done[c] # "none")
  BY Zenon DEF TearDown, Unregister, Unregistered, CloseNetwork, CloseControl,
     ControlClosed, StopService, ServiceStopped, ServiceLoopClosed, Finish, Busy, Waiting
<1>1. \/ UNCHANGED queue
      \/ UNCHANGED at /\ callOnLoop(c, Control, "unregister") /\ Goto(c, "unregistering")
      \/ UNCHANGED at /\ at > 0 /\ callOnLoop(c, at, "stop") /\ Goto(c, "stopping")
  BY Zenon DEF TearDown, Unregister, Unregistered, CloseNetwork, CloseControl,
     ControlClosed, StopService, ServiceStopped, ServiceLoopClosed, Finish, loopVars
<1> QED
  BY <1>1, <1>a, <1>b, WorkerPosts, WorkerPostsNot, Zenon DEF callOnLoop, Ops

\* Every step keeps to it: a caller waits for each of its tasks, and for one only.
LEMMA TaskStep ==
  ASSUME Shape, LifeInv, TaskInv, [Next]_vars, \A c \in Callers : NodeStage(c)
  PROVE  TaskInv'
<1>a. /\ Order' = Order /\ Loops' = Loops /\ pc \in [Callers -> Labels]
      /\ Starter \in Callers /\ \A c \in Stoppers : c \in Callers
  BY Fixed, Apart, Zenon DEF Shape
<1>1. CASE UNCHANGED vars \/ BuildNext
  <2>1. UNCHANGED <<queue, pc, at, done>>
    BY <1>1, Zenon DEF vars, loopVars, BuildNext, NewNode, BuildService, Built
  <2> QED
    BY <2>1, <1>a, TasksKept, Zenon
<1>2. CASE Start
  <2>1. life \notin {"Starting", "Stopping"} /\ UNCHANGED queue
    BY <1>2, Zenon DEF Start, LifeInv, Busy, loopVars
  <2> QED
    BY <2>1, <1>a, RestFree, TasksOfHandlers, Zenon DEF Shape
<1>3. ASSUME NEW c \in Stoppers, Stop(c) PROVE TaskInv'
  <2>1. UNCHANGED <<queue, done>> /\ life # "Stopping"
    BY <1>3, Zenon DEF Stop, loopVars, LifeInv
  <2>2. CASE life = "Starting"
    <3>1. UNCHANGED at
      BY <1>3, <2>2, Zenon DEF Stop
    <3>2. \A q \in Callers : pc[q] \in Waiting => pc'[q] = pc[q]
      BY <1>3, <2>2, <1>a, Zenon DEF Stop, Goto, Waiting
    <3> QED
      BY <2>1, <3>1, <3>2, <1>a, TasksKept, Zenon
  <2>3. CASE life # "Starting"
    BY <2>1, <2>3, <1>a, RestFree, TasksOfHandlers, Zenon DEF Shape
  <2> QED
    BY <2>2, <2>3
<1>4. CASE StartNext
  BY <1>4, <1>a, StartTasks, Zenon DEF NodeStage
<1>5. CASE LoopNext \/ \E s \in Order : Message(s)
  BY <1>5, <1>a, LoopTasks, Zenon
<1>6. ASSUME NEW c \in Callers, TearDown(c) PROVE TaskInv'
  BY <1>6, <1>a, StopTasks, Zenon
<1> QED
  BY <1>1, <1>2, <1>3, <1>4, <1>5, <1>6, Zenon DEF Next

-----------------------------------------------------------------------------
(* The stages of the Services *)

\* A step has no effect on Service s.
Still(s) ==
  /\ loop'[s] = loop[s] /\ calls'[s] = calls[s]
  /\ s \in started' <=> s \in started
  /\ s \in registered' <=> s \in registered
  /\ s \in registry' <=> s \in registry

\* A Service stays where it is when a step has no effect on it.
LEMMA StaysPut ==
  ASSUME NEW s, Still(s)
  PROVE  /\ Fresh(s) => Fresh(s)'
         /\ Lone(s) => Lone(s)'
         /\ Gone(s) => Gone(s)'
         /\ Up(s) => Up(s)'
         /\ Quiet(s) => Quiet(s)'
         /\ Withdrawn(s) => Withdrawn(s)'
         /\ Whole(s) => Whole(s)'
<1>1. Hidden(s) => Hidden(s)'
  BY Zenon DEF Still, Hidden
<1>2. ASSUME NEW a, NEW z PROVE Count(s, a, z) => Count(s, a, z)'
  BY Zenon DEF Still, Count
<1>3. Fresh(s) => Fresh(s)'
  BY <1>1, <1>2, Zenon DEF Still, Fresh
<1>4. Lone(s) => Lone(s)'
  BY <1>1, <1>2, Zenon DEF Still, Lone
<1>5. Gone(s) => Gone(s)'
  BY <1>1, <1>2, Zenon DEF Still, Gone
<1>6. Up(s) => Up(s)'
  BY <1>2, Zenon DEF Still, Up
<1> QED
  BY <1>3, <1>4, <1>5, <1>6, Zenon DEF Quiet, Withdrawn, Whole

\* What a Service can be called at the same time.
LEMMA Grades ==
  ASSUME NEW s
  PROVE  /\ Fresh(s) => Quiet(s)
         /\ Quiet(s) => Withdrawn(s)
         /\ Withdrawn(s) => Whole(s)
         /\ Lone(s) => Withdrawn(s)
         /\ Up(s) => Whole(s)
         /\ Gone(s) => Quiet(s)
         /\ Whole(s) /\ s \in registered => Up(s)
         /\ Whole(s) /\ s \notin registered => Withdrawn(s)
         /\ Withdrawn(s) /\ s \in started => Lone(s)
         /\ Withdrawn(s) /\ s \notin started => Quiet(s)
  BY Zenon DEF Whole, Withdrawn, Quiet, Up, Lone, Gone, Fresh, Hidden

\* When the worker enters the loop that unregisters, and the one that stops.
LEMMA EntersUnregister ==
  ASSUME NEW c, NEW s \in Int, at' \in Int, pc'[c] = "unregister",
         s <= at' => Whole(s)', s > at' => Withdrawn(s)'
  PROVE  ServiceStage(c, s)'
<1>1. Anywhere(c, s)'
  BY Zenon DEF Anywhere
<1>2. There(c, s)'
  BY DEF There, Rising, Withdrawing, Halting
<1>3. s = at' => Here(c, s)'
  BY DEF Here
<1> QED
  BY <1>1, <1>2, <1>3, Zenon DEF ServiceStage

\* When the worker begins to stop the Services.
LEMMA EntersStop ==
  ASSUME NEW c, NEW s \in Int, at' \in Int, pc'[c] = "stop",
         s <= at' => Withdrawn(s)', s > at' => Quiet(s)'
  PROVE  ServiceStage(c, s)'
<1>1. Anywhere(c, s)'
  BY Zenon DEF Anywhere
<1>2. There(c, s)'
  BY DEF There, Rising, Withdrawing, Halting
<1>3. s = at' => Here(c, s)'
  BY DEF Here
<1> QED
  BY <1>1, <1>2, <1>3, Zenon DEF ServiceStage

\* When the worker is at none of the Services.
LEMMA EntersAnywhere ==
  ASSUME NEW c, NEW s, Anywhere(c, s)',
         pc'[c] \in {"control", "server", "run", "network", "close", "closing", "finish"}
  PROVE  ServiceStage(c, s)'
<1>1. There(c, s)'
  BY DEF There, Rising, Withdrawing, Halting
<1>2. Here(c, s)'
  BY DEF Here
<1> QED
  BY <1>1, <1>2, Zenon DEF ServiceStage

\* When the worker goes on with a Service on the way up.
LEMMA EntersRising ==
  ASSUME NEW c, NEW s \in Int, at' \in Int, pc'[c] \in Rising,
         s < at' => Up(s)', s > at' => Fresh(s)', s = at' => Here(c, s)'
  PROVE  ServiceStage(c, s)'
<1>1. Anywhere(c, s)'
  BY Zenon DEF Anywhere, Rising
<1>2. There(c, s)'
  BY DEF There, Rising, Withdrawing, Halting
<1> QED
  BY <1>1, <1>2, Zenon DEF ServiceStage

\* Only the stage of the caller at work has to be told.
LEMMA OneStage ==
  ASSUME Order' = Order, NEW c \in Callers, NodeStage(c)',
         \A q \in Callers : q # c => pc'[q] \in {"idle", "returned"},
         \A s \in Order : ServiceStage(c, s)'
  PROVE  StageInv'
<1>1. ASSUME NEW q \in Callers, q # c PROVE NodeStage(q)'
  BY <1>1 DEF NodeStage, Rising, Withdrawing, Halting
<1>2. ASSUME NEW q \in Callers, q # c, NEW s PROVE ServiceStage(q, s)'
  <2>1. Anywhere(q, s)'
    BY <1>2 DEF Anywhere, Rising, Halting
  <2>2. There(q, s)'
    BY <1>2 DEF There, Rising, Withdrawing, Halting
  <2>3. Here(q, s)'
    BY <1>2 DEF Here, Rising, Withdrawing, Halting
  <2> QED
    BY <2>1, <2>2, <2>3, Zenon DEF ServiceStage
<1> QED
  BY <1>1, <1>2, Zenon DEF StageInv

\* No other caller is at work when one is.
LEMMA WorkerStage ==
  ASSUME LifeInv, Order' = Order, NEW c \in Callers, Busy(c),
         \A q \in Callers : q # c => pc'[q] = pc[q],
         NodeStage(c)', \A s \in Order : ServiceStage(c, s)'
  PROVE  StageInv'
<1>1. \A q \in Callers : q # c => pc'[q] \in {"idle", "returned"}
  BY Alone, Zenon DEF Busy
<1> QED
  BY <1>1, OneStage, Zenon

\* Nobody is at work.
LEMMA NobodyStage ==
  ASSUME \A q \in Callers : pc'[q] \in {"idle", "returned"}
  PROVE  StageInv'
<1>2. ASSUME NEW q \in Callers PROVE NodeStage(q)'
  BY <1>2 DEF NodeStage, Rising, Withdrawing, Halting
<1>3. ASSUME NEW q \in Callers, NEW s PROVE ServiceStage(q, s)'
  BY <1>3 DEF ServiceStage, Anywhere, There, Here, Rising, Withdrawing, Halting
<1> QED
  BY <1>2, <1>3, Zenon DEF StageInv

\* A step without effect on the Services and the worker.
LEMMA StageKept ==
  ASSUME StageInv, Order' = Order, UNCHANGED <<at, server, loop, serviceVars>>,
         \A c \in Callers : Busy(c) \/ Busy(c)' => pc'[c] = pc[c] /\ done'[c] = done[c]
  PROVE  StageInv'
<1>1. ASSUME NEW s \in Order PROVE Still(s)
  BY Zenon DEF Still, serviceVars
<1>2. ASSUME NEW c \in Callers, ~Busy(c)'
      PROVE  NodeStage(c)' /\ \A s \in Order : ServiceStage(c, s)'
  BY <1>2 DEF Busy, NodeStage, ServiceStage, Anywhere, There, Here, Rising, Withdrawing,
     Halting
<1>3. ASSUME NEW c \in Callers, Busy(c)'
      PROVE  NodeStage(c)' /\ \A s \in Order : ServiceStage(c, s)'
  <2>1. pc'[c] = pc[c] /\ done'[c] = done[c] /\ at' = at
    BY <1>3, Zenon
  <2>2. NodeStage(c)'
    BY <2>1, Zenon DEF StageInv, NodeStage
  <2>3. ASSUME NEW s \in Order PROVE ServiceStage(c, s)'
    <3>1. Anywhere(c, s) /\ There(c, s) /\ (s = at => Here(c, s))
      BY Zenon DEF StageInv, ServiceStage
    <3>2. Anywhere(c, s)'
      BY <3>1, <2>1, <1>1, StaysPut, Zenon DEF Anywhere
    <3>3. There(c, s)'
      BY <3>1, <2>1, <1>1, StaysPut, Zenon DEF There
    <3>4. Here(c, s) => Here(c, s)'
      BY <2>1, Zenon DEF serviceVars, Here, Count, Answered, Hidden, Fresh, Up, Lone, Gone,
         Quiet, Withdrawn, Whole
    <3> QED
      BY <3>1, <3>2, <3>3, <3>4, <2>1, Zenon DEF ServiceStage
  <2> QED
    BY <2>2, <2>3
<1> QED
  BY <1>2, <1>3, Zenon DEF StageInv

\* How Services and Loops are numbered, and what the tables are of.
LEMMA Bearings ==
  ASSUME Shape
  PROVE  /\ LastService \in Nat /\ Order = 1..LastService /\ at \in 0..LastService
         /\ \A s \in Order : s \in Int /\ s # Control /\ s \in Loops
         /\ Control \in Loops /\ Starter \in Callers
<1>1. input \in Inputs /\ at \in 0..LastService
  BY Zenon DEF Shape
<1>2. \A s \in Order : s \in Int /\ s # Control /\ s \in Loops
  BY <1>1, Apart, Zenon
<1> QED
  BY <1>1, <1>2, Apart, Numbered, Zenon

\* The states of the Loops, of the calls and of their answers.
LEMMA Tables ==
  ASSUME Shape
  PROVE  /\ loop \in [Loops -> {"new", "running", "closing", "ended"}]
         /\ pc \in [Callers -> Labels]
         /\ done \in [Callers \cup Order -> {"none", "ok", "err"}]
  BY Zenon DEF Shape

\* The control Loop starts.
LEMMA ControlStage ==
  ASSUME Shape, StageInv, StartControl
  PROVE  NodeStage(Starter)' /\ \A s \in Order : ServiceStage(Starter, s)'
<1>1. Starter \in Callers /\ Control \in Loops /\ \A s \in Order : s # Control /\ s \in Loops
  BY Bearings, Zenon
<1>2. /\ pc[Starter] = "control" /\ pc'[Starter] = "server" /\ loop'[Control] = "running"
      /\ UNCHANGED <<server, serviceVars>> /\ \A s \in Order : loop'[s] = loop[s]
  BY <1>1, Tables, Zenon DEF StartControl, Goto
<1>3. NodeStage(Starter) /\ \A s \in Order : Fresh(s)
  BY <1>1, <1>2, Zenon DEF StageInv, ServiceStage, Anywhere
<1>4. NodeStage(Starter)'
  BY <1>2, <1>3 DEF NodeStage, Rising, Withdrawing, Halting
<1>5. \A s \in Order : Still(s)
  BY <1>2, Zenon DEF Still, serviceVars
<1>6. \A s \in Order : Anywhere(Starter, s)'
  BY <1>2, <1>3, <1>5, StaysPut DEF Anywhere
<1> QED
  BY <1>2, <1>4, <1>6, EntersAnywhere, Zenon

\* The server starts or fails to, and all Services are still to be started.
LEMMA ServerStage ==
  ASSUME Shape, StageInv, StartServer
  PROVE  NodeStage(Starter)' /\ \A s \in Order : ServiceStage(Starter, s)'
<1>1. /\ Starter \in Callers /\ LastService \in Nat /\ Order = 1..LastService
      /\ \A s \in Order : s \in Int
  BY Bearings, Zenon
<1>2. /\ pc[Starter] = "server" /\ UNCHANGED <<input, loop, serviceVars>>
      /\ \/ Order = {} /\ pc'[Starter] = "run"
         \/ Order # {} /\ pc'[Starter] = "loop" /\ at' = 1
         \/ pc'[Starter] = "unregister" /\ at' = LastService
  BY <1>1, Tables, Zenon DEF StartServer, rollbackStart, Goto, loopVars, birthVars
<1>3. NodeStage(Starter) /\ \A s \in Order : Fresh(s)
  BY <1>1, <1>2, Zenon DEF StageInv, ServiceStage, Anywhere
<1>4. Order' = Order
  BY <1>2, Zenon DEF Order
<1>5. NodeStage(Starter)'
  <2>1. loop[Control] = "running"
    BY <1>2, <1>3, Zenon DEF NodeStage
  <2>2. pc'[Starter] = "loop" => at' \in Order
    BY <1>1, <1>2
  <2> QED
    BY <2>1, <2>2, <1>2, <1>4 DEF NodeStage, Rising, Withdrawing, Halting
<1>6. \A s \in Order : Still(s)
  BY <1>2, Zenon DEF Still, serviceVars
<1>7. \A s \in Order : Fresh(s)'
  BY <1>3, <1>6, StaysPut, Zenon
<1>8. \A s \in Order : Whole(s)'
  BY <1>7, Zenon DEF Whole, Withdrawn, Quiet
<1>9. CASE Order = {}
  BY <1>5, <1>9, Zenon
<1>10. CASE pc'[Starter] = "loop" /\ at' = 1
  <2>1. \A s \in Order : Here(Starter, s)'
    BY <1>7, <1>10 DEF Here
  <2>2. pc'[Starter] \in Rising /\ at' \in Int /\ \A s \in Order : s \in Int /\ ~(s < at')
    BY <1>1, <1>10 DEF Rising
  <2> QED
    BY <2>1, <2>2, <1>5, <1>7, EntersRising, Zenon
<1>11. CASE pc'[Starter] = "unregister" /\ at' = LastService
  <2>1. at' \in Int /\ \A s \in Order : s \in Int /\ ~(s > at')
    BY <1>1, <1>11
  <2> QED
    BY <2>1, <1>5, <1>8, <1>11, EntersUnregister, Zenon
<1> QED
  BY <1>2, <1>9, <1>10, <1>11, Zenon

\* A step of Start within a Service: the Services before it stay up and those
\* behind it are still to be started.
LEMMA WithinRising ==
  ASSUME Shape, StageInv, Order' = Order, pc[Starter] \in Rising, pc'[Starter] \in Rising,
         UNCHANGED <<at, server>>, loop'[Control] = loop[Control],
         \A s \in Order : s # at => Still(s), \A s \in Order : s = at => Here(Starter, s)'
  PROVE  NodeStage(Starter)' /\ \A s \in Order : ServiceStage(Starter, s)'
<1>1. Starter \in Callers /\ \A s \in Order : s \in Int
  BY Bearings, Zenon
<1>2. NodeStage(Starter) /\ \A s \in Order : ServiceStage(Starter, s)
  BY <1>1, Zenon DEF StageInv
<1>3. at \in Order /\ loop[Control] = "running"
  BY <1>2, Zenon DEF NodeStage
<1>4. NodeStage(Starter)'
  <2>1. pc'[Starter] \notin Withdrawing \cup Halting \cup
                            {"control", "server", "run", "network", "close", "closing", "finish"}
    BY DEF Rising, Withdrawing, Halting
  <2> QED
    BY <2>1, <1>3, Zenon DEF NodeStage
<1>5. \A s \in Order : (s < at => Up(s)) /\ (s > at => Fresh(s))
  BY <1>2, Zenon DEF ServiceStage, There
<1>6. at \in Int /\ \A s \in Order : s < at \/ s > at => s # at
  BY <1>1, <1>3
<1>7. \A s \in Order : (s < at => Up(s)') /\ (s > at => Fresh(s)')
  BY <1>5, <1>6, StaysPut, Zenon
<1> QED
  BY <1>1, <1>4, <1>6, <1>7, EntersRising, Zenon

\* The Service that Start is at.
LEMMA StartsAt ==
  ASSUME Shape, StageInv, pc[Starter] \in Rising
  PROVE  /\ at \in Order /\ at \in Loops /\ at # Control /\ Here(Starter, at)
         /\ Starter \in Callers /\ Starter \in Callers \cup Order
<1>1. NodeStage(Starter) /\ \A s \in Order : ServiceStage(Starter, s)
  BY Bearings, Zenon DEF StageInv
<1>2. at \in Order
  BY <1>1, Zenon DEF NodeStage
<1> QED
  BY <1>1, <1>2, Bearings, Zenon DEF ServiceStage

\* startService starts the Loop and posts Service.Start.
LEMMA StartServiceStage ==
  ASSUME Shape, StageInv, StartService, Order' = Order
  PROVE  NodeStage(Starter)' /\ \A s \in Order : ServiceStage(Starter, s)'
<1>1. pc[Starter] = "loop" /\ pc[Starter] \in Rising
  BY Zenon DEF StartService, Rising
<1>2. at \in Order /\ at \in Loops /\ at # Control /\ Fresh(at)
  BY <1>1, StartsAt, Zenon DEF Here
<1>3. /\ pc'[Starter] = "starting" /\ loop'[at] = "running" /\ done'[Starter] = "none"
      /\ UNCHANGED <<at, server, serviceVars>>
      /\ \A l \in Loops : l # at => loop'[l] = loop[l]
  BY <1>1, <1>2, StartsAt, Tables, Zenon DEF StartService, Goto
<1>4. \A s \in Order : s # at => Still(s)
  BY <1>3, Bearings, Zenon DEF Still, serviceVars
<1>5. ASSUME NEW s \in Order, s = at PROVE Here(Starter, s)'
  <2>1. s \notin started' /\ Hidden(s)'
    BY <1>2, <1>3, <1>5, Zenon DEF Fresh, Hidden, serviceVars
  <2>2. Count(s, Answered(Starter), 0)'
    BY <1>2, <1>3, <1>5, Zenon DEF Fresh, Count, Answered, serviceVars
  <2> QED
    BY <2>1, <2>2, <1>3, <1>5 DEF Here
<1>6. loop'[Control] = loop[Control] /\ pc'[Starter] \in Rising
  BY <1>2, <1>3, Bearings, Zenon DEF Rising
<1> QED
  BY <1>1, <1>3, <1>4, <1>5, <1>6, WithinRising, Zenon

\* Service.Start has returned: the Service is to be registered, or undone.
LEMMA ServiceStartedStage ==
  ASSUME Shape, StageInv, ServiceStarted, Order' = Order
  PROVE  NodeStage(Starter)' /\ \A s \in Order : ServiceStage(Starter, s)'
<1>1. pc[Starter] = "starting" /\ pc[Starter] \in Rising /\ done[Starter] # "none"
  BY Zenon DEF ServiceStarted, Rising
<1>2. /\ at \in Order /\ Starter \in Callers
      /\ at \notin started /\ Hidden(at) /\ loop[at] = "running" /\ Count(at, 1, 0)
  BY <1>1, StartsAt, Zenon DEF Here, Answered
<1>3. /\ UNCHANGED <<at, server, loop, registered, registry, calls>>
      /\ \/ Goto(Starter, "registering") /\ started' = started \cup {at}
         \/ Goto(Starter, "undoing") /\ started' = started
      /\ done' = [done EXCEPT ![Starter] = "none"]
  BY Zenon DEF ServiceStarted, UndoStart, callOnLoop
<1>4. /\ done'[Starter] = "none"
      /\ \/ pc'[Starter] = "registering" /\ at \in started'
         \/ pc'[Starter] = "undoing" /\ at \notin started'
  BY <1>2, <1>3, StartsAt, Tables, Zenon DEF Goto
<1>5. \A s \in Order : s # at => Still(s)
  BY <1>3, Zenon DEF Still
<1>6. ASSUME NEW s \in Order, s = at PROVE Here(Starter, s)'
  <2>1. Hidden(s)' /\ Count(s, 1, 0)' /\ loop'[s] = "running"
    BY <1>2, <1>3, <1>6, Zenon DEF Hidden, Count
  <2>2. Count(s, 1, Answered(Starter))'
    BY <2>1, <1>4, Zenon DEF Count, Answered
  <2>3. s \notin registered' /\ s \notin registry' /\ done'[Starter] # "ok"
    BY <2>1, <1>4, Zenon DEF Hidden
  <2>4. CASE pc'[Starter] = "registering" /\ at \in started'
    BY <2>1, <2>3, <2>4, <1>6 DEF Here
  <2>5. CASE pc'[Starter] = "undoing" /\ at \notin started'
    BY <2>1, <2>2, <2>5, <1>6 DEF Here
  <2> QED
    BY <1>4, <2>4, <2>5, Zenon
<1>7. pc'[Starter] \in Rising
  BY <1>4, Zenon DEF Rising
<1> QED
  BY <1>1, <1>3, <1>5, <1>6, <1>7, WithinRising, Zenon

\* The Stop of a Service that failed to start has returned: its Loop is closed.
LEMMA ServiceUndoneStage ==
  ASSUME Shape, StageInv, ServiceUndone, Order' = Order
  PROVE  NodeStage(Starter)' /\ \A s \in Order : ServiceStage(Starter, s)'
<1>1. pc[Starter] = "undoing" /\ pc[Starter] \in Rising /\ done[Starter] # "none"
  BY Zenon DEF ServiceUndone, Rising
<1>2. /\ at \in Order /\ at \in Loops /\ at # Control
      /\ at \notin started /\ Hidden(at) /\ Count(at, 1, 1)
  BY <1>1, StartsAt, Zenon DEF Here, Answered
<1>3. /\ pc'[Starter] = "undone" /\ loop'[at] = "closing"
      /\ UNCHANGED <<at, server, serviceVars>>
      /\ \A l \in Loops : l # at => loop'[l] = loop[l]
  BY <1>1, <1>2, StartsAt, Tables, Zenon DEF ServiceUndone, Close, Goto
<1>4. \A s \in Order : s # at => Still(s)
  BY <1>3, Bearings, Zenon DEF Still, serviceVars
<1>5. ASSUME NEW s \in Order, s = at PROVE Here(Starter, s)'
  <2>1. s \notin started' /\ Hidden(s)' /\ Count(s, 1, 1)'
    BY <1>2, <1>3, <1>5, Zenon DEF Hidden, Count, serviceVars
  <2> QED
    BY <2>1, <1>3, <1>5 DEF Here
<1>6. loop'[Control] = loop[Control] /\ pc'[Starter] \in Rising
  BY <1>2, <1>3, Bearings, Zenon DEF Rising
<1> QED
  BY <1>1, <1>3, <1>4, <1>5, <1>6, WithinRising, Zenon

\* The loop that unregisters begins at the last Service, wherever each one is.
LEMMA BeginsUnregister ==
  ASSUME Shape, NEW c \in Callers, pc'[c] = "unregister", at' = LastService,
         loop'[Control] = "running", \A s \in Order : Whole(s)'
  PROVE  NodeStage(c)' /\ \A s \in Order : ServiceStage(c, s)'
<1>1. at' \in Int /\ \A s \in Order : s \in Int /\ ~(s > at')
  BY Bearings
<1>2. NodeStage(c)'
  BY DEF NodeStage, Rising, Withdrawing, Halting
<1> QED
  BY <1>1, <1>2, EntersUnregister, Zenon

\* The Loop of the Service that failed to start has ended: the rest is rolled back.
LEMMA ServiceGivenUpStage ==
  ASSUME Shape, StageInv, ServiceGivenUp
  PROVE  NodeStage(Starter)' /\ \A s \in Order : ServiceStage(Starter, s)'
<1>1. /\ pc[Starter] = "undone" /\ pc[Starter] \in Rising /\ loop[at] = "ended"
      /\ Starter \in Callers
  BY StartsAt, Bearings, Zenon DEF ServiceGivenUp, Rising
<1>2. at \in Order /\ Gone(at)
  BY <1>1, StartsAt, Zenon DEF Here, Gone
<1>3. /\ pc'[Starter] = "unregister" /\ at' = LastService
      /\ UNCHANGED <<loop, serviceVars>>
  BY <1>1, Tables, Zenon DEF ServiceGivenUp, rollbackStart, Goto, loopVars
<1>4. NodeStage(Starter) /\ \A s \in Order : ServiceStage(Starter, s)
  BY <1>1, Zenon DEF StageInv
<1>5. \A s \in Order : Whole(s)
  <2>1. \A s \in Order : (s < at => Up(s)) /\ (s > at => Fresh(s))
    BY <1>1, <1>4, Zenon DEF ServiceStage, There
  <2>2. \A s \in Order : s < at \/ s > at \/ s = at
    BY <1>2, Bearings
  <2> QED
    BY <2>1, <2>2, <1>2, Zenon DEF Whole, Withdrawn, Quiet
<1>6. \A s \in Order : Whole(s)'
  BY <1>3, <1>5, StaysPut, Zenon DEF Still, serviceVars
<1>7. loop'[Control] = "running"
  BY <1>1, <1>3, <1>4, Zenon DEF NodeStage
<1> QED
  BY <1>1, <1>3, <1>6, <1>7, BeginsUnregister, Zenon

\* registerService has returned: the Service is up, or all is rolled back.
LEMMA ServiceRegisteredStage ==
  ASSUME Shape, StageInv, ServiceRegistered, Order' = Order
  PROVE  NodeStage(Starter)' /\ \A s \in Order : ServiceStage(Starter, s)'
<1>1. /\ pc[Starter] = "registering" /\ pc[Starter] \in Rising /\ done[Starter] # "none"
      /\ Starter \in Callers
  BY Bearings, Zenon DEF ServiceRegistered, Rising
<1>2. /\ at \in Order /\ loop[at] = "running" /\ at \in started /\ Count(at, 1, 0)
      /\ at \notin registered /\ (at \in registry <=> done[Starter] = "ok")
  BY <1>1, StartsAt, Zenon DEF Here
<1>3. NodeStage(Starter) /\ \A s \in Order : ServiceStage(Starter, s)
  BY <1>1, Zenon DEF StageInv
<1>4. UNCHANGED <<server, loop, started, registry, calls>>
  BY Zenon DEF ServiceRegistered, callOnLoop, loopVars
<1>5. \/ /\ done[Starter] = "ok" /\ registered' = registered \cup {at} /\ at' = at
         /\ pc'[Starter] = "subscribing"
      \/ /\ done[Starter] # "ok" /\ registered' = registered /\ at' = LastService
         /\ pc'[Starter] = "unregister"
  BY <1>1, Tables, Zenon DEF ServiceRegistered, rollbackStart, Goto
<1>6. \A s \in Order : s # at => Still(s)
  <2>1. registered' = registered \/ registered' = registered \cup {at}
    BY <1>5, Zenon
  <2>2. \A s \in Order : s # at => (s \in registered' <=> s \in registered)
    BY <2>1
  <2> QED
    BY <2>2, <1>4, Zenon DEF Still
<1>7. loop'[Control] = loop[Control] /\ loop[Control] = "running"
  BY <1>1, <1>3, <1>4, Zenon DEF NodeStage
<1>8. CASE done[Starter] = "ok" /\ pc'[Starter] = "subscribing"
  <2>1. /\ registered' = registered \cup {at} /\ at' = at /\ pc'[Starter] \in Rising
    BY <1>5, <1>8 DEF Rising
  <2>2. ASSUME NEW s \in Order, s = at PROVE Here(Starter, s)'
    <3>1. Up(s)'
      BY <1>2, <1>4, <1>8, <2>1, <2>2, Zenon DEF Up, Count
    <3> QED
      BY <3>1, <1>8 DEF Here
  <2> QED
    BY <1>1, <1>4, <1>6, <1>7, <2>1, <2>2, WithinRising, Zenon
<1>9. CASE done[Starter] # "ok" /\ pc'[Starter] = "unregister"
  <2>1. registered' = registered /\ at' = LastService
    BY <1>5, <1>9
  <2>2. \A s \in Order : Still(s)
    BY <1>4, <2>1, Zenon DEF Still
  <2>3. Lone(at)
    BY <1>2, <1>9, Zenon DEF Lone, Hidden
  <2>4. \A s \in Order : Whole(s)
    <3>1. \A s \in Order : (s < at => Up(s)) /\ (s > at => Fresh(s))
      BY <1>1, <1>3, Zenon DEF ServiceStage, There
    <3>2. \A s \in Order : s < at \/ s > at \/ s = at
      BY <1>2, Bearings
    <3> QED
      BY <3>1, <3>2, <2>3, Zenon DEF Whole, Withdrawn, Quiet
  <2>5. \A s \in Order : Whole(s)'
    BY <2>2, <2>4, StaysPut, Zenon
  <2> QED
    BY <2>1, <2>5, <1>1, <1>7, <1>9, BeginsUnregister, Zenon
<1> QED
  BY <1>5, <1>8, <1>9, Zenon

\* The subscriptions of the Service are made: Start goes on to the next one, or
\* is done, or rolls back.
LEMMA ServiceSubscribedStage ==
  ASSUME Shape, StageInv, ServiceSubscribed, Order' = Order
  PROVE  NodeStage(Starter)' /\ \A s \in Order : ServiceStage(Starter, s)'
<1>1. /\ pc[Starter] = "subscribing" /\ pc[Starter] \in Rising /\ Starter \in Callers
      /\ UNCHANGED <<server, loop, serviceVars>>
  BY Bearings, Zenon DEF ServiceSubscribed, Rising, loopVars
<1>2. at \in Order /\ at \in 1..LastService /\ LastService \in Nat /\ Up(at)
  BY <1>1, StartsAt, Bearings, Zenon DEF Here
<1>3. NodeStage(Starter) /\ \A s \in Order : ServiceStage(Starter, s)
  BY <1>1, Zenon DEF StageInv
<1>4. \/ pc'[Starter] = "unregister" /\ at' = LastService
      \/ pc'[Starter] = "loop" /\ at' = at + 1 /\ at < LastService
      \/ pc'[Starter] = "run" /\ at = LastService
  BY <1>1, Tables, Zenon DEF ServiceSubscribed, rollbackStart, Goto
<1>5. \A s \in Order : (s <= at => Up(s)) /\ (s > at => Fresh(s)) /\ s \in Int
  <2>1. \A s \in Order : (s < at => Up(s)) /\ (s > at => Fresh(s))
    BY <1>1, <1>3, Zenon DEF ServiceStage, There
  <2>2. \A s \in Order : s \in Int /\ (s <= at => s < at \/ s = at)
    BY <1>2, Bearings
  <2> QED
    BY <2>1, <2>2, <1>2, Zenon
<1>6. \A s \in Order : Still(s)
  BY <1>1, Zenon DEF Still, serviceVars
<1>7. \A s \in Order : (s <= at => Up(s)') /\ (s > at => Fresh(s)')
  BY <1>5, <1>6, StaysPut, Zenon
<1>8. loop'[Control] = "running"
  BY <1>1, <1>3, Zenon DEF NodeStage
<1>9. CASE pc'[Starter] = "unregister" /\ at' = LastService
  <2>1. \A s \in Order : s <= at \/ s > at
    BY <1>2, <1>5
  <2>2. \A s \in Order : Whole(s)'
    BY <2>1, <1>7, Zenon DEF Whole, Withdrawn, Quiet
  <2> QED
    BY <2>2, <1>1, <1>8, <1>9, BeginsUnregister, Zenon
<1>10. CASE pc'[Starter] = "loop" /\ at' = at + 1 /\ at < LastService
  <2>1. /\ at' \in Order /\ at' \in Int /\ pc'[Starter] \in Rising
        /\ \A s \in Order : (s < at' => s <= at) /\ (s > at' => s > at) /\ (s = at' => s > at)
    BY <1>2, <1>5, <1>10, Bearings DEF Rising
  <2>2. ASSUME NEW s \in Order, s = at' PROVE Here(Starter, s)'
    <3>1. Fresh(s)'
      BY <2>1, <2>2, <1>7, Zenon
    <3> QED
      BY <3>1, <1>10 DEF Here
  <2>3. NodeStage(Starter)'
    BY <2>1, <1>8, <1>10 DEF NodeStage, Rising, Withdrawing, Halting
  <2> QED
    BY <2>1, <2>2, <2>3, <1>5, <1>7, EntersRising, Zenon
<1>11. CASE pc'[Starter] = "run" /\ at = LastService
  <2>1. \A s \in Order : s <= at
    BY <1>11, Bearings
  <2>2. \A s \in Order : Anywhere(Starter, s)'
    BY <2>1, <1>7, <1>11 DEF Anywhere
  <2>3. NodeStage(Starter)'
    BY <1>8, <1>11 DEF NodeStage, Rising, Withdrawing, Halting
  <2> QED
    BY <2>2, <2>3, <1>11, EntersAnywhere, Zenon
<1> QED
  BY <1>4, <1>9, <1>10, <1>11
=============================================================================
