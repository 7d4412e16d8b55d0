------------------------ MODULE NodeLifecycleProofs -------------------------
(***************************************************************************)
(* Proofs about the life of the main Node, second part: the steps of Stop  *)
(* and of the Loops keep the stages of the Services too. NewNode leaves    *)
(* nothing behind when it refuses, whoever can be looked up runs, and a    *)
(* Stop that was not refused, or a Start that failed, has taken everything *)
(* down.                                                                   *)
(***************************************************************************)
EXTENDS NodeLifecycleStartProofs

\* When the worker goes on with a Service on the way down.
LEMMA EntersWithdrawing ==
  ASSUME NEW c, NEW s \in Int, at' \in Int, pc'[c] \in Withdrawing,
         s < at' => Whole(s)', s > at' => Withdrawn(s)', s = at' => Here(c, s)'
  PROVE  ServiceStage(c, s)'
<1>1. Anywhere(c, s)'
  BY Zenon DEF Anywhere, Withdrawing
<1>2. There(c, s)'
  BY DEF There, Rising, Withdrawing, Halting
<1> QED
  BY <1>1, <1>2, Zenon DEF ServiceStage

\* When it goes on with a Service that was withdrawn.
LEMMA EntersHalting ==
  ASSUME NEW c, NEW s \in Int, at' \in Int, pc'[c] \in Halting,
         s < at' => Withdrawn(s)', s > at' => Quiet(s)', s = at' => Here(c, s)'
  PROVE  ServiceStage(c, s)'
<1>1. Anywhere(c, s)'
  BY Zenon DEF Anywhere, Halting
<1>2. There(c, s)'
  BY DEF There, Rising, Withdrawing, Halting
<1> QED
  BY <1>1, <1>2, Zenon DEF ServiceStage

\* The loop that unregisters comes to a Service: it is withdrawn already, or a
\* task takes it out of the registry.
LEMMA UnregisterStage ==
  ASSUME Shape, StageInv, NEW c \in Callers, Unregister(c), Order' = Order
  PROVE  NodeStage(c)' /\ \A s \in Order : ServiceStage(c, s)'
<1>1. pc[c] = "unregister" /\ UNCHANGED <<server, loop, serviceVars>>
  BY Zenon DEF Unregister, loopVars, callOnLoop
<1>2. \/ at = 0 /\ pc'[c] = "network"
      \/ /\ at > 0 /\ at \in registered /\ at' = at /\ pc'[c] = "unregistering"
         /\ done'[c] = "none"
      \/ at > 0 /\ at \notin registered /\ at' = at - 1 /\ pc'[c] = "unregister"
  BY <1>1, Tables, Zenon DEF Unregister, MustUnregister, callOnLoop, Goto
<1>3. /\ LastService \in Nat /\ Order = 1..LastService /\ at \in 0..LastService
      /\ \A s \in Order : s \in Int
  BY Bearings, Zenon
<1>4. NodeStage(c) /\ \A s \in Order : ServiceStage(c, s)
  BY Zenon DEF StageInv
<1>5. loop'[Control] = "running"
  BY <1>1, <1>4, Zenon DEF NodeStage, Withdrawing
<1>6. \A s \in Order : Still(s)
  BY <1>1, Zenon DEF Still, serviceVars
<1>7. \A s \in Order : (s < at => Whole(s)) /\ (s > at => Withdrawn(s)) /\ (s = at => Whole(s))
  BY <1>1, <1>4, Zenon DEF ServiceStage, There, Here, Withdrawing
<1>8. \A s \in Order : /\ s < at => Whole(s)'
                       /\ s > at => Withdrawn(s)'
                       /\ s = at /\ s \notin registered => Withdrawn(s)'
                       /\ s = at /\ s \in registered => Up(s)'
  BY <1>6, <1>7, Grades, StaysPut, Zenon
<1>9. CASE at = 0 /\ pc'[c] = "network"
  <2>1. \A s \in Order : s > at
    BY <1>3, <1>9
  <2>2. \A s \in Order : Anywhere(c, s)'
    BY <2>1, <1>8, <1>9 DEF Anywhere
  <2>3. NodeStage(c)'
    BY <1>5, <1>9 DEF NodeStage, Rising, Withdrawing, Halting
  <2> QED
    BY <2>2, <2>3, <1>9, EntersAnywhere, Zenon
<1>10. CASE /\ at > 0 /\ at \in registered /\ at' = at /\ pc'[c] = "unregistering"
            /\ done'[c] = "none"
  <2>1. at' \in Order /\ at' \in Int
    BY <1>3, <1>10
  <2>2. NodeStage(c)'
    BY <2>1, <1>5, <1>10 DEF NodeStage, Rising, Withdrawing, Halting
  <2>3. ASSUME NEW s \in Order, s = at PROVE Here(c, s)'
    <3>1. Up(s)'
      BY <2>3, <1>8, <1>10, Zenon
    <3> QED
      BY <3>1, <1>10 DEF Here, Up
  <2>4. pc'[c] \in Withdrawing
    BY <1>10, Zenon DEF Withdrawing
  <2> QED
    BY <2>1, <2>2, <2>3, <2>4, <1>3, <1>8, <1>10, EntersWithdrawing, Zenon
<1>11. CASE at > 0 /\ at \notin registered /\ at' = at - 1 /\ pc'[c] = "unregister"
  <2>1. at' \in Int /\ \A s \in Order : (s <= at' => s < at) /\ (s > at' => s > at \/ s = at)
    BY <1>3, <1>11
  <2>2. NodeStage(c)'
    BY <1>5, <1>11 DEF NodeStage, Rising, Withdrawing, Halting
  <2>3. \A s \in Order : (s <= at' => Whole(s)') /\ (s > at' => Withdrawn(s)')
    BY <2>1, <1>8, <1>11, Zenon
  <2> QED
    BY <2>1, <2>2, <2>3, <1>3, <1>11, EntersUnregister, Zenon
<1> QED
  BY <1>2, <1>9, <1>10, <1>11

\* The task that unregisters has answered.
LEMMA UnregisteredStage ==
  ASSUME Shape, StageInv, NEW c \in Callers, Unregistered(c), Order' = Order
  PROVE  NodeStage(c)' /\ \A s \in Order : ServiceStage(c, s)'
<1>1. /\ pc[c] = "unregistering" /\ done[c] # "none" /\ pc'[c] = "unregister"
      /\ UNCHANGED <<server, loop, started, registry, calls>>
      /\ registered' = registered \ {at} /\ at' = at - 1
  BY Tables, Zenon DEF Unregistered, loopVars, Goto
<1>2. NodeStage(c) /\ \A s \in Order : ServiceStage(c, s)
  BY Zenon DEF StageInv
<1>3. at \in Order /\ loop'[Control] = "running"
  BY <1>1, <1>2, Zenon DEF NodeStage, Withdrawing
<1>4. Order = 1..LastService /\ LastService \in Nat /\ \A s \in Order : s \in Int
  BY Bearings, Zenon
<1>5. \A s \in Order : (s < at => Whole(s)) /\ (s > at => Withdrawn(s))
  BY <1>1, <1>2, Zenon DEF ServiceStage, There, Withdrawing
<1>6. \A s \in Order : s # at => Still(s)
  BY <1>1 DEF Still
<1>7. /\ at' \in Int
      /\ \A s \in Order : /\ s <= at' => s < at /\ s # at
                          /\ s > at' => s = at \/ (s > at /\ s # at)
  BY <1>1, <1>3, <1>4
<1>8. ASSUME NEW s \in Order, s = at PROVE Lone(s)'
  <2>1. loop[at] = "running" /\ at \in started /\ Count(at, 1, 0) /\ at \notin registry
    BY <1>1, <1>2, <1>3, Zenon DEF ServiceStage, Here
  <2>2. at \notin registered'
    BY <1>1
  <2>3. /\ loop'[at] = "running" /\ at \in started' /\ at \notin registry'
        /\ calls'[at].start = 1 /\ calls'[at].stop = 0
    BY <2>1, <1>1, Zenon DEF Count
  <2> QED
    BY <1>8, <2>2, <2>3, Zenon DEF Lone, Hidden, Count
<1>9. ASSUME NEW s \in Order PROVE (s <= at' => Whole(s)') /\ (s > at' => Withdrawn(s)')
  <2>1. s # at => (Whole(s) => Whole(s)') /\ (Withdrawn(s) => Withdrawn(s)')
    BY <1>6, StaysPut, Zenon
  <2>2. Lone(s)' => Withdrawn(s)'
    BY Zenon DEF Withdrawn
  <2> QED
    BY <2>1, <2>2, <1>5, <1>7, <1>8, Zenon
<1>10. NodeStage(c)'
  BY <1>1, <1>3 DEF NodeStage, Rising, Withdrawing, Halting
<1> QED
  BY <1>1, <1>4, <1>7, <1>9, <1>10, EntersUnregister, Zenon

\* The server and the control Loop are taken down between the two loops.
LEMMA NetworkStage ==
  ASSUME Shape, StageInv, NEW c \in Callers, Order' = Order,
         CloseNetwork(c) \/ CloseControl(c) \/ ControlClosed(c)
  PROVE  NodeStage(c)' /\ \A s \in Order : ServiceStage(c, s)'
<1>1. /\ Control \in Loops /\ \A s \in Order : s \in Int /\ s # Control /\ s \in Loops
      /\ LastService \in Nat /\ Order = 1..LastService
  BY Bearings, Zenon
<1>2. /\ UNCHANGED serviceVars /\ \A s \in Order : loop'[s] = loop[s]
      /\ \/ /\ pc[c] = "network" /\ pc'[c] = "close" /\ server' = "down"
            /\ loop'[Control] = loop[Control]
         \/ /\ pc[c] = "close" /\ pc'[c] = "closing" /\ server' = server
            /\ loop'[Control] = "closing"
         \/ /\ pc[c] = "closing" /\ pc'[c] = "stop" /\ server' = server
            /\ loop'[Control] = "ended" /\ at' = LastService
  BY <1>1, Tables, Zenon DEF CloseNetwork, CloseControl, CloseControlLoop, Close,
     ControlClosed, Goto, loopVars
<1>3. NodeStage(c) /\ \A s \in Order : ServiceStage(c, s)
  BY Zenon DEF StageInv
<1>4. \A s \in Order : Withdrawn(s)
  BY <1>2, <1>3, Zenon DEF ServiceStage, Anywhere
<1>5. \A s \in Order : Still(s)
  BY <1>2, Zenon DEF Still, serviceVars
<1>6. \A s \in Order : Withdrawn(s)'
  BY <1>4, <1>5, StaysPut, Zenon
<1>7. NodeStage(c)'
  BY <1>2, <1>3 DEF NodeStage, Rising, Withdrawing, Halting
<1>8. CASE pc'[c] \in {"close", "closing"}
  <2>1. \A s \in Order : Anywhere(c, s)'
    BY <1>6, <1>8 DEF Anywhere
  <2> QED
    BY <2>1, <1>7, <1>8, EntersAnywhere, Zenon
<1>9. CASE pc'[c] = "stop" /\ at' = LastService
  <2>1. at' \in Int /\ \A s \in Order : s \in Int /\ ~(s > at')
    BY <1>1, <1>9
  <2> QED
    BY <2>1, <1>6, <1>7, <1>9, EntersStop, Zenon
<1> QED
  BY <1>2, <1>8, <1>9, Zenon

\* The loop that stops comes to a Service: it is quiet already, or its Stop is
\* posted to its Loop.
LEMMA StopServiceStage ==
  ASSUME Shape, StageInv, NEW c \in Callers, StopService(c), Order' = Order
  PROVE  NodeStage(c)' /\ \A s \in Order : ServiceStage(c, s)'
<1>1. pc[c] = "stop" /\ UNCHANGED <<server, loop, serviceVars>>
  BY Zenon DEF StopService, loopVars, callOnLoop
<1>2. \/ at = 0 /\ pc'[c] = "finish"
      \/ /\ at > 0 /\ at \in started /\ at' = at /\ pc'[c] = "stopping"
         /\ done'[c] = "none"
      \/ at > 0 /\ at \notin started /\ at' = at - 1 /\ pc'[c] = "stop"
  BY <1>1, Tables, Zenon DEF StopService, MustStop, callOnLoop, Goto
<1>3. /\ LastService \in Nat /\ Order = 1..LastService /\ at \in 0..LastService
      /\ \A s \in Order : s \in Int
  BY Bearings, Zenon
<1>4. NodeStage(c) /\ \A s \in Order : ServiceStage(c, s)
  BY Zenon DEF StageInv
<1>5. loop'[Control] = "ended" /\ server' = "down"
  BY <1>1, <1>4, Zenon DEF NodeStage, Halting
<1>6. \A s \in Order : Still(s)
  BY <1>1, Zenon DEF Still, serviceVars
<1>7. \A s \in Order : /\ s < at => Withdrawn(s)
                       /\ s > at => Quiet(s)
                       /\ s = at => Withdrawn(s)
  BY <1>1, <1>4, Zenon DEF ServiceStage, There, Here, Halting
<1>8. \A s \in Order : /\ s < at => Withdrawn(s)'
                       /\ s > at => Quiet(s)'
                       /\ s = at /\ s \notin started => Quiet(s)'
                       /\ s = at /\ s \in started => Lone(s)'
  BY <1>6, <1>7, Grades, StaysPut, Zenon
<1>9. CASE at = 0 /\ pc'[c] = "finish"
  <2>1. \A s \in Order : s > at
    BY <1>3, <1>9
  <2>2. \A s \in Order : Anywhere(c, s)'
    BY <2>1, <1>8, <1>9 DEF Anywhere
  <2>3. NodeStage(c)'
    BY <1>5, <1>9 DEF NodeStage, Rising, Withdrawing, Halting
  <2> QED
    BY <2>2, <2>3, <1>9, EntersAnywhere, Zenon
<1>10. CASE /\ at > 0 /\ at \in started /\ at' = at /\ pc'[c] = "stopping"
            /\ done'[c] = "none"
  <2>1. at' \in Order /\ at' \in Int
    BY <1>3, <1>10
  <2>2. NodeStage(c)'
    BY <2>1, <1>5, <1>10 DEF NodeStage, Rising, Withdrawing, Halting
  <2>3. ASSUME NEW s \in Order, s = at PROVE Here(c, s)'
    <3>1. Lone(s)' /\ Answered(c)' = 0
      BY <2>3, <1>8, <1>10, Zenon DEF Answered
    <3> QED
      BY <3>1, <1>10 DEF Here, Lone
  <2>4. pc'[c] \in Halting
    BY <1>10, Zenon DEF Halting
  <2> QED
    BY <2>1, <2>2, <2>3, <2>4, <1>3, <1>8, <1>10, EntersHalting, Zenon
<1>11. CASE at > 0 /\ at \notin started /\ at' = at - 1 /\ pc'[c] = "stop"
  <2>1. at' \in Int /\ \A s \in Order : (s <= at' => s < at) /\ (s > at' => s > at \/ s = at)
    BY <1>3, <1>11
  <2>2. NodeStage(c)'
    BY <1>5, <1>11 DEF NodeStage, Rising, Withdrawing, Halting
  <2>3. \A s \in Order : (s <= at' => Withdrawn(s)') /\ (s > at' => Quiet(s)')
    BY <2>1, <1>8, <1>11, Zenon
  <2> QED
    BY <2>1, <2>2, <2>3, <1>3, <1>11, EntersStop, Zenon
<1> QED
  BY <1>2, <1>9, <1>10, <1>11

\* The Stop of the Service has returned and its Loop is closed.
LEMMA ServiceStoppedStage ==
  ASSUME Shape, StageInv, NEW c \in Callers, ServiceStopped(c), Order' = Order
  PROVE  NodeStage(c)' /\ \A s \in Order : ServiceStage(c, s)'
<1>1. pc[c] = "stopping" /\ done[c] # "none"
  BY Zenon DEF ServiceStopped
<1>2. NodeStage(c) /\ \A s \in Order : ServiceStage(c, s)
  BY Zenon DEF StageInv
<1>3. at \in Order /\ loop[Control] = "ended" /\ server = "down"
  BY <1>1, <1>2, Zenon DEF NodeStage, Halting
<1>4. Control \in Loops /\ \A s \in Order : s \in Int /\ s # Control /\ s \in Loops
  BY Bearings, Zenon
<1>5. /\ pc'[c] = "stopped" /\ loop'[at] = "closing"
      /\ UNCHANGED <<at, server, serviceVars>>
      /\ \A l \in Loops : l # at => loop'[l] = loop[l]
  BY <1>3, <1>4, Tables, Zenon DEF ServiceStopped, Close, Goto
<1>6. \A s \in Order : s # at => Still(s)
  BY <1>4, <1>5, Zenon DEF Still, serviceVars
<1>7. \A s \in Order : (s < at => Withdrawn(s)) /\ (s > at => Quiet(s))
  BY <1>1, <1>2, Zenon DEF ServiceStage, There, Halting
<1>8. \A s \in Order : s < at \/ s > at => s # at
  BY <1>3, <1>4
<1>9. \A s \in Order : (s < at => Withdrawn(s)') /\ (s > at => Quiet(s)')
  BY <1>6, <1>7, <1>8, StaysPut, Zenon
<1>10. ASSUME NEW s \in Order, s = at PROVE Here(c, s)'
  <2>1. Hidden(s) /\ s \in started /\ Count(s, 1, 1)
    BY <1>1, <1>2, <1>10, Zenon DEF ServiceStage, Here, Answered
  <2>2. Hidden(s)' /\ s \in started' /\ Count(s, 1, 1)'
    BY <2>1, <1>5, Zenon DEF serviceVars, Hidden, Count
  <2> QED
    BY <2>2, <1>5, <1>10 DEF Here
<1>11. loop'[Control] = "ended" /\ pc'[c] \in Halting /\ at' \in Int
  BY <1>3, <1>4, <1>5, Zenon DEF Halting
<1>12. NodeStage(c)'
  BY <1>3, <1>5, <1>11 DEF NodeStage, Rising, Withdrawing, Halting
<1> QED
  BY <1>4, <1>5, <1>9, <1>10, <1>11, <1>12, EntersHalting, Zenon

\* The Loop of the Service has ended: the Service is gone.
LEMMA LoopClosedStage ==
  ASSUME Shape, StageInv, NEW c \in Callers, ServiceLoopClosed(c), Order' = Order
  PROVE  NodeStage(c)' /\ \A s \in Order : ServiceStage(c, s)'
<1>1. /\ pc[c] = "stopped" /\ loop[at] = "ended" /\ pc'[c] = "stop"
      /\ UNCHANGED <<server, loop, registered, registry, calls>>
      /\ started' = started \ {at} /\ at' = at - 1
  BY Tables, Zenon DEF ServiceLoopClosed, loopVars, Goto
<1>2. NodeStage(c) /\ \A s \in Order : ServiceStage(c, s)
  BY Zenon DEF StageInv
<1>3. at \in Order /\ loop'[Control] = "ended" /\ server' = "down"
  BY <1>1, <1>2, Zenon DEF NodeStage, Halting
<1>4. Order = 1..LastService /\ LastService \in Nat /\ \A s \in Order : s \in Int
  BY Bearings, Zenon
<1>5. \A s \in Order : (s < at => Withdrawn(s)) /\ (s > at => Quiet(s))
  BY <1>1, <1>2, Zenon DEF ServiceStage, There, Halting
<1>6. \A s \in Order : s # at => Still(s)
  BY <1>1 DEF Still
<1>7. /\ at' \in Int
      /\ \A s \in Order : /\ s <= at' => s < at /\ s # at
                          /\ s > at' => s = at \/ (s > at /\ s # at)
  BY <1>1, <1>3, <1>4
<1>8. ASSUME NEW s \in Order, s = at PROVE Gone(s)'
  <2>1. Hidden(s) /\ Count(s, 1, 1)
    BY <1>1, <1>2, <1>8, Zenon DEF ServiceStage, Here
  <2>2. s \notin started'
    BY <1>1, <1>8
  <2>3. Hidden(s)' /\ Count(s, 1, 1)' /\ loop'[s] = "ended"
    BY <2>1, <1>1, <1>8, Zenon DEF Hidden, Count
  <2> QED
    BY <2>2, <2>3, Zenon DEF Gone
<1>9. ASSUME NEW s \in Order PROVE (s <= at' => Withdrawn(s)') /\ (s > at' => Quiet(s)')
  <2>1. s # at => (Withdrawn(s) => Withdrawn(s)') /\ (Quiet(s) => Quiet(s)')
    BY <1>6, StaysPut, Zenon
  <2>2. Gone(s)' => Quiet(s)'
    BY Zenon DEF Quiet
  <2> QED
    BY <2>1, <2>2, <1>5, <1>7, <1>8, Zenon
<1>10. NodeStage(c)'
  BY <1>1, <1>3 DEF NodeStage, Rising, Withdrawing, Halting
<1> QED
  BY <1>1, <1>4, <1>7, <1>9, <1>10, EntersStop, Zenon

\* A Loop answers a caller that waits at a Service: the other Services stay.
LEMMA AnswerStage ==
  ASSUME Shape, LifeInv, StageInv, Order' = Order, NEW c \in Callers, pc[c] \in Waiting,
         UNCHANGED <<pc, at, server, loop>>, \A s \in Order : s # at => Still(s),
         \A s \in Order : s = at => Here(c, s)'
  PROVE  StageInv'
<1>1. NodeStage(c) /\ \A s \in Order : ServiceStage(c, s)
  BY Zenon DEF StageInv
<1>2. pc'[c] = pc[c] /\ Busy(c)
  BY Zenon DEF Busy, Waiting
<1>3. NodeStage(c)'
  BY <1>1, <1>2, Zenon DEF NodeStage
<1>4. at \in Order
  BY <1>1, Zenon DEF NodeStage, Waiting, Rising
<1>5. \A s \in Order : s < at \/ s > at => s # at
  BY <1>4, Bearings
<1>6. ASSUME NEW s \in Order PROVE ServiceStage(c, s)'
  <2>1. Anywhere(c, s)'
    BY <1>2, Zenon DEF Anywhere, Waiting
  <2>2. There(c, s)
    BY <1>1, Zenon DEF ServiceStage
  <2>3. There(c, s)'
    BY <2>2, <1>2, <1>5, StaysPut, Zenon DEF There
  <2> QED
    BY <2>1, <2>3, Zenon DEF ServiceStage
<1> QED
  BY <1>2, <1>3, <1>6, WorkerStage, Zenon

\* The caller whose task a Loop takes, the Service it is at, and its answer.
LEMMA TaskAt ==
  ASSUME Shape, StageInv, TaskInv, NEW l \in Loops, NEW what, Takes(l, what),
         what \in {"start", "stop", "register", "unregister"} \/ Asker(l) \in Callers
  PROVE  \E c \in Callers :
           /\ c = Asker(l) /\ Waits(c, l, what) /\ pc[c] \in Waiting /\ done[c] = "none"
           /\ at \in Order /\ Here(c, at) /\ \A v : Answer(Asker(l), v) => done'[c] = v
<1>1. /\ Asker(l) \in Callers /\ Waits(Asker(l), l, what)
      /\ done[Asker(l)] = "none"
  BY Asked, Zenon
<1>2. pc[Asker(l)] \in Waiting
  BY <1>1, Zenon DEF Waits, Waiting
<1>3. NodeStage(Asker(l)) /\ \A s \in Order : ServiceStage(Asker(l), s)
  BY <1>1, Zenon DEF StageInv
<1>4. at \in Order
  BY <1>2, <1>3, Zenon DEF NodeStage, Waiting, Rising
<1>5. Asker(l) \in Callers \cup Order
  BY <1>1, Zenon
<1>6. ASSUME NEW v, Answer(Asker(l), v) PROVE done'[Asker(l)] = v
  BY <1>5, <1>6, Tables, Zenon DEF Answer
<1> QED
  BY <1>1, <1>2, <1>3, <1>4, <1>6, Zenon DEF ServiceStage

\* The control Loop registers the Service that Start is at, or refuses.
LEMMA RegisterStage ==
  ASSUME Shape, LifeInv, StageInv, TaskInv, Order' = Order, RegisterTask
  PROVE  StageInv' /\ at \in Order
<1>1. Control \in Loops /\ Takes(Control, "register")
  BY Bearings, Zenon DEF RegisterTask
<1>2. PICK c \in Callers :
        /\ Waits(c, Control, "register") /\ pc[c] \in Waiting /\ done[c] = "none"
        /\ at \in Order /\ Here(c, at) /\ \A v : Answer(Asker(Control), v) => done'[c] = v
  BY <1>1, TaskAt, Zenon
<1>3. pc[c] = "registering"
  BY <1>2 DEF Waits
<1>4. /\ UNCHANGED <<pc, at, server, loop, started, registered, calls>>
      /\ \/ registry' = registry \cup {at} /\ done'[c] = "ok"
         \/ registry' = registry /\ done'[c] = "err"
  BY <1>2, Zenon DEF RegisterTask
<1>5. \A s \in Order : s # at => Still(s)
  <2>1. \A s \in Order : s # at => (s \in registry' <=> s \in registry)
    BY <1>4
  <2> QED
    BY <2>1, <1>4, Zenon DEF Still
<1>6. ASSUME NEW s \in Order, s = at PROVE Here(c, s)'
  <2>1. /\ loop[s] = "running" /\ s \in started /\ Count(s, 1, 0)
        /\ s \notin registered /\ (s \in registry <=> done[c] = "ok") /\ done[c] = "none"
    BY <1>2, <1>3, <1>6, Zenon DEF Here
  <2>2. Count(s, 1, 0)'
    BY <2>1, <1>4, Zenon DEF Count
  <2>3. s \in registry' <=> done'[c] = "ok"
    BY <2>1, <1>4, <1>6
  <2>4. /\ pc'[c] = "registering" /\ loop'[s] = "running" /\ s \in started'
        /\ s \notin registered'
    BY <2>1, <1>3, <1>4, Zenon
  <2> QED
    BY <2>2, <2>3, <2>4 DEF Here
<1> QED
  BY <1>2, <1>4, <1>5, <1>6, AnswerStage, Zenon

\* The control Loop takes the Service that Stop is at out of the registry.
LEMMA UnregisterTaskStage ==
  ASSUME Shape, LifeInv, StageInv, TaskInv, Order' = Order, UnregisterTask
  PROVE  StageInv'
<1>1. Control \in Loops /\ Takes(Control, "unregister")
  BY Bearings, Zenon DEF UnregisterTask
<1>2. PICK c \in Callers :
        /\ Waits(c, Control, "unregister") /\ pc[c] \in Waiting /\ done[c] = "none"
        /\ at \in Order /\ Here(c, at) /\ \A v : Answer(Asker(Control), v) => done'[c] = v
  BY <1>1, TaskAt, Zenon
<1>3. pc[c] = "unregistering"
  BY <1>2 DEF Waits
<1>4. /\ UNCHANGED <<pc, at, server, loop, started, registered, calls>>
      /\ registry' = registry \ {at} /\ done'[c] = "ok"
  BY <1>2, Zenon DEF UnregisterTask
<1>5. \A s \in Order : s # at => Still(s)
  <2>1. \A s \in Order : s # at => (s \in registry' <=> s \in registry)
    BY <1>4
  <2> QED
    BY <2>1, <1>4, Zenon DEF Still
<1>6. ASSUME NEW s \in Order, s = at PROVE Here(c, s)'
  <2>1. loop[s] = "running" /\ s \in started /\ Count(s, 1, 0) /\ s \in registered
    BY <1>2, <1>3, <1>6, Zenon DEF Here
  <2>2. Count(s, 1, 0)'
    BY <2>1, <1>4, Zenon DEF Count
  <2>3. s \in registry' <=> done'[c] = "none"
    BY <1>4, <1>6
  <2>4. /\ pc'[c] = "unregistering" /\ loop'[s] = "running" /\ s \in started'
        /\ s \in registered'
    BY <2>1, <1>3, <1>4, Zenon
  <2> QED
    BY <2>2, <2>3, <2>4 DEF Here
<1> QED
  BY <1>2, <1>4, <1>5, <1>6, AnswerStage, Zenon

\* The control Loop answers a subscription, of Start or of a handler.
LEMMA SubscribeStage ==
  ASSUME Shape, LifeInv, StageInv, TaskInv, Order' = Order, SubscribeTask
  PROVE  StageInv'
<1>1. /\ Control \in Loops /\ Takes(Control, "subscribe")
      /\ Asker(Control) \in Callers \cup Order
  BY Bearings, Taking, Zenon DEF SubscribeTask
<1>2. UNCHANGED <<pc, at, server, loop, serviceVars>> /\ \E v : Answer(Asker(Control), v)
  BY Zenon DEF SubscribeTask
<1>3. \A s \in Order : Still(s)
  BY <1>2, Zenon DEF Still, serviceVars
<1>4. CASE Asker(Control) \in Callers
  <2>1. PICK c \in Callers :
          Waits(c, Control, "subscribe") /\ pc[c] \in Waiting /\ Here(c, at)
    BY <1>1, <1>4, TaskAt, Zenon
  <2>2. pc[c] = "subscribing"
    BY <2>1 DEF Waits
  <2>3. ASSUME NEW s \in Order, s = at PROVE Here(c, s)'
    <3>1. Up(s)
      BY <2>1, <2>2, <2>3, Zenon DEF Here
    <3>2. Up(s)' /\ pc'[c] = "subscribing"
      BY <3>1, <2>2, <1>2, <1>3, StaysPut, Zenon
    <3> QED
      BY <3>2 DEF Here
  <2> QED
    BY <2>1, <2>3, <1>2, <1>3, <1>4, AnswerStage, Zenon
<1>5. CASE Asker(Control) \notin Callers
  <2>1. \A q \in Callers : done'[q] = done[q]
    BY <1>2, <1>5, Tables DEF Answer
  <2> QED
    BY <2>1, <1>2, StageKept, Zenon
<1> QED
  BY <1>4, <1>5

\* Service.Start or Service.Stop runs on the Service's Loop, once.
LEMMA RunStage ==
  ASSUME Shape, LifeInv, StageInv, TaskInv, Order' = Order, NEW s \in Order,
         StartTask(s) \/ StopTask(s)
  PROVE  StageInv'
<1>1. s \in Loops /\ s # Control /\ \E what \in {"start", "stop"} : Takes(s, what)
  BY Bearings, Zenon DEF StartTask, StopTask
<1>2. PICK c \in Callers :
        /\ pc[c] \in Waiting /\ done[c] = "none" /\ at \in Order
        /\ Here(c, at) /\ \A v : Answer(Asker(s), v) => done'[c] = v
        /\ StartTask(s) => Waits(c, s, "start")
        /\ ~StartTask(s) => Waits(c, s, "stop")
  <2>1. CASE StartTask(s)
    BY <2>1, <1>1, TaskAt, Zenon DEF StartTask
  <2>2. CASE ~StartTask(s)
    BY <2>2, <1>1, TaskAt, Zenon DEF StopTask
  <2> QED
    BY <2>1, <2>2
<1>3. /\ s = at
      /\ StartTask(s) => pc[c] = "starting"
      /\ ~StartTask(s) => pc[c] \in {"undoing", "stopping"}
  BY <1>1, <1>2 DEF Waits
<1>4. /\ UNCHANGED <<pc, at, server, loop, started, registered, registry>>
      /\ done'[c] # "none"
  BY <1>2 DEF StartTask, StopTask
<1>5. /\ calls \in [Order -> [start : Nat, stop : Nat]]
      /\ StartTask(s) => calls' = [calls EXCEPT ![s].start = calls[s].start + 1]
      /\ ~StartTask(s) => calls' = [calls EXCEPT ![s].stop = calls[s].stop + 1]
  BY Zenon DEF StartTask, StopTask, Shape
<1>6. /\ \A t \in Order : t # s => calls'[t] = calls[t]
      /\ StartTask(s) => calls'[s].start = calls[s].start + 1 /\ calls'[s].stop = calls[s].stop
      /\ ~StartTask(s) => calls'[s].start = calls[s].start /\ calls'[s].stop = calls[s].stop + 1
  BY <1>5
<1>7. \A t \in Order : t # at => Still(t)
  BY <1>3, <1>4, <1>6, Zenon DEF Still
<1>8. Here(c, s)'
  <2>1. Answered(c) = 0 /\ Answered(c)' = 1 /\ Here(c, s) /\ pc'[c] = pc[c]
    BY <1>2, <1>3, <1>4, Zenon DEF Answered
  <2>2. CASE StartTask(s)
    <3>1. s \notin started /\ Hidden(s) /\ loop[s] = "running" /\ Count(s, 0, 0)
      BY <2>1, <2>2, <1>3, Zenon DEF Here
    <3>2. s \notin started' /\ Hidden(s)' /\ loop'[s] = "running"
      BY <3>1, <1>4, Zenon DEF Hidden
    <3>3. Count(s, Answered(c), 0)'
      BY <3>1, <2>1, <2>2, <1>6 DEF Count
    <3> QED
      BY <3>2, <3>3, <2>1, <2>2, <1>3 DEF Here
  <2>3. CASE ~StartTask(s)
    <3>1. /\ loop[s] = "running" /\ Count(s, 1, 0) /\ Hidden(s)
          /\ pc[c] = "undoing" => s \notin started
          /\ pc[c] = "stopping" => s \in started
      BY <2>1, <2>3, <1>3, Zenon DEF Here
    <3>2. /\ loop'[s] = "running" /\ Hidden(s)'
          /\ pc[c] = "undoing" => s \notin started'
          /\ pc[c] = "stopping" => s \in started'
      BY <3>1, <1>4, Zenon DEF Hidden
    <3>3. Count(s, 1, Answered(c))'
      BY <3>1, <2>1, <2>3, <1>6 DEF Count
    <3> QED
      BY <3>2, <3>3, <2>1, <2>3, <1>3 DEF Here
  <2> QED
    BY <2>2, <2>3
<1> QED
  BY <1>2, <1>3, <1>4, <1>7, <1>8, AnswerStage, Zenon

\* Only the Loop that the caller at work has closed is closing.
LEMMA Closing ==
  ASSUME Shape, StageInv, NEW c \in Callers, Busy(c), NEW l \in Loops, loop[l] = "closing"
  PROVE  \/ l = Control /\ pc[c] = "closing"
         \/ l \in Order /\ l = at /\ pc[c] \in {"undone", "stopped"}
<1>1. NodeStage(c) /\ \A s \in Order : ServiceStage(c, s)
  BY Zenon DEF StageInv
<1>2. pc[c] \in Labels /\ pc[c] \notin {"idle", "returned"}
  BY Tables, Zenon DEF Busy
<1>3. CASE l = Control
  BY <1>1, <1>2, <1>3 DEF NodeStage, Labels, Falling
<1>4. CASE l \in Order
  <2>1. ~Fresh(l) /\ ~Up(l) /\ ~Withdrawn(l) /\ ~Whole(l) /\ ~Quiet(l)
    BY DEF Fresh, Up, Withdrawn, Whole, Quiet, Lone, Gone
  <2>2. Anywhere(c, l) /\ There(c, l) /\ (l = at => Here(c, l))
    BY <1>1, <1>4, Zenon DEF ServiceStage
  <2>3. pc[c] \in Rising \cup Withdrawing \cup Halting
    BY <2>1, <2>2, <1>2 DEF Anywhere, Labels, Falling
  <2>4. ~(l < at) /\ ~(l > at)
    BY <2>1, <2>2, <2>3, Zenon DEF There
  <2>5. l = at
    BY <2>4, <1>4, Bearings
  <2>6. pc[c] \in {"undone", "stopped"}
    BY <2>1, <2>2, <2>3, <2>5 DEF Here, Rising, Withdrawing, Halting
  <2> QED
    BY <2>5, <2>6, <1>4
<1> QED
  BY <1>3, <1>4, Zenon DEF Loops

\* Who is at work in which state, and nobody is in the others.
LEMMA BusyLife ==
  ASSUME LifeInv, NEW c \in Callers, Busy(c)
  PROVE  life \in {"Starting", "Stopping"}
  BY Zenon DEF LifeInv, Callers

\* While the Node starts or stops some call is at it.
LEMMA SomebodyBusy ==
  ASSUME LifeInv, life \in {"Starting", "Stopping"}
  PROVE  \E c \in Callers : Busy(c)
  BY Zenon DEF LifeInv, Callers

\* A closed Loop ends.
LEMMA EndsStage ==
  ASSUME Shape, LifeInv, RestInv, StageInv, Order' = Order, NEW l \in Loops, LoopEnds(l)
  PROVE  StageInv' /\ life \in {"Starting", "Stopping"}
<1>1. /\ loop[l] = "closing" /\ loop'[l] = "ended"
      /\ UNCHANGED <<pc, at, server, done, serviceVars>>
      /\ \A m \in Loops : m # l => loop'[m] = loop[m]
  BY Tables, Zenon DEF LoopEnds
<1>2. life \in {"Starting", "Stopping"}
  <2> SUFFICES ASSUME life \notin {"Starting", "Stopping"} PROVE FALSE
    BY Zenon
  <2>1. /\ \A s \in Order : Quiet(s) \/ Up(s)
        /\ loop[Control] \in {"new", "running", "ended"}
    BY DEF RestInv, Shape, Quiet
  <2>2. \A s \in Order : loop[s] # "closing"
    BY <2>1 DEF Quiet, Up, Fresh, Gone
  <2> QED
    BY <2>1, <2>2, <1>1 DEF Loops
<1>3. PICK c \in Callers : Busy(c)
  BY <1>2, SomebodyBusy, Zenon
<1>4. NodeStage(c) /\ \A s \in Order : ServiceStage(c, s)
  BY Zenon DEF StageInv
<1>5. pc'[c] = pc[c] /\ \A q \in Callers : q # c => pc'[q] = pc[q]
  BY <1>1, Zenon
<1>6. CASE l = Control /\ pc[c] = "closing"
  <2>1. NodeStage(c)'
    BY <1>1, <1>4, <1>5, <1>6 DEF NodeStage, Rising, Withdrawing, Halting
  <2>2. \A s \in Order : Still(s)
    BY <1>1, <1>6, Bearings, Zenon DEF Still, serviceVars
  <2>3. \A s \in Order : Withdrawn(s)
    BY <1>4, <1>6, Zenon DEF ServiceStage, Anywhere
  <2>4. \A s \in Order : Withdrawn(s)'
    BY <2>2, <2>3, StaysPut, Zenon
  <2>5. \A s \in Order : Anywhere(c, s)'
    BY <2>4, <1>5, <1>6 DEF Anywhere
  <2>6. \A s \in Order : ServiceStage(c, s)'
    BY <2>5, <1>5, <1>6, EntersAnywhere, Zenon
  <2> QED
    BY <2>1, <2>6, <1>2, <1>3, <1>5, WorkerStage, Zenon
<1>7. CASE l \in Order /\ l = at /\ pc[c] \in {"undone", "stopped"}
  <2>1. \A s \in Order : s # at => Still(s)
    BY <1>1, <1>7, Bearings, Zenon DEF Still, serviceVars
  <2>2. ASSUME NEW s \in Order, s = at PROVE Here(c, s)'
    <3>1. /\ Hidden(s) /\ Count(s, 1, 1)
          /\ pc[c] = "undone" => s \notin started
          /\ pc[c] = "stopped" => s \in started
      BY <2>2, <1>4, <1>7, Zenon DEF ServiceStage, Here
    <3>2. Hidden(s)' /\ Count(s, 1, 1)' /\ started' = started
      BY <3>1, <1>1, Zenon DEF Hidden, Count, serviceVars
    <3> QED
      BY <3>1, <3>2, <2>2, <1>1, <1>5, <1>7 DEF Here
  <2>3. loop'[Control] = loop[Control]
    BY <1>1, <1>7, Bearings, Zenon
  <2>4. NodeStage(c)'
    BY <2>3, <1>1, <1>4, <1>5, Zenon DEF NodeStage
  <2>5. \A s \in Order : s < at \/ s > at => s # at
    BY <1>7, Bearings
  <2>6. ASSUME NEW s \in Order PROVE ServiceStage(c, s)'
    <3>1. Anywhere(c, s)'
      BY <1>5, <1>7, Zenon DEF Anywhere
    <3>2. There(c, s)
      BY <1>4, Zenon DEF ServiceStage
    <3>3. There(c, s)'
      BY <3>2, <2>1, <2>5, <1>1, <1>5, StaysPut, Zenon DEF There
    <3> QED
      BY <3>1, <3>3, <2>2, <1>1, Zenon DEF ServiceStage
  <2> QED
    BY <2>4, <2>6, <1>2, <1>3, <1>5, WorkerStage, Zenon
<1> QED
  BY <1>1, <1>3, <1>6, <1>7, Closing, Zenon

\* Start begins: nothing has been started yet.
LEMMA BeginStage ==
  ASSUME Shape, LifeInv, RestInv, StageInv, Order' = Order, Start
  PROVE  StageInv'
<1>1. /\ Starter \in Callers /\ UNCHANGED <<at, server, loop, serviceVars, done>>
      /\ life \notin {"Starting", "Stopping"}
  BY Bearings, Zenon DEF Start, loopVars, LifeInv, Busy
<1>2. /\ \A q \in Callers : q # Starter => pc'[q] = pc[q]
      /\ \/ life = "Initial" /\ pc'[Starter] = "control"
         \/ pc'[Starter] = "returned"
  BY <1>1, Tables, Zenon DEF Start, Goto
<1>3. \A q \in Callers : pc[q] \in {"idle", "returned"}
  BY <1>1, BusyLife, Zenon DEF Busy
<1>4. CASE life = "Initial" /\ pc'[Starter] = "control"
  <2>1. loop[Control] = "new" /\ server = "down" /\ \A s \in Order : Fresh(s)
    BY <1>4, Zenon DEF RestInv
  <2>2. NodeStage(Starter)'
    BY <2>1, <1>1, <1>4 DEF NodeStage, Rising, Withdrawing, Halting
  <2>3. \A s \in Order : Still(s)
    BY <1>1, Zenon DEF Still, serviceVars
  <2>4. \A s \in Order : Fresh(s)'
    BY <2>1, <2>3, StaysPut, Zenon
  <2>5. \A s \in Order : Anywhere(Starter, s)'
    BY <2>4, <1>4 DEF Anywhere
  <2>6. \A s \in Order : ServiceStage(Starter, s)'
    BY <2>5, <1>4, EntersAnywhere, Zenon
  <2> QED
    BY <2>2, <2>6, <1>1, <1>2, <1>3, OneStage, Zenon
<1>5. CASE pc'[Starter] = "returned"
  <2>1. \A q \in Callers : pc'[q] \in {"idle", "returned"}
    BY <1>2, <1>3, <1>5, Zenon
  <2> QED
    BY <2>1, NobodyStage, Zenon
<1> QED
  BY <1>2, <1>4, <1>5, Zenon

\* Stop begins: every Service is up; or it is over at once.
LEMMA StopStage ==
  ASSUME Shape, LifeInv, RestInv, StageInv, Order' = Order, NEW c \in Stoppers, Stop(c)
  PROVE  StageInv'
<1>1. /\ c \in Callers /\ UNCHANGED <<server, loop, serviceVars, done>>
      /\ life # "Stopping" /\ pc[c] = "idle"
  BY Zenon DEF Stop, loopVars, LifeInv, Callers
<1>2. /\ \A q \in Callers : q # c => pc'[q] = pc[q]
      /\ \/ life \in {"Initial", "Stopped"} /\ pc'[c] = "returned"
         \/ life = "Running" /\ pc'[c] = "unregister" /\ at' = LastService
         \/ life = "Starting" /\ pc'[c] = "returned" /\ at' = at
  BY <1>1, Tables, Zenon DEF Stop, Goto
<1>3. life # "Starting" => \A q \in Callers : pc[q] \in {"idle", "returned"}
  BY <1>1, BusyLife, Zenon DEF Busy
<1>4. CASE life \in {"Initial", "Stopped"} /\ pc'[c] = "returned"
  <2>1. \A q \in Callers : pc'[q] \in {"idle", "returned"}
    BY <1>2, <1>3, <1>4, Zenon
  <2> QED
    BY <2>1, NobodyStage, Zenon
<1>5. CASE life = "Running" /\ pc'[c] = "unregister" /\ at' = LastService
  <2>1. loop'[Control] = "running" /\ \A s \in Order : Up(s)
    BY <1>1, <1>5, Zenon DEF RestInv
  <2>2. \A s \in Order : Still(s)
    BY <1>1, Zenon DEF Still, serviceVars
  <2>3. \A s \in Order : Whole(s)'
    BY <2>1, <2>2, StaysPut, Zenon DEF Whole
  <2>4. NodeStage(c)' /\ \A s \in Order : ServiceStage(c, s)'
    BY <2>1, <2>3, <1>1, <1>5, BeginsUnregister, Zenon
  <2>5. \A q \in Callers : q # c => pc'[q] \in {"idle", "returned"}
    BY <1>2, <1>3, <1>5, Zenon
  <2> QED
    BY <2>4, <2>5, <1>1, OneStage, Zenon
<1>6. CASE life = "Starting" /\ pc'[c] = "returned" /\ at' = at
  <2>1. \A q \in Callers : Busy(q) \/ Busy(q)' => pc'[q] = pc[q] /\ done'[q] = done[q]
    BY <1>1, <1>2, <1>6, Zenon DEF Busy
  <2> QED
    BY <2>1, <1>1, <1>6, StageKept, Zenon
<1> QED
  BY <1>2, <1>4, <1>5, <1>6, Zenon

\* Start takes its steps from Service to Service.
LEMMA StartStage ==
  ASSUME Shape, LifeInv, StageInv, Order' = Order, StartNext
  PROVE  StageInv'
<1>1. Starter \in Callers /\ Busy(Starter)
  BY Bearings, Zenon DEF StartNext, StartControl, StartServer, StartService, ServiceStarted,
     ServiceUndone, ServiceGivenUp, ServiceRegistered, ServiceSubscribed, StartReturns, Busy
<1>2. \E label : Goto(Starter, label)
  BY Zenon DEF StartNext, StartControl, StartServer, StartService, ServiceStarted,
     UndoStart, ServiceUndone, ServiceGivenUp, ServiceRegistered, ServiceSubscribed,
     StartReturns, rollbackStart
<1>3. \A q \in Callers : q # Starter => pc'[q] = pc[q]
  BY <1>2, Tables, Zenon DEF Goto
<1>4. CASE StartReturns
  <2>1. pc'[Starter] = "returned"
    BY <1>1, <1>4, Tables, Zenon DEF StartReturns, Goto
  <2>2. \A q \in Callers : pc'[q] \in {"idle", "returned"}
    BY <2>1, <1>1, <1>3, Alone, Zenon DEF Busy
  <2> QED
    BY <2>2, NobodyStage, Zenon
<1>5. CASE ~StartReturns
  <2>1. NodeStage(Starter)' /\ \A s \in Order : ServiceStage(Starter, s)'
    BY <1>5, ControlStage, ServerStage, StartServiceStage, ServiceStartedStage,
       ServiceUndoneStage, ServiceGivenUpStage, ServiceRegisteredStage,
       ServiceSubscribedStage, Zenon DEF StartNext
  <2> QED
    BY <2>1, <1>1, <1>3, WorkerStage, Zenon
<1> QED
  BY <1>4, <1>5

\* Stop and rollbackStart take theirs.
LEMMA TearDownStage ==
  ASSUME Shape, LifeInv, StageInv, Order' = Order, NEW c \in Callers, TearDown(c)
  PROVE  StageInv'
<1>1. Busy(c)
  BY Zenon DEF TearDown, Unregister, Unregistered, CloseNetwork, CloseControl,
     ControlClosed, StopService, ServiceStopped, ServiceLoopClosed, Finish, Busy
<1>2. pc' = pc \/ \E label : Goto(c, label)
  BY Zenon DEF TearDown, Unregister, Unregistered, CloseNetwork, CloseControl,
     ControlClosed, StopService, ServiceStopped, ServiceLoopClosed, Finish
<1>3. \A q \in Callers : q # c => pc'[q] = pc[q]
  BY <1>2, Tables, Zenon DEF Goto
<1>4. CASE Finish(c)
  <2>1. pc'[c] = "returned"
    BY <1>4, Tables, Zenon DEF Finish, Goto
  <2>2. \A q \in Callers : pc'[q] \in {"idle", "returned"}
    BY <2>1, <1>1, <1>3, Alone, Zenon DEF Busy
  <2> QED
    BY <2>2, NobodyStage, Zenon
<1>5. CASE ~Finish(c)
  <2>1. NodeStage(c)' /\ \A s \in Order : ServiceStage(c, s)'
    BY <1>5, UnregisterStage, UnregisteredStage, NetworkStage, StopServiceStage,
       ServiceStoppedStage, LoopClosedStage, Zenon DEF TearDown
  <2> QED
    BY <2>1, <1>1, <1>3, WorkerStage, Zenon
<1> QED
  BY <1>4, <1>5

\* NewNode, the handlers and the messages leave callers and Services alone.
LEMMA AsideStage ==
  ASSUME Shape, StageInv, Order' = Order,
         \/ UNCHANGED vars \/ BuildNext
         \/ \E s \in Order : \/ Message(s) \/ Handle(s) \/ HandlerSubscribes(s)
                             \/ HandlerReturns(s)
  PROVE  StageInv' /\ UNCHANGED <<server, loop, serviceVars>>
<1>1. UNCHANGED <<pc, at, server, loop, serviceVars>>
  BY Zenon DEF vars, loopVars, BuildNext, NewNode, BuildService, Built, Message, Handle,
     HandlerSubscribes, callOnLoop, HandlerReturns
<1>2. done' = done \/ \E s \in Order : done' = [done EXCEPT ![s] = "none"]
  BY Zenon DEF vars, loopVars, BuildNext, NewNode, BuildService, Built, Message, Handle,
     HandlerSubscribes, callOnLoop, HandlerReturns
<1>3. \A c \in Callers : c \notin Order
  BY Apart, Zenon DEF Shape
<1>4. \A c \in Callers : done'[c] = done[c]
  BY <1>2, <1>3, Tables, Zenon
<1> QED
  BY <1>1, <1>4, StageKept, Zenon

\* Every step keeps the stages.
LEMMA StageStep ==
  ASSUME Shape, LifeInv, RestInv, StageInv, TaskInv, [Next]_vars
  PROVE  StageInv'
<1>1. Order' = Order
  BY Fixed, Zenon
<1>2. CASE \/ UNCHANGED vars \/ BuildNext
           \/ \E s \in Order : \/ Message(s) \/ Handle(s) \/ HandlerSubscribes(s)
                               \/ HandlerReturns(s)
  BY <1>1, <1>2, AsideStage, Zenon
<1>3. CASE Start \/ StartNext
  BY <1>1, <1>3, BeginStage, StartStage, Zenon
<1>4. CASE (\E c \in Stoppers : Stop(c)) \/ (\E c \in Callers : TearDown(c))
  BY <1>1, <1>4, StopStage, TearDownStage, Zenon
<1>5. CASE RegisterTask \/ UnregisterTask \/ SubscribeTask
  BY <1>1, <1>5, RegisterStage, UnregisterTaskStage, SubscribeStage, Zenon
<1>6. CASE \E s \in Order : StartTask(s) \/ StopTask(s)
  BY <1>1, <1>6, RunStage, Zenon
<1>7. CASE \E l \in Loops : LoopEnds(l)
  BY <1>1, <1>7, EndsStage, Zenon
<1> QED
  BY <1>2, <1>3, <1>4, <1>5, <1>6, <1>7, Zenon DEF Next, LoopNext

-----------------------------------------------------------------------------
(* A Node at rest *)

\* A step that leaves the Services and the Loops alone, and does not make a
\* Node run.
LEMMA RestKept ==
  ASSUME RestInv, Order' = Order, UNCHANGED <<server, loop, serviceVars>>,
         \/ life' = life
         \/ /\ life \in {"unborn", "building"}
            /\ life' \in {"unborn", "building", "refused", "Initial"}
         \/ life \in {"Initial", "Stopped"} /\ life' = "Stopped"
  PROVE  RestInv'
<1>1. \A s \in Order : Still(s)
  BY Zenon DEF Still, serviceVars
<1>2. \A s \in Order : /\ Fresh(s) => Fresh(s)' /\ Quiet(s)'
                       /\ Up(s) => Up(s)'
                       /\ Quiet(s) => Quiet(s)'
  BY <1>1, StaysPut, Zenon DEF Quiet
<1>3. CASE life' = life
  BY <1>2, <1>3, Zenon DEF RestInv
<1>4. CASE /\ life \in {"unborn", "building"}
           /\ life' \in {"unborn", "building", "refused", "Initial"}
  <2>1. (\A s \in Order : Fresh(s)) /\ loop[Control] = "new" /\ server = "down"
    BY <1>4, Zenon DEF RestInv
  <2> QED
    BY <2>1, <1>2, <1>4 DEF RestInv
<1>5. CASE life \in {"Initial", "Stopped"} /\ life' = "Stopped"
  <2>1. /\ \A s \in Order : Fresh(s) \/ Quiet(s)
        /\ loop[Control] \in {"new", "ended"} /\ server = "down"
    BY <1>5, Zenon DEF RestInv
  <2> QED
    BY <2>1, <1>2, <1>5 DEF RestInv
<1> QED
  BY <1>3, <1>4, <1>5

\* A caller is at work and remains so.
LEMMA RestBusy ==
  ASSUME LifeInv, NEW c \in Callers, Busy(c), life' = life
  PROVE  RestInv'
<1>1. life \in {"Starting", "Stopping"}
  BY BusyLife, Zenon
<1> QED
  BY <1>1 DEF RestInv

\* When nobody is at work nothing changes; when Start or Stop is done every
\* Service is up, or every one is quiet.
LEMMA RestStep ==
  ASSUME Shape, LifeInv, RestInv, StageInv, TaskInv, [Next]_vars
  PROVE  RestInv'
<1>a. Order' = Order /\ Control \in Loops /\ Starter \in Callers /\ \A s \in Order : s \in Loops
  BY Fixed, Bearings, Zenon
<1>1. CASE \/ UNCHANGED vars \/ BuildNext
           \/ \E s \in Order : \/ Message(s) \/ Handle(s) \/ HandlerSubscribes(s)
                               \/ HandlerReturns(s)
  <2>1. \/ life' = life
        \/ /\ life \in {"unborn", "building"}
           /\ life' \in {"unborn", "building", "refused", "Initial"}
    BY <1>1, Zenon DEF vars, BuildNext, NewNode, BuildService, Built, Message, Handle,
       HandlerSubscribes, HandlerReturns
  <2> QED
    BY <2>1, <1>1, <1>a, AsideStage, RestKept, Zenon
<1>2. CASE Start
  <2>1. UNCHANGED <<server, loop, serviceVars>> /\ life' \in {life, "Starting"}
    BY <1>2, Zenon DEF Start, loopVars
  <2>2. CASE life' = "Starting"
    BY <2>2 DEF RestInv
  <2> QED
    BY <2>1, <2>2, <1>a, RestKept, Zenon
<1>3. CASE StartReturns
  <2>1. pc[Starter] = "run" /\ life' = "Running" /\ UNCHANGED <<server, loop, serviceVars>>
    BY <1>3, Zenon DEF StartReturns, loopVars
  <2>2. loop[Control] = "running" /\ \A s \in Order : Up(s)
    BY <2>1, <1>a, Zenon DEF StageInv, NodeStage, ServiceStage, Anywhere
  <2>3. \A s \in Order : Still(s)
    BY <2>1, Zenon DEF Still, serviceVars
  <2>4. \A s \in Order : Up(s)'
    BY <2>2, <2>3, StaysPut, Zenon
  <2> QED
    BY <2>1, <2>2, <2>4, <1>a DEF RestInv
<1>4. CASE StartNext /\ ~StartReturns
  <2>1. Busy(Starter) /\ life' = life
    BY <1>4, Zenon DEF StartNext, StartControl, StartServer, StartService, ServiceStarted,
       ServiceUndone, ServiceGivenUp, ServiceRegistered, ServiceSubscribed, Busy
  <2> QED
    BY <2>1, <1>a, RestBusy, Zenon
<1>5. ASSUME NEW c \in Stoppers, Stop(c) PROVE RestInv'
  <2>1. /\ UNCHANGED <<server, loop, serviceVars>>
        /\ \/ life' = life
           \/ life \in {"Initial", "Stopped"} /\ life' = "Stopped"
           \/ life' = "Stopping"
    BY <1>5, Zenon DEF Stop, loopVars
  <2>2. CASE life' = "Stopping"
    BY <2>2 DEF RestInv
  <2> QED
    BY <2>1, <2>2, <1>a, RestKept, Zenon
<1>6. ASSUME NEW c \in Callers, Finish(c) PROVE RestInv'
  <2>1. pc[c] = "finish" /\ life' = "Stopped" /\ UNCHANGED <<server, loop, serviceVars>>
    BY <1>6, Zenon DEF Finish, loopVars
  <2>2. loop[Control] = "ended" /\ server = "down" /\ \A s \in Order : Quiet(s)
    BY <2>1, <1>a, Zenon DEF StageInv, NodeStage, ServiceStage, Anywhere
  <2>3. \A s \in Order : Still(s)
    BY <2>1, Zenon DEF Still, serviceVars
  <2>4. \A s \in Order : Quiet(s)'
    BY <2>2, <2>3, StaysPut, Zenon
  <2> QED
    BY <2>1, <2>2, <2>4, <1>a DEF RestInv
<1>7. ASSUME NEW c \in Callers, TearDown(c), ~Finish(c) PROVE RestInv'
  <2>1. Busy(c) /\ life' = life
    BY <1>7, Zenon DEF TearDown, Unregister, Unregistered, CloseNetwork, CloseControl,
       ControlClosed, StopService, ServiceStopped, ServiceLoopClosed, Busy
  <2> QED
    BY <2>1, RestBusy, Zenon
<1>8. CASE \/ RegisterTask \/ UnregisterTask \/ (SubscribeTask /\ Asker(Control) \in Callers)
           \/ \E s \in Order : StartTask(s) \/ StopTask(s)
  <2>1. \E l \in Loops : \E what :
          /\ Takes(l, what) /\ life' = life
          /\ what \in {"start", "stop", "register", "unregister"} \/ Asker(l) \in Callers
    BY <1>8, <1>a, Zenon DEF RegisterTask, UnregisterTask, SubscribeTask, StartTask, StopTask
  <2>2. life' = life /\ \E c \in Callers : pc[c] \in Waiting
    BY <2>1, TaskAt, Zenon
  <2> QED
    BY <2>2, RestBusy, Zenon DEF Busy, Waiting
<1>9. CASE SubscribeTask /\ Asker(Control) \notin Callers
  BY <1>9, <1>a, RestKept, Zenon DEF SubscribeTask
<1>10. CASE \E l \in Loops : LoopEnds(l)
  <2>1. life' = life /\ life \in {"Starting", "Stopping"}
    BY <1>10, <1>a, EndsStage, Zenon DEF LoopEnds
  <2> QED
    BY <2>1 DEF RestInv
<1> QED
  BY <1>1, <1>2, <1>3, <1>4, <1>5, <1>6, <1>7, <1>8, <1>9, <1>10, Zenon DEF Next, LoopNext

-----------------------------------------------------------------------------
(* The theorems *)

\* Every step keeps the types.
LEMMA ShapeStep ==
  ASSUME Shape, Inv, [Next]_vars
  PROVE  Shape'
<1>1. /\ LifeInv /\ StageInv /\ TaskInv /\ input' = input /\ input \in Inputs
      /\ Order' = Order /\ Loops' = Loops /\ LastService' = LastService
  BY Fixed, Zenon DEF Inv, Shape
<1>2. Stoppers \subseteq Callers /\ \A c \in Callers : NodeStage(c)
  BY <1>1, Zenon DEF StageInv, Callers
<1>3. ASSUME UNCHANGED vars PROVE CallTypes' /\ LoopTypes' /\ ServiceTypes'
  <2>1. /\ UNCHANGED <<life, pc, at, result>> /\ UNCHANGED <<serviceVars, handler>>
        /\ UNCHANGED loopVars
    BY <1>3, Zenon DEF vars, handlerVars
  <2>2. CallTypes /\ LoopTypes /\ ServiceTypes
    BY ShapeParts, Zenon
  <2> QED
    BY <2>1, <2>2, <1>1, CallTypesKept, LoopTypesKept, ServiceTypesKept, Zenon
<1>4. RegisterTask => at \in Order
  BY <1>1, RegisterStage, Zenon
<1>5. ASSUME Next PROVE CallTypes' /\ LoopTypes' /\ ServiceTypes'
  BY <1>1, <1>2, <1>4, <1>5, BuildTypes, StartTypes, StopTypes, TaskTypes, Zenon DEF Next
<1>6. CallTypes' /\ LoopTypes' /\ ServiceTypes' /\ input' \in Inputs
  BY <1>1, <1>3, <1>5, Zenon
<1> QED
  BY <1>6, Zenon DEF Shape, CallTypes, LoopTypes, ServiceTypes

\* Nothing has happened yet in an initial state.
LEMMA InitOK == Init => Shape /\ Inv
<1> SUFFICES ASSUME Init PROVE Shape /\ Inv
  OBVIOUS
<1>1. /\ input \in Inputs /\ LastService \in Nat /\ Order = 1..LastService
      /\ Control \in Loops /\ \A s \in Order : s \in Loops
      /\ Starter \in Callers /\ Stoppers \subseteq Callers
  BY Numbered, Apart, Zenon DEF Init
<1>2. Shape
  <2>1. /\ pc \in [Callers -> Labels] /\ at \in 0..LastService
        /\ result \in [Callers -> Answers]
    BY <1>1 DEF Init, Labels, Answers
  <2>2. /\ loop \in [Loops -> {"new", "running", "closing", "ended"}]
        /\ queue \in [Loops -> Seq(Tasks)]
        /\ done \in [Callers \cup Order -> {"none", "ok", "err"}]
    BY DEF Init
  <2>3. /\ calls \in [Order -> [start : Nat, stop : Nat]]
        /\ handler \in [Order -> {"idle", "subscribe", "wait"}]
    BY DEF Init
  <2> QED
    BY <1>1, <2>1, <2>2, <2>3 DEF Init, Shape
<1>3. \A c \in Callers : pc[c] = "idle" /\ result[c] = "none"
  BY DEF Init
<1>4. LifeInv /\ ResultInv /\ LoggerInv
  BY <1>1, <1>3 DEF Init, LifeInv, ResultInv, LoggerInv, Busy
<1>5. StageInv
  BY <1>3 DEF StageInv, NodeStage, ServiceStage, Anywhere, There, Here, Rising, Withdrawing,
     Halting
<1>6. TaskInv
  BY DEF Init, TaskInv
<1>7. RestInv
  <2>1. \A s \in Order : Fresh(s)
    BY <1>1 DEF Init, Fresh, Hidden, Count
  <2> QED
    BY <2>1, <1>1 DEF Init, RestInv
<1> QED
  BY <1>2, <1>4, <1>5, <1>6, <1>7, Zenon DEF Inv

\* The invariant holds whatever Start, Stop, the Loops and the handlers do, in
\* whatever order (node.go:162-422, 1584-1694).
THEOREM Invariance == Spec => [](Shape /\ Inv)
<1>1. ASSUME Shape, Inv, [Next]_vars PROVE Shape' /\ Inv'
  <2>1. LifeInv /\ RestInv /\ StageInv /\ TaskInv /\ LoggerInv /\ ResultInv
    BY <1>1, Zenon DEF Inv
  <2>2. \A c \in Callers : NodeStage(c)
    BY <2>1, Zenon DEF StageInv
  <2>3. LifeInv' /\ RestInv' /\ StageInv'
    BY <1>1, <2>1, LifeStep, RestStep, StageStep, Zenon
  <2>4. TaskInv' /\ LoggerInv' /\ ResultInv'
    BY <1>1, <2>1, <2>2, TaskStep, LoggerStep, ResultStep, Zenon
  <2> QED
    BY <1>1, <2>3, <2>4, ShapeStep, Zenon DEF Inv
<1> QED
  BY <1>1, InitOK, PTL DEF Spec

\* A NewNode that refuses, at whichever factory, has taken its logger out of
\* the process and closed the one it made (node.go:250-260).
THEOREM NothingLeft == Spec => []RefusedLeavesNothing
<1>1. Shape /\ Inv => RefusedLeavesNothing
  BY Zenon DEF Inv, LoggerInv, RefusedLeavesNothing
<1> QED
  BY <1>1, Invariance, PTL

\* Every Service in the registry has had its Start, has not begun its Stop, and
\* its Loop runs, on every path of Start, rollbackStart and Stop
\* (node.go:403-418, 1603-1619, 1680-1691).
THEOREM ServesWhileRegistered == Spec => []RegisteredRuns
<1>1. ASSUME Shape, Inv PROVE RegisteredRuns
  <2> SUFFICES ASSUME NEW s \in registry
               PROVE  /\ calls[s].start = 1 /\ calls[s].stop = 0
                      /\ Running(s) /\ s \in started
    BY Zenon DEF RegisteredRuns
  <2>1. s \in Order /\ s \in Int /\ Order = 1..LastService /\ LastService \in Nat
    BY <1>1, Bearings, Zenon DEF Shape
  <2>2. LifeInv /\ RestInv /\ StageInv
    BY <1>1, Zenon DEF Inv
  <2>3. ~Fresh(s) /\ ~Quiet(s) /\ ~Withdrawn(s) /\ ~Hidden(s)
    BY Zenon DEF Fresh, Quiet, Gone, Withdrawn, Lone, Hidden
  <2>4. CASE life \notin {"Starting", "Stopping"}
    <3>1. Up(s)
      BY <1>1, <2>1, <2>2, <2>3, <2>4 DEF RestInv, Shape
    <3> QED
      BY <3>1, Zenon DEF Up, Count, Running
  <2>5. CASE life \in {"Starting", "Stopping"}
    <3>1. PICK c \in Callers : Busy(c)
      BY <2>2, <2>5, SomebodyBusy, Zenon
    <3>2. NodeStage(c) /\ Anywhere(c, s) /\ There(c, s) /\ (s = at => Here(c, s))
      BY <2>1, <2>2, Zenon DEF StageInv, ServiceStage
    <3>3. pc[c] \in Labels /\ pc[c] \notin {"idle", "returned"}
      BY <1>1, <3>1, Tables, Zenon DEF Busy
    <3>4. Whole(s) => Up(s)
      BY <2>3, Zenon DEF Whole
    <3>5. CASE s = at /\ pc[c] \in Rising \cup Withdrawing \cup Halting
      <4>1. \/ Up(s)
            \/ loop[s] = "running" /\ s \in started /\ Count(s, 1, 0)
        BY <2>3, <3>2, <3>4, <3>5 DEF Here, Rising, Withdrawing, Halting
      <4> QED
        BY <4>1, Zenon DEF Up, Count, Running
    <3>6. CASE s # at /\ pc[c] \in Rising \cup Withdrawing \cup Halting
      <4>1. s < at \/ s > at
        BY <1>1, <2>1, <3>6, Bearings
      <4>2. ASSUME s < at PROVE Up(s)
        BY <4>2, <2>3, <3>2, <3>4, <3>6, Zenon DEF There
      <4>3. ASSUME s > at PROVE Up(s)
        BY <4>3, <2>3, <3>2, <3>4, <3>6, Zenon DEF There
      <4> QED
        BY <4>1, <4>2, <4>3, Zenon DEF Up, Count, Running
    <3>7. CASE pc[c] \notin Rising \cup Withdrawing \cup Halting
      <4>1. Up(s)
        BY <2>3, <3>2, <3>3, <3>7 DEF Anywhere, Labels, Falling
      <4> QED
        BY <4>1, Zenon DEF Up, Count, Running
    <3> QED
      BY <3>5, <3>6, <3>7
  <2> QED
    BY <2>4, <2>5
<1> QED
  BY <1>1, Invariance, PTL

\* A Stop that was not refused, and a Start that failed, leave nothing behind,
\* whoever did the work (node.go:1584-1623, 1677-1694).
THEOREM StopTakesDown == Spec => []StoppedIsDown
<1>1. ASSUME Shape, Inv PROVE StoppedIsDown
  <2> SUFFICES ASSUME life = "Stopped"
               PROVE  /\ Down /\ own # "open"
                      /\ \A s \in Order : calls[s].stop = calls[s].start
    BY <1>1, Zenon DEF Inv, ResultInv, StoppedIsDown
  <2>1. /\ \A s \in Order : Quiet(s)
        /\ loop[Control] \in {"new", "ended"} /\ server = "down" /\ own # "open"
    BY <1>1, Zenon DEF Inv, RestInv, LoggerInv
  <2>2. \A s \in Order : /\ loop[s] \in {"new", "ended"} /\ calls[s].stop = calls[s].start
                         /\ s \notin started /\ s \notin registry
    BY <2>1, Zenon DEF Quiet, Fresh, Gone, Hidden, Count
  <2>3. started \subseteq Order /\ registry \subseteq Order
    BY <1>1, Zenon DEF Shape
  <2>4. started = {} /\ registry = {}
    BY <2>2, <2>3
  <2>5. \A l \in Loops : loop[l] \in {"new", "ended"}
    BY <2>1, <2>2, Zenon DEF Loops
  <2> QED
    BY <2>1, <2>2, <2>4, <2>5, Zenon DEF Down
<1> QED
  BY <1>1, Invariance, PTL

\* The Node's logger is closed only when none of its Loops is left
\* (node.go:1620-1621, 1692-1693).
THEOREM LoggerClosedLast == Spec => []LoggerLast
<1>1. ASSUME Shape, Inv PROVE LoggerLast
  <2> SUFFICES ASSUME life \in {"refused", "Stopped"}
               PROVE  \A l \in Loops : loop[l] \in {"new", "ended"}
    BY <1>1, Zenon DEF Inv, LoggerInv, LoggerLast
  <2>1. (\A s \in Order : Fresh(s) \/ Quiet(s)) /\ loop[Control] \in {"new", "ended"}
    BY <1>1, Zenon DEF Inv, RestInv
  <2>2. \A s \in Order : loop[s] \in {"new", "ended"}
    BY <2>1, Zenon DEF Quiet, Fresh, Gone
  <2> QED
    BY <2>1, <2>2, Zenon DEF Loops
<1> QED
  BY <1>1, Invariance, PTL
=============================================================================
