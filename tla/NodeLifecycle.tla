---------------------------- MODULE NodeLifecycle ----------------------------
(***************************************************************************)
(* The life of a Node that is its deployment's main Node (node.go):        *)
(* NewNode with its validation, its process-wide logger and the factories  *)
(* of its Services; Start, which starts and registers the Services one by  *)
(* one and rolls everything back on an error; and Stop, called by several  *)
(* goroutines.  Services live on Loops of their own, the registry and the  *)
(* subscriptions are changed on the control Loop, and callOnLoop makes a   *)
(* goroutine wait for a task it has posted to a Loop.                      *)
(*                                                                         *)
(* A Loop is external (xtnet/frame).  Once closed it may still run what is *)
(* queued or end at once; when it has ended nothing runs any more.         *)
(***************************************************************************)
EXTENDS NodeConfig, FiniteSets

CONSTANTS Inputs,       \* what NewNode may be given: a configuration, the id
                        \* of the Node, the options, and how the factory of
                        \* each of its Services fares
          Deployments,  \* those of them that the application goes on to start
          Starter,      \* the goroutine that calls Start
          Stoppers,     \* goroutines that call Stop
          Subscribers,  \* Services that call Subscribe, in Start and later
          Inbox         \* how many messages the handlers get in all

Callers == Stoppers \cup {Starter}
Control == 0

ASSUME LifeAssumption ==
    /\ Starter \notin Stoppers
    /\ \A c \in Callers : c \notin Int
    /\ \A i \in Inputs : i.factories \in Seq({"ok", "relogs", "fails"})

VARIABLES
    input,      \* what NewNode is given
    node,       \* the section of the configuration that NewNode picks
    life,       \* "unborn", "building", "refused", or Node.state
    process,    \* the logger of the process: "previous", "ours", "other"
    own,        \* the logger made from the configuration: "none", "open",
                \* "closed"
    built,      \* Services in serviceOrder
    lock,       \* the holder of lifecycleMu, or {}
    pc,         \* what each caller does next
    at,         \* the Service the starter or the Stop in progress is at
    server,     \* the RPC server: "down", "up"
    loop,       \* each Loop: "new", "running", "closing", "ended"
    queue,      \* the tasks posted to each Loop
    done,       \* the answers callOnLoop waits for
    started,    \* serviceRuntime.started
    registered, \* serviceRuntime.registered
    registry,   \* the Services of this Node in the registry
    calls,      \* history: how often Start and Stop of a Service have run
    handler,    \* what the handler that runs on a Service's Loop does next
    inbox,      \* messages still to come
    result      \* what each call has returned

birthVars == <<input, node, process, own, built>>
loopVars == <<loop, queue, done>>
serviceVars == <<started, registered, registry, calls>>
handlerVars == <<handler, inbox>>
vars == <<birthVars, life, lock, pc, at, server, loopVars, serviceVars,
          handlerVars, result>>

Order == DOMAIN input.factories
Loops == Order \cup {Control}

Running(l) == loop[l] = "running"
operational == life \in {"Starting", "Running"}

Init ==
    /\ input \in Inputs
    /\ node = <<>> /\ life = "unborn"
    /\ process = "previous" /\ own = "none" /\ built = {}
    /\ lock = {} /\ pc = [c \in Callers |-> "idle"] /\ at = 0
    /\ server = "down"
    /\ loop = [l \in Loops |-> "new"] /\ queue = [l \in Loops |-> <<>>]
    /\ done = [c \in Callers \cup Order |-> "none"]
    /\ started = {} /\ registered = {} /\ registry = {}
    /\ calls = [s \in Order |-> [start |-> 0, stop |-> 0]]
    /\ handler = [s \in Order |-> "idle"] /\ inbox = Inbox
    /\ result = [c \in Callers |-> "none"]

-----------------------------------------------------------------------------
(* NewNode. *)

\* The checks that come before any side effect; the logger is then made from
\* the configuration unless one is injected, and installed in the process.
NewNode ==
    /\ life = "unborn"
    /\ LET verdict == Validate(input.config)
           i == NodeOf(verdict.config, input.id)
           accepted == /\ verdict.ok /\ i # 0
                       /\ OptionsOK(input.options)
                       /\ \/ input.options.logger
                          \/ HasLogger(verdict.config.nodes[i])
       IN  /\ life' = IF accepted THEN "building" ELSE "refused"
           /\ node' = IF accepted THEN verdict.config.nodes[i] ELSE node
           /\ process' = IF accepted THEN "ours" ELSE process
           /\ own' = IF accepted /\ ~input.options.logger THEN "open" ELSE own
    /\ UNCHANGED <<input, built, lock, pc, at, server, loopVars, serviceVars,
                   handlerVars, result>>

\* Mutant of Uninstall: the logger stays installed.
StayInstalled == UNCHANGED process

\* The deferred clean-up of NewNode takes its logger out of the process unless
\* somebody else has replaced it.
Uninstall == process' = IF process = "ours" THEN "previous" ELSE process

\* The factory of the next Service: there is none, it fails, it returns
\* something unusable, or it shares a Loop; any of these ends NewNode.  A
\* factory is the application's code and may install another logger.
BuildService(s) ==
    /\ life = "building"
    /\ s = Cardinality(built) + 1
    /\ \/ /\ input.factories[s] = "ok"
          /\ built' = built \cup {s}
          /\ UNCHANGED <<life, process, own>>
       \/ /\ input.factories[s] = "relogs"
          /\ built' = built \cup {s} /\ process' = "other"
          /\ UNCHANGED <<life, own>>
       \/ /\ input.factories[s] = "fails"
          /\ life' = "refused"
          /\ Uninstall
          /\ own' = IF own = "open" THEN "closed" ELSE own
          /\ UNCHANGED built
    /\ UNCHANGED <<input, node, lock, pc, at, server, loopVars, serviceVars,
                   handlerVars, result>>

Built ==
    /\ life = "building" /\ built = Order
    /\ life' = "Initial"
    /\ UNCHANGED <<birthVars, lock, pc, at, server, loopVars, serviceVars,
                   handlerVars, result>>

-----------------------------------------------------------------------------
(* Loops. *)

Post(l, task) == queue' = [queue EXCEPT ![l] = Append(@, task)]

\* callOnLoop: the caller waits for the answer.
callOnLoop(c, l, what) ==
    /\ Post(l, [do |-> what, from |-> c])
    /\ done' = [done EXCEPT ![c] = "none"]
    /\ UNCHANGED loop

Answer(c, answer) == done' = [done EXCEPT ![c] = answer]

\* The next task of a Loop; a closing Loop may still take it.
Takes(l, what) ==
    /\ loop[l] \in {"running", "closing"}
    /\ l # Control => handler[l] = "idle"
    /\ queue[l] # <<>> /\ Head(queue[l]).do = what
    /\ queue' = [queue EXCEPT ![l] = Tail(@)]

Asker(l) == Head(queue[l]).from

\* Loop.Close(false) has been called and the Loop ends.
LoopEnds(l) ==
    /\ loop[l] = "closing"
    /\ l # Control => handler[l] = "idle"
    /\ loop' = [loop EXCEPT ![l] = "ended"]
    /\ UNCHANGED <<birthVars, life, lock, pc, at, server, queue, done,
                   serviceVars, handlerVars, result>>

\* The control Loop registers a Service, unless another Node has its key.
RegisterTask ==
    /\ Takes(Control, "register")
    /\ \/ /\ registry' = registry \cup {at}
          /\ Answer(Asker(Control), "ok")
       \/ /\ Answer(Asker(Control), "err")
          /\ UNCHANGED registry
    /\ UNCHANGED <<birthVars, life, lock, pc, at, server, loop, started,
                   registered, calls, handlerVars, result>>

UnregisterTask ==
    /\ Takes(Control, "unregister")
    /\ registry' = registry \ {at}
    /\ Answer(Asker(Control), "ok")
    /\ UNCHANGED <<birthVars, life, lock, pc, at, server, loop, started,
                   registered, calls, handlerVars, result>>

\* addServiceSubscription finds the subscriber in the registry or refuses.
SubscribeTask ==
    /\ Takes(Control, "subscribe")
    /\ LET c == Asker(Control)
           subscriber == IF c \in Callers THEN at ELSE c
       IN  Answer(c, IF subscriber \in registry THEN "ok" ELSE "err")
    /\ UNCHANGED <<birthVars, life, lock, pc, at, server, loop, serviceVars,
                   handlerVars, result>>

\* Service.Start and Service.Stop run on the Service's Loop; an error and a
\* panic are the same to callOnLoop.
StartTask(s) ==
    /\ Takes(s, "start")
    /\ calls' = [calls EXCEPT ![s].start = @ + 1]
    /\ \E answer \in {"ok", "err"} : Answer(Asker(s), answer)
    /\ UNCHANGED <<birthVars, life, lock, pc, at, server, loop, started,
                   registered, registry, handlerVars, result>>

StopTask(s) ==
    /\ Takes(s, "stop")
    /\ calls' = [calls EXCEPT ![s].stop = @ + 1]
    /\ \E answer \in {"ok", "err"} : Answer(Asker(s), answer)
    /\ UNCHANGED <<birthVars, life, lock, pc, at, server, loop, started,
                   registered, registry, handlerVars, result>>

-----------------------------------------------------------------------------
(* Messages and a handler that subscribes. *)

\* dispatchLocalDirect on an operational Node posts to the Service's Loop,
\* which may not run yet or may have ended.
Message(s) ==
    /\ operational /\ inbox > 0
    /\ inbox' = inbox - 1
    /\ Post(s, [do |-> "message", from |-> s])
    /\ UNCHANGED <<birthVars, life, lock, pc, at, server, loop, done,
                   serviceVars, handler, result>>

\* The handler runs; subscribeService reads the state and registered before it
\* posts to the control Loop.
Handle(s) ==
    /\ Takes(s, "message")
    /\ handler' = IF s \in Subscribers /\ operational /\ s \in registered
                    THEN [handler EXCEPT ![s] = "subscribe"] ELSE handler
    /\ UNCHANGED <<birthVars, life, lock, pc, at, server, loop, done,
                   serviceVars, inbox, result>>

HandlerSubscribes(s) ==
    /\ handler[s] = "subscribe"
    /\ callOnLoop(s, Control, "subscribe")
    /\ handler' = [handler EXCEPT ![s] = "wait"]
    /\ UNCHANGED <<birthVars, life, lock, pc, at, server, serviceVars, inbox,
                   result>>

HandlerReturns(s) ==
    /\ handler[s] = "wait" /\ done[s] # "none"
    /\ handler' = [handler EXCEPT ![s] = "idle"]
    /\ done' = [done EXCEPT ![s] = "none"]
    /\ UNCHANGED <<birthVars, life, lock, pc, at, server, loop, queue,
                   serviceVars, inbox, result>>

-----------------------------------------------------------------------------
(* Start. *)

\* Where the loops that go backwards over serviceOrder begin.
LastService == Len(input.factories)

Goto(c, label) == pc' = [pc EXCEPT ![c] = label]

\* Start takes lifecycleMu only to move the state on.
Start ==
    /\ input \in Deployments
    /\ pc[Starter] = "idle" /\ life \notin {"unborn", "building", "refused"}
    /\ lock = {}
    /\ IF life = "Initial"
         THEN /\ life' = "Starting" /\ Goto(Starter, "control")
              /\ UNCHANGED result
         ELSE /\ result' = [result EXCEPT ![Starter] = "ErrNodeRunning"]
              /\ Goto(Starter, "returned")
              /\ UNCHANGED life
    /\ UNCHANGED <<birthVars, lock, at, server, loopVars, serviceVars,
                   handlerVars>>

\* startControlLoop returns when the Loop runs.
StartControl ==
    /\ pc[Starter] = "control"
    /\ loop' = [loop EXCEPT ![Control] = "running"]
    /\ Goto(Starter, "server")
    /\ UNCHANGED <<birthVars, life, lock, at, server, queue, done, serviceVars,
                   handlerVars, result>>

\* rollbackStart begins: its first loop unregisters, from the last Service on.
rollbackStart == at' = LastService /\ Goto(Starter, "unregister")

\* startRPCServer, which fails when the address is taken.
StartServer ==
    /\ pc[Starter] = "server"
    /\ \/ /\ server' = "up"
          /\ IF Order = {} THEN at' = 0 /\ Goto(Starter, "run")
             ELSE at' = 1 /\ Goto(Starter, "loop")
       \/ /\ rollbackStart
          /\ UNCHANGED server
    /\ UNCHANGED <<birthVars, life, lock, loopVars, serviceVars, handlerVars,
                   result>>

\* startService starts the Loop and calls Service.Start on it.
StartService ==
    /\ pc[Starter] = "loop"
    /\ loop' = [loop EXCEPT ![at] = "running"]
    /\ Post(at, [do |-> "start", from |-> Starter])
    /\ done' = [done EXCEPT ![Starter] = "none"]
    /\ Goto(Starter, "starting")
    /\ UNCHANGED <<birthVars, life, lock, at, server, serviceVars, handlerVars,
                   result>>

Close(l) == loop' = [loop EXCEPT ![l] = "closing"]

\* Mutant of UndoStart: the Loop is closed at once.
UndoWithoutStop ==
    Close(at) /\ Goto(Starter, "undone") /\ UNCHANGED <<queue, done>>

\* A Service whose Start failed is given its Stop.
UndoStart == callOnLoop(Starter, at, "stop") /\ Goto(Starter, "undoing")

\* Service.Start has returned: the Service is registered, or, after an error,
\* its Stop is called while its Loop still runs.
ServiceStarted ==
    /\ pc[Starter] = "starting" /\ done[Starter] # "none"
    /\ IF done[Starter] = "ok"
         THEN /\ started' = started \cup {at}
              /\ callOnLoop(Starter, Control, "register")
              /\ Goto(Starter, "registering")
         ELSE UndoStart /\ UNCHANGED started
    /\ UNCHANGED <<birthVars, life, lock, at, server, registered, registry,
                   calls, handlerVars, result>>

\* The Loop of the Service that failed to start is closed and waited for.
ServiceUndone ==
    /\ pc[Starter] = "undoing" /\ done[Starter] # "none"
    /\ Close(at)
    /\ Goto(Starter, "undone")
    /\ UNCHANGED <<birthVars, life, lock, at, server, queue, done, serviceVars,
                   handlerVars, result>>

ServiceGivenUp ==
    /\ pc[Starter] = "undone" /\ loop[at] = "ended"
    /\ rollbackStart
    /\ UNCHANGED <<birthVars, life, lock, server, loopVars, serviceVars,
                   handlerVars, result>>

\* registerService has returned: the flag is set and the subscriptions made in
\* Service.Start are submitted.
ServiceRegistered ==
    /\ pc[Starter] = "registering" /\ done[Starter] # "none"
    /\ IF done[Starter] = "ok"
         THEN /\ registered' = registered \cup {at}
              /\ IF at \in Subscribers
                   THEN callOnLoop(Starter, Control, "subscribe")
                   ELSE UNCHANGED loopVars
              /\ Goto(Starter, "subscribing")
              /\ UNCHANGED at
         ELSE /\ rollbackStart
              /\ UNCHANGED <<registered, loopVars>>
    /\ UNCHANGED <<birthVars, life, lock, server, started, registry, calls,
                   handlerVars, result>>

ServiceSubscribed ==
    /\ pc[Starter] = "subscribing" /\ done[Starter] # "none"
    /\ \/ /\ done[Starter] = "err"
          /\ rollbackStart
       \/ /\ done[Starter] = "ok" /\ at < LastService
          /\ at' = at + 1 /\ Goto(Starter, "loop")
       \/ /\ done[Starter] = "ok" /\ at = LastService
          /\ at' = 0 /\ Goto(Starter, "run")
    /\ UNCHANGED <<birthVars, life, lock, server, loopVars, serviceVars,
                   handlerVars, result>>

StartReturns ==
    /\ pc[Starter] = "run"
    /\ life' = "Running"
    /\ result' = [result EXCEPT ![Starter] = "nil"]
    /\ Goto(Starter, "returned")
    /\ UNCHANGED <<birthVars, lock, at, server, loopVars, serviceVars,
                   handlerVars>>

-----------------------------------------------------------------------------
(* Stop, and the same steps in rollbackStart. *)

\* stopControlLoop calls Close on the Loop.
CloseControlLoop == Close(Control)

\* releaseLogger, at most once.
releaseLogger == own' = IF own = "open" THEN "closed" ELSE own

\* Mutant of KeepLogger: Stop releases the logger whatever the state.
DropLogger == releaseLogger

\* A Stop that refuses does not touch the logger.
KeepLogger == UNCHANGED own

\* Stop holds lifecycleMu to its end.  On a Node that was never started or is
\* already stopped it is done at once; while Start is at work it refuses.
Stop(c) ==
    /\ pc[c] = "idle" /\ life \notin {"unborn", "building", "refused"}
    /\ lock = {}
    /\ \/ /\ life \in {"Initial", "Stopped"}
          /\ life' = "Stopped"
          /\ releaseLogger
          /\ result' = [result EXCEPT ![c] = "nil"]
          /\ Goto(c, "returned")
          /\ UNCHANGED <<lock, at>>
       \/ /\ life = "Running"
          /\ life' = "Stopping" /\ lock' = {c}
          /\ at' = LastService
          /\ Goto(c, "unregister")
          /\ UNCHANGED <<own, result>>
       \/ /\ life = "Starting"
          /\ result' = [result EXCEPT ![c] = "ErrNodeStopped"]
          /\ Goto(c, "returned")
          /\ KeepLogger
          /\ UNCHANGED <<life, lock, at>>
    /\ UNCHANGED <<input, node, process, built, server, loopVars, serviceVars,
                   handlerVars>>

\* Mutant of MustUnregister: rollbackStart leaves the registry alone.
OnlyWhenStopping(s) == s \in registered /\ life = "Stopping"

\* The loop passes over a Service that is not registered.
MustUnregister(s) == s \in registered

\* The first loop, from the last Service to the first: those that are
\* registered are taken out of the registry on the control Loop.
Unregister(c) ==
    /\ pc[c] = "unregister"
    /\ \/ /\ at = 0
          /\ Goto(c, "network")
          /\ UNCHANGED <<at, loopVars>>
       \/ /\ at > 0 /\ MustUnregister(at)
          /\ callOnLoop(c, Control, "unregister")
          /\ Goto(c, "unregistering")
          /\ UNCHANGED at
       \/ /\ at > 0 /\ ~MustUnregister(at)
          /\ at' = at - 1
          /\ UNCHANGED <<pc, loopVars>>
    /\ UNCHANGED <<birthVars, life, lock, server, serviceVars, handlerVars,
                   result>>

Unregistered(c) ==
    /\ pc[c] = "unregistering" /\ done[c] # "none"
    /\ registered' = registered \ {at}
    /\ at' = at - 1
    /\ Goto(c, "unregister")
    /\ UNCHANGED <<birthVars, life, lock, server, loopVars, started, registry,
                   calls, handlerVars, result>>

\* closeNetwork.
CloseNetwork(c) ==
    /\ pc[c] = "network"
    /\ server' = "down"
    /\ Goto(c, "close")
    /\ UNCHANGED <<birthVars, life, lock, at, loopVars, serviceVars,
                   handlerVars, result>>

\* stopControlLoop closes the Loop and waits for it.
CloseControl(c) ==
    /\ pc[c] = "close"
    /\ CloseControlLoop
    /\ Goto(c, "closing")
    /\ UNCHANGED <<birthVars, life, lock, at, server, queue, done, serviceVars,
                   handlerVars, result>>

ControlClosed(c) ==
    /\ pc[c] = "closing" /\ loop[Control] = "ended"
    /\ at' = LastService
    /\ Goto(c, "stop")
    /\ UNCHANGED <<birthVars, life, lock, server, loopVars, serviceVars,
                   handlerVars, result>>

\* Mutant of MustStop: Stop is called whether or not the Service was started.
AnyService(s) == TRUE

\* stopService passes over a Service that was not started.
MustStop(s) == s \in started

\* The second loop: Service.Stop on the Service's Loop, then the Loop is closed
\* and waited for.
StopService(c) ==
    /\ pc[c] = "stop"
    /\ \/ /\ at = 0
          /\ Goto(c, "finish")
          /\ UNCHANGED <<at, loopVars>>
       \/ /\ at > 0 /\ MustStop(at)
          /\ callOnLoop(c, at, "stop")
          /\ Goto(c, "stopping")
          /\ UNCHANGED at
       \/ /\ at > 0 /\ ~MustStop(at)
          /\ at' = at - 1
          /\ UNCHANGED <<pc, loopVars>>
    /\ UNCHANGED <<birthVars, life, lock, server, serviceVars, handlerVars,
                   result>>

ServiceStopped(c) ==
    /\ pc[c] = "stopping" /\ done[c] # "none"
    /\ Close(at)
    /\ Goto(c, "stopped")
    /\ UNCHANGED <<birthVars, life, lock, at, server, queue, done, serviceVars,
                   handlerVars, result>>

ServiceLoopClosed(c) ==
    /\ pc[c] = "stopped" /\ loop[at] = "ended"
    /\ started' = started \ {at}
    /\ at' = at - 1
    /\ Goto(c, "stop")
    /\ UNCHANGED <<birthVars, life, lock, server, loopVars, registered,
                   registry, calls, handlerVars, result>>

\* The state, the logger, and the return; Stop lets go of lifecycleMu.  It is
\* done, whether it returns nil or the errors of the Services it has stopped.
Finish(c) ==
    /\ pc[c] = "finish"
    /\ life' = "Stopped"
    /\ releaseLogger
    /\ lock' = lock \ {c}
    /\ result' = [result EXCEPT ![c] = IF c = Starter THEN "err" ELSE "done"]
    /\ Goto(c, "returned")
    /\ UNCHANGED <<input, node, process, built, at, server, loopVars,
                   serviceVars, handlerVars>>

-----------------------------------------------------------------------------
TearDown(c) ==
    \/ Unregister(c) \/ Unregistered(c) \/ CloseNetwork(c)
    \/ CloseControl(c) \/ ControlClosed(c)
    \/ StopService(c) \/ ServiceStopped(c) \/ ServiceLoopClosed(c)
    \/ Finish(c)

StartNext ==
    \/ StartControl \/ StartServer
    \/ StartService \/ ServiceStarted \/ ServiceUndone \/ ServiceGivenUp
    \/ ServiceRegistered \/ ServiceSubscribed \/ StartReturns

LoopNext ==
    \/ RegisterTask \/ UnregisterTask \/ SubscribeTask
    \/ \E s \in Order : \/ StartTask(s) \/ StopTask(s) \/ Handle(s)
                        \/ HandlerSubscribes(s) \/ HandlerReturns(s)
    \/ \E l \in Loops : LoopEnds(l)

BuildNext == NewNode \/ Built \/ \E s \in Order : BuildService(s)

Next ==
    \/ BuildNext \/ Start \/ StartNext \/ LoopNext
    \/ \E c \in Stoppers : Stop(c)
    \/ \E c \in Callers : TearDown(c)
    \/ \E s \in Order : Message(s)

Spec == Init /\ [][Next]_vars

\* Goroutines run: a Loop runs its tasks and ends once closed, and a call of
\* Start or Stop that has begun goes on.  Nobody has to call Start or Stop.
Fairness ==
    /\ WF_vars(StartNext) /\ WF_vars(LoopNext)
    /\ \A c \in Callers : WF_vars(TearDown(c))

FairSpec == Spec /\ Fairness

-----------------------------------------------------------------------------
Answers == {"none", "nil", "done", "err", "ErrNodeRunning", "ErrNodeStopped"}

\* The type of the state; a Node that exists has a positive time for Service
\* calls, wherever it comes from (node.go:228-233), and an address without
\* blanks.
TypeOK ==
    /\ DOMAIN input = {"config", "id", "options", "factories"}
    /\ life \in {"unborn", "building", "refused", "Initial", "Starting",
                 "Running", "Stopping", "Stopped"}
    /\ process \in {"previous", "ours", "other"}
    /\ own \in {"none", "open", "closed"}
    /\ built \subseteq Order /\ started \subseteq Order
    /\ registered \subseteq Order /\ registry \subseteq Order
    /\ lock \in {{}} \cup {{c} : c \in Stoppers}
    /\ at \in 0..LastService
    /\ server \in {"down", "up"}
    /\ \A l \in Loops : loop[l] \in {"new", "running", "closing", "ended"}
    /\ \A c \in DOMAIN done : done[c] \in {"none", "ok", "err"}
    /\ \A s \in Order : calls[s].start \in 0..1 /\ calls[s].stop \in 0..1
    /\ \A s \in Order : handler[s] \in {"idle", "subscribe", "wait"}
    /\ inbox \in 0..Inbox
    /\ \A c \in Callers : result[c] \in Answers
    /\ node # <<>> => /\ CallTimeout(input.options, node) > 0
                      /\ node.addr = TrimSpace(node.addr)

\* Whatever NewNode accepts is a deployment nobody would object to, and it
\* refuses nothing for its configuration that is one: the one pass of Validate
\* with its early returns (config.go:83-154) decides what the unordered
\* statement says.
ValidateExact ==
    life = "unborn" => (Validate(input.config).ok <=> Deployable(input.config))

\* Validating what Validate has left behind, as NewNode does with what LoadConfig
\* returns, changes neither the verdict nor the configuration (config.go:65,
\* 96-154, node.go:184), unless a log directory hid blanks that filepath.Clean uncovered:
\* they are part of its name at first, and the second time they are cut off.
ValidateTwice ==
    LET once == Validate(input.config)
        uncovered == \E i \in DOMAIN input.config.nodes :
                        /\ HasLogger(input.config.nodes[i])
                        /\ input.config.nodes[i].logger.dir.hides
    IN  life = "unborn" /\ once.ok /\ ~uncovered => Validate(once.config) = once

\* A refused Node leaves the process as it was: its logger is not installed,
\* and the one it made is closed (node.go:250-260).
RefusedLeavesNothing ==
    life = "refused" => process # "ours" /\ own # "open"

\* A Service that others can look up has started and not begun to stop, and its
\* Loop takes their messages: it is registered after Start and unregistered
\* before Stop, on every path (node.go:403-418, 1603-1619, 1680-1691).
RegisteredRuns ==
    \A s \in registry : /\ calls[s].start = 1 /\ calls[s].stop = 0
                        /\ Running(s) /\ s \in started

Down == /\ server = "down" /\ registry = {} /\ started = {}
        /\ \A l \in Loops : loop[l] \in {"new", "ended"}

\* A call of Stop that is not refused leaves nothing behind, though another call
\* may have done the work, and so does a Start that fails (node.go:1584-1623,
\* 1677-1694): no server, no Loop, no registration, and every Service whose
\* Start has run, whether or not it failed, has had its Stop exactly once.
StoppedIsDown ==
    \/ \E c \in Stoppers : result[c] \in {"nil", "done"}
    \/ result[Starter] = "err"
    => Down /\ own # "open" /\ \A s \in Order : calls[s].stop = calls[s].start

\* The logger of a Node is closed only when no Loop of it is left to write to
\* it (node.go:1620-1621, 1692-1693).
LoggerLast ==
    own = "closed" => \A l \in Loops : loop[l] \in {"new", "ended"}

\* Stop closes the control Loop while a handler may be waiting on it.
Caught == \E s \in Order : handler[s] = "wait" /\ loop[Control] = "ended"

\* A call of Stop returns, and the calls that wait for lifecycleMu get on
\* (node.go:1584-1623); Start comes to an end, with every Service started or
\* with everything rolled back, whichever Service or registration fails
\* (node.go:377-422, 1677-1694); unless a handler is caught in Subscribe on the
\* control Loop that has ended.
CallsReturn ==
    /\ (lock # {} ~> lock = {} \/ Caught)
    /\ (life = "Starting" ~> life # "Starting" \/ Caught)

\* Stop takes the Node down to the last Service Loop, as docs/quickstart.md:13
\* describes it.
StopCompletes == life = "Stopping" ~> life = "Stopped"

=============================================================================
