-------------------------- MODULE ServiceDirectory --------------------------
(***************************************************************************)
(* The main Node's directory: which RPC session speaks for which Node      *)
(* (RemoteNode, remoteNodes), the service registry, the subscription index *)
(* and what the main Node pushes to other Nodes.                           *)
(*                                                                         *)
(* Three kinds of goroutine meet here.  A session's network goroutine runs *)
(* handleRPCRequest: it checks the session and posts the change to the     *)
(* control Loop, or answers a lookup by itself.  Whoever ends a session    *)
(* (its network goroutine, or the heartbeat timer on the control Loop)     *)
(* runs removeRemoteNode.  The control Loop runs posted tasks one by one.  *)
(* An action is a stretch of one goroutine between two points at which     *)
(* another goroutine can see or change the state it works on.              *)
(*                                                                         *)
(* A client connects a session once; a Node that reconnects uses a new     *)
(* one.  What a subscriber has been told over a link is kept as the set of *)
(* services it must believe in after handling every pushed event in order. *)
(***************************************************************************)
EXTENDS Integers, Sequences, FiniteSets

CONSTANTS
  Nodes,     \* configured Nodes other than the main Node
  Main,      \* the main Node
  Sessions,  \* RPC sessions the main Node accepts
  Services,  \* service keys
  Names,     \* service names
  NameOf,    \* the name of each service key
  Uses,      \* the deployments explored: the Nodes that list each service key
             \* in their configuration, the names each service subscribes to
             \* and the service keys that are looked up
  MaxQueue   \* bound on the requests on their way to the control Loop

NoNode == "no node"
NoSession == "no session"
NoKey == "no key"
NoName == "no name"

Members == Nodes \cup {Main}
Links == Sessions \cup {Main}   \* Main stands for the main Node's own services

ASSUME DirectoryAssumption ==
  /\ Main \notin Nodes /\ Main \notin Sessions
  /\ NoNode \notin Members /\ NoSession \notin Links
  /\ NoKey \notin Services /\ NoName \notin Names
  /\ NameOf \in [Services -> Names]
  /\ Uses \subseteq [hosts : [Services -> SUBSET Members],
                   wants : [Services -> SUBSET Names], targets : SUBSET Services]
  /\ MaxQueue \in Nat

VARIABLES
  use,            \* which of the Uses this is
  phase,          \* the connection of a session: new, open, broken
  active,         \* RemoteNode.active
  id,             \* RemoteNode.id
  remoteNodes,    \* remoteNodes
  removing,       \* how far removeRemoteNode has got with a session
  timedOut,       \* the session the heartbeat timer is removing, on the Loop
  queue,          \* tasks posted to the control Loop
  task,           \* the task the control Loop runs
  stage,          \* idle, or what the task does next: write (the registry),
                  \* broadcast (route invalidations), notify (discovery events)
  changed,        \* the keys whose registration the task has changed
  registry,       \* MemoryRegistry.services: the Node of each key
  byServiceName,  \* serviceSubscriptionIndex.byServiceName
  bySubscriber,   \* serviceSubscriptionIndex.bySubscriber
  told,           \* told[l][w]: the services subscriber w was told of over l
  snapshots,      \* snapshots[l]: subscriptions whose snapshot went over l
  asking,         \* the checked request a session's goroutine is to post
  looking,        \* the lookup a session's goroutine is answering
  routes,         \* routes[s][k]: the route s's Node may have cached
  granted         \* history: the services registered through each session

sessionVars == <<use, phase, active, id, remoteNodes, removing, timedOut>>
loopVars == <<asking, queue, task, stage, changed>>
indexVars == <<byServiceName, bySubscriber>>
pushVars == <<told, snapshots>>
routeVars == <<looking, routes>>
vars == <<sessionVars, loopVars, registry, indexVars, pushVars, routeVars, granted>>

Task ==
  [op : {"register", "unregister"}, link : Links, node : Members,
   key : Services, name : {NoName}]
    \cup [op : {"subscribe"}, link : Links, node : Members,
          key : Services, name : Names]
    \cup [op : {"cleanup"}, link : {Main}, node : Nodes,
          key : {NoKey}, name : {NoName}]
NoTask == [op |-> "none"]

NoLookup == [key |-> NoKey, node |-> NoNode, stale |-> FALSE]

Init ==
  /\ use \in Uses
  /\ phase = [s \in Sessions |-> "new"]
  /\ active = [s \in Sessions |-> FALSE]
  /\ id = [s \in Sessions |-> NoNode]
  /\ remoteNodes = [n \in Nodes |-> NoSession]
  /\ removing = [s \in Sessions |-> "no"]
  /\ timedOut = NoSession
  /\ asking = [s \in Sessions |-> NoTask]
  /\ queue = <<>>
  /\ task = NoTask
  /\ stage = "idle"
  /\ changed = {}
  /\ registry = [k \in Services |-> NoNode]
  /\ byServiceName = [m \in Names |-> {}]
  /\ bySubscriber = [w \in Services |-> {}]
  /\ told = [l \in Links |-> [w \in Services |-> {}]]
  /\ snapshots = [l \in Links |-> {}]
  /\ looking = [s \in Sessions |-> NoLookup]
  /\ routes = [s \in Sessions |-> [k \in Services |-> NoNode]]
  /\ granted = [s \in Sessions |-> {}]

-----------------------------------------------------------------------------
(* Sessions: accept, RegisterNode, requests *)

\* registeredRemoteNode and remoteNodeIsCurrent
Registered(s) == active[s] /\ id[s] # NoNode /\ remoteNodes[id[s]] = s

\* Requests sent before the connection broke may still be read.
Connected(s) == phase[s] \in {"open", "broken"}

OnAccept(s) ==
  /\ phase[s] = "new"
  /\ phase' = [phase EXCEPT ![s] = "open"]
  /\ active' = [active EXCEPT ![s] = TRUE]
  /\ UNCHANGED <<use, id, remoteNodes, removing, timedOut, loopVars, registry,
                 indexVars, pushVars, routeVars, granted>>

\* Mutant of MayRegister: the check of remote.active under remoteNodesMu is
\* missing.
MayRegisterClosed(s, n) == id[s] = NoNode /\ remoteNodes[n] = NoSession

\* the checks of handleRegisterNode under remoteNodesMu
MayRegister(s, n) == active[s] /\ id[s] = NoNode /\ remoteNodes[n] = NoSession

HandleRegisterNode(s, n) ==
  /\ Connected(s)
  /\ MayRegister(s, n)
  /\ id' = [id EXCEPT ![s] = n]
  /\ remoteNodes' = [remoteNodes EXCEPT ![n] = s]
  /\ UNCHANGED <<use, phase, active, removing, timedOut, loopVars, registry,
                 indexVars, pushVars, routeVars, granted>>

Post(t) == queue' = Append(queue, t)

Pending == Len(queue) + Cardinality({s \in Sessions : asking[s] # NoTask})

Request(op, l, n, k, m) == [op |-> op, link |-> l, node |-> n, key |-> k, name |-> m]

\* the requests that services of Node n send over link l
Requests(l, n) ==
  UNION {{Request(op, l, n, k, NoName) : op \in {"register", "unregister"}}
           \cup {Request("subscribe", l, n, k, m) : m \in use.wants[k]} :
         k \in {key \in Services : n \in use.hosts[key]}}

Serving(s) == asking[s] # NoTask \/ looking[s] # NoLookup

\* handleRPCRequest of register, unregister and subscribe: the session is
\* checked ...
HandleRequest(s) ==
  /\ Connected(s)
  /\ Registered(s)
  /\ ~ Serving(s)
  /\ Pending < MaxQueue
  /\ \E t \in Requests(s, id[s]) : asking' = [asking EXCEPT ![s] = t]
  /\ UNCHANGED <<sessionVars, queue, task, stage, changed, registry,
                 indexVars, pushVars, routeVars, granted>>

\* ... and a task is posted, by then perhaps behind the session's cleanup
PostRequest(s) ==
  /\ asking[s] # NoTask
  /\ Post(asking[s])
  /\ asking' = [asking EXCEPT ![s] = NoTask]
  /\ UNCHANGED <<sessionVars, task, stage, changed, registry,
                 indexVars, pushVars, routeVars, granted>>

\* registerService, unregisterService and requestServiceSubscription of the
\* main Node's own services
LocalRequest ==
  /\ Pending < MaxQueue
  /\ \E t \in Requests(Main, Main) : Post(t)
  /\ UNCHANGED <<sessionVars, asking, task, stage, changed, registry,
                 indexVars, pushVars, routeVars, granted>>

\* opLookup: the session's goroutine reads the registry ...
LookupRead(s, k) ==
  /\ Connected(s)
  /\ Registered(s)
  /\ ~ Serving(s)
  /\ registry[k] # NoNode
  /\ looking' = [looking EXCEPT ![s] = [key |-> k, node |-> registry[k], stale |-> FALSE]]
  /\ UNCHANGED <<sessionVars, loopVars, registry, indexVars, pushVars, routes, granted>>

\* ... and answers.  The client drops an answer that an invalidation overtook
\* on the session (its route cache compares revisions).
LookupAnswer(s) ==
  LET l == looking[s]
  IN  /\ l # NoLookup
      /\ looking' = [looking EXCEPT ![s] = NoLookup]
      /\ routes' = IF l.stale THEN routes ELSE [routes EXCEPT ![s][l.key] = l.node]
      /\ UNCHANGED <<sessionVars, loopVars, registry, indexVars, pushVars, granted>>

-----------------------------------------------------------------------------
(* The end of a session: removeRemoteNode *)

\* the network or the client breaks the connection
Break(s) ==
  /\ phase[s] = "open"
  /\ phase' = [phase EXCEPT ![s] = "broken"]
  /\ UNCHANGED <<use, active, id, remoteNodes, removing, timedOut, loopVars, registry,
                 indexVars, pushVars, routeVars, granted>>

\* active.Swap(false) lets one caller through
Swap(s) ==
  /\ active[s]
  /\ active' = [active EXCEPT ![s] = FALSE]
  /\ removing' = [removing EXCEPT ![s] = "swapped"]

OnSessionClose(s) ==
  /\ phase[s] = "broken"
  /\ Swap(s)
  /\ UNCHANGED <<use, phase, id, remoteNodes, timedOut, loopVars, registry,
                 indexVars, pushVars, routeVars, granted>>

LoopFree == stage = "idle" /\ timedOut = NoSession

\* the timer armRemoteNodeTimeout started fires on the control Loop
HeartbeatTimeout(s) ==
  /\ LoopFree
  /\ Swap(s)
  /\ timedOut' = s
  /\ UNCHANGED <<use, phase, id, remoteNodes, loopVars, registry,
                 indexVars, pushVars, routeVars, granted>>

\* what was sent over a link is of no account once its session is removed
Forget(s) ==
  /\ told' = [told EXCEPT ![s] = [w \in Services |-> {}]]
  /\ snapshots' = [snapshots EXCEPT ![s] = {}]
  /\ routes' = [routes EXCEPT ![s] = [k \in Services |-> NoNode]]
  /\ granted' = [granted EXCEPT ![s] = {}]

\* the section under remoteNodesMu
RemoveDelete(s) ==
  /\ removing[s] = "swapped"
  /\ IF id[s] # NoNode /\ remoteNodes[id[s]] = s
     THEN /\ remoteNodes' = [remoteNodes EXCEPT ![id[s]] = NoSession]
          /\ removing' = [removing EXCEPT ![s] = "deleted"]
     ELSE /\ removing' = [removing EXCEPT ![s] = "unnamed"]
          /\ UNCHANGED remoteNodes
  /\ Forget(s)
  /\ UNCHANGED <<use, phase, active, id, timedOut, loopVars, registry, indexVars, looking>>

Cleanup(n) == Request("cleanup", Main, n, NoKey, NoName)

PostsCleanup(s) == removing[s] = "deleted"

\* the cleanup task is posted, and the timer closes the session
RemovePost(s) ==
  /\ removing[s] \in {"deleted", "unnamed"}
  /\ removing' = [removing EXCEPT ![s] = "done"]
  /\ IF PostsCleanup(s) THEN Post(Cleanup(id[s])) ELSE UNCHANGED queue
  /\ IF timedOut = s
     THEN timedOut' = NoSession /\ phase' = [phase EXCEPT ![s] = "broken"]
     ELSE UNCHANGED <<timedOut, phase>>
  /\ UNCHANGED <<use, active, id, remoteNodes, asking, task, stage, changed, registry,
                 indexVars, pushVars, routeVars, granted>>

-----------------------------------------------------------------------------
(* The control Loop *)

\* Mutant of StillCurrent: the session is not checked again on the Loop.
StillCurrentUnchecked(t) == TRUE

\* a posted request is refused when its session has ended meanwhile
StillCurrent(t) == t.link = Main \/ Registered(t.link)

Dequeue ==
  /\ LoopFree
  /\ queue # <<>>
  /\ queue' = Tail(queue)
  /\ IF StillCurrent(Head(queue))
     THEN task' = Head(queue) /\ stage' = "write"
     ELSE UNCHANGED <<task, stage>>
  /\ UNCHANGED <<sessionVars, asking, changed, registry, indexVars, pushVars, routeVars, granted>>

\* the registry is written, or the task fails and ends
Write(keys, node) ==
  /\ registry' = [k \in Services |-> IF k \in keys THEN node ELSE registry[k]]
  /\ changed' = keys
  /\ stage' = "broadcast"
  /\ UNCHANGED <<sessionVars, asking, queue, task, indexVars, pushVars, routeVars>>

Refuse ==
  /\ stage' = "idle"
  /\ task' = NoTask
  /\ UNCHANGED <<sessionVars, asking, queue, changed, registry, indexVars, pushVars, routeVars, granted>>

WriteRegister ==
  /\ stage = "write" /\ task.op = "register"
  /\ IF registry[task.key] = NoNode
     THEN /\ Write({task.key}, task.node)
          /\ granted' = [s \in Sessions |->
               IF s = task.link THEN granted[s] \cup {task.key} ELSE granted[s]]
     ELSE Refuse

WriteUnregister ==
  /\ stage = "write" /\ task.op = "unregister"
  /\ IF registry[task.key] = task.node
     THEN /\ Write({task.key}, NoNode)
          /\ granted' = [s \in Sessions |->
               IF s = task.link THEN granted[s] \ {task.key} ELSE granted[s]]
     ELSE Refuse

KeysOfNode(n) == {k \in Services : registry[k] = n}

WriteCleanup ==
  /\ stage = "write" /\ task.op = "cleanup"
  /\ Write(KeysOfNode(task.node), NoNode)
  /\ UNCHANGED granted

\* sendServiceDiscovery: where a registered subscriber is reached
LinkOf(w) ==
  IF registry[w] \in Nodes THEN remoteNodes[registry[w]]
  ELSE IF registry[w] = Main THEN Main ELSE NoSession

\* Mutant of Push: subscribers on the main Node itself are not told.
PushRemoteOnly(ws, add, drop) ==
  told' = [l \in Links |-> [w \in Services |->
             IF w \in ws /\ LinkOf(w) = l /\ l # Main THEN (told[l][w] \ drop) \cup add
             ELSE told[l][w]]]

\* every subscriber in ws is told that add is online and drop is not
Push(ws, add, drop) ==
  told' = [l \in Links |-> [w \in Services |->
             IF w \in ws /\ LinkOf(w) = l THEN (told[l][w] \ drop) \cup add
             ELSE told[l][w]]]

\* Mutant of Broadcast: nothing is pushed.
BroadcastNothing(keys) == UNCHANGED routeVars

\* broadcastRouteInvalidation
Broadcast(keys) ==
  LET sessions == {remoteNodes[n] : n \in Nodes}
  IN  /\ routes' = [s \in Sessions |-> [k \in Services |->
                      IF s \in sessions /\ k \in keys THEN NoNode ELSE routes[s][k]]]
      /\ looking' = [s \in Sessions |->
                      IF s \in sessions /\ looking[s].key \in keys
                      THEN [looking[s] EXCEPT !.stale = TRUE] ELSE looking[s]]

Done == stage' = "idle" /\ task' = NoTask /\ changed' = {}

\* Mutant of Unsubscribed: an ended subscriber is left in byServiceName.
UnsubscribedHalf(keys) ==
  /\ byServiceName' = byServiceName
  /\ bySubscriber' = [w \in Services |-> IF w \in keys THEN {} ELSE bySubscriber[w]]

\* removeSubscriber of every key
Unsubscribed(keys) ==
  /\ byServiceName' = [m \in Names |->
        {w \in byServiceName[m] : ~ (w \in keys /\ m \in bySubscriber[w])}]
  /\ bySubscriber' = [w \in Services |-> IF w \in keys THEN {} ELSE bySubscriber[w]]

\* serviceRegistered and servicesUnregistered up to the broadcast: services
\* that are gone no longer subscribe
BroadcastRoutes ==
  /\ stage = "broadcast"
  /\ IF task.op = "register" THEN UNCHANGED indexVars ELSE Unsubscribed(changed)
  /\ Broadcast(changed)
  /\ stage' = "notify"
  /\ UNCHANGED <<sessionVars, asking, queue, task, changed, registry, pushVars, granted>>

\* serviceRegistered: the subscribers of the name are told.  Each of them is
\* reached by itself, so telling them one by one makes no difference.
NotifyOnline ==
  /\ stage = "notify" /\ task.op = "register"
  /\ Push(byServiceName[NameOf[task.key]], changed, {})
  /\ Done
  /\ UNCHANGED <<sessionVars, asking, queue, registry, indexVars, snapshots, routeVars, granted>>

\* servicesUnregistered: the subscribers of every name are told
NotifyOffline ==
  /\ stage = "notify" /\ task.op \in {"unregister", "cleanup"}
  /\ told' = [l \in Links |-> [w \in Services |->
        IF LinkOf(w) = l
        THEN told[l][w] \ {k \in changed : w \in byServiceName[NameOf[k]]}
        ELSE told[l][w]]]
  /\ Done
  /\ UNCHANGED <<sessionVars, asking, queue, registry, indexVars, snapshots, routeVars, granted>>

Snapshot(m) == {k \in Services : registry[k] # NoNode /\ NameOf[k] = m}
Named(m) == {k \in Services : NameOf[k] = m}

\* serviceSubscriptionIndex.subscribe, which leaves a known pair alone
AddSubscription(w, m) ==
  IF w \in byServiceName[m] THEN UNCHANGED indexVars
  ELSE /\ byServiceName' = [byServiceName EXCEPT ![m] = @ \cup {w}]
       /\ bySubscriber' = [bySubscriber EXCEPT ![w] = @ \cup {m}]

\* addServiceSubscription, serviceSnapshot and the snapshot event
Subscribe ==
  /\ stage = "write" /\ task.op = "subscribe"
  /\ IF registry[task.key] = task.node
     THEN /\ AddSubscription(task.key, task.name)
          /\ Push({task.key}, Snapshot(task.name), Named(task.name))
          /\ snapshots' = [l \in Links |->
               IF l = LinkOf(task.key) THEN snapshots[l] \cup {<<task.key, task.name>>}
               ELSE snapshots[l]]
          /\ Done
          /\ UNCHANGED <<sessionVars, asking, queue, registry, routeVars, granted>>
     ELSE Refuse

Loop ==
  \/ Dequeue
  \/ WriteRegister \/ WriteUnregister \/ WriteCleanup \/ Subscribe
  \/ BroadcastRoutes \/ NotifyOnline \/ NotifyOffline

Remove(s) == RemoveDelete(s) \/ RemovePost(s)

Next ==
  \/ \E s \in Sessions :
       \/ OnAccept(s) \/ HandleRequest(s) \/ PostRequest(s) \/ LookupAnswer(s)
       \/ Break(s) \/ OnSessionClose(s) \/ HeartbeatTimeout(s) \/ Remove(s)
       \/ \E n \in Nodes : HandleRegisterNode(s, n)
       \/ \E k \in use.targets : LookupRead(s, k)
  \/ LocalRequest
  \/ Loop

Spec == Init /\ [][Next]_vars

-----------------------------------------------------------------------------
(* What is checked *)

TypeOK ==
  /\ use \in Uses
  /\ phase \in [Sessions -> {"new", "open", "broken"}]
  /\ active \in [Sessions -> BOOLEAN]
  /\ id \in [Sessions -> Nodes \cup {NoNode}]
  /\ remoteNodes \in [Nodes -> Sessions \cup {NoSession}]
  /\ removing \in [Sessions -> {"no", "swapped", "deleted", "unnamed", "done"}]
  /\ timedOut \in Sessions \cup {NoSession}
  /\ asking \in [Sessions -> Task \cup {NoTask}]
  /\ queue \in Seq(Task)
  /\ task \in Task \cup {NoTask}
  /\ stage \in {"idle", "write", "broadcast", "notify"}
  /\ changed \subseteq Services
  /\ registry \in [Services -> Members \cup {NoNode}]
  /\ byServiceName \in [Names -> SUBSET Services]
  /\ bySubscriber \in [Services -> SUBSET Names]
  /\ told \in [Links -> [Services -> SUBSET Services]]
  /\ snapshots \in [Links -> SUBSET (Services \X Names)]
  /\ looking \in [Sessions -> [key : Services \cup {NoKey}, node : Members \cup {NoNode}, stale : BOOLEAN]]
  /\ routes \in [Sessions -> [Services -> Members \cup {NoNode}]]
  /\ granted \in [Sessions -> SUBSET Services]

\* A Node's slot in remoteNodes is held by a session of that Node that is
\* active or that its remover is about to delete: a session that ends while
\* it registers cannot keep the slot, which would refuse the Node with
\* ErrNodeExists for ever (node.go:1394-1411, 1440-1453).
SlotIsReleasable ==
  \A n \in Nodes : LET s == remoteNodes[n] IN
    s # NoSession => id[s] = n /\ (active[s] \/ removing[s] = "swapped")

\* the cleanup of Node n is posted, or its remover is about to post it
CleanupDue(n) ==
  \/ \E s \in Sessions : id[s] = n /\ removing[s] = "deleted"
  \/ \E i \in 1..Len(queue) : queue[i] = Cleanup(n)
  \/ stage = "write" /\ task = Cleanup(n)

\* A service of another Node is in the registry only while the session it was
\* registered through holds the Node's slot, or the cleanup of that Node is
\* still to run: a registration that races the end of its session leaves no
\* orphan behind (node.go:1154-1165, 1454-1459).
NoOrphanRegistration ==
  \A k \in Services : registry[k] \in Nodes =>
    \/ \E s \in Sessions : remoteNodes[registry[k]] = s /\ k \in granted[s]
    \/ CleanupDue(registry[k])

\* The two maps of the subscription index describe the same relation, and
\* between tasks only registered services subscribe
\* (service_subscription.go:39-69, 261-266).
IndexConsistent ==
  \A w \in Services, m \in Names :
    /\ w \in byServiceName[m] <=> m \in bySubscriber[w]
    /\ w \in byServiceName[m] => registry[w] # NoNode \/ (stage = "broadcast" /\ w \in changed)

\* Once a subscriber was sent a snapshot over the link that now reaches it,
\* the snapshot and the events after it add up to the registry: no Online or
\* Offline is missed or repeated wrongly, whatever happens to other Nodes
\* (service_subscription.go:248-273, node.go:1216-1228).
ToldTruth ==
  \A w \in Services, m \in Names : LET l == LinkOf(w) IN
    l # NoSession /\ w \in byServiceName[m] /\ <<w, m>> \in snapshots[l]
      => \A k \in Named(m) :
           \/ k \in told[l][w] <=> registry[k] # NoNode
           \/ stage \in {"broadcast", "notify"} /\ k \in changed

\* A route a connected Node may have cached is the registry's, unless the
\* Loop is about to push its invalidation: a lookup answered around a change
\* of the registry never leaves a stale route behind
\* (node.go:1242-1253, 1549-1571, service_subscription.go:249, 267).
RoutesPushed ==
  \A n \in Nodes, k \in Services : LET s == remoteNodes[n] IN
    s # NoSession => \/ routes[s][k] \in {NoNode, registry[k]}
                     \/ stage = "broadcast" /\ k \in changed

\* A service registered through a session that is still the Node's session
\* stays registered until that session unregisters it: the cleanup of an
\* older session of the same Node, posted after remoteNodesMu was released,
\* does not take it away (node.go:1448-1459, main_recovery.go:152-153).
GrantedStaysRegistered ==
  \A s \in Sessions, k \in Services :
    Registered(s) /\ k \in granted[s] => registry[k] = id[s]
=============================================================================
