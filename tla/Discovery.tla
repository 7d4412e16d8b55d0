------------------------------ MODULE Discovery ------------------------------
(***************************************************************************)
(* A Service's list of the Services of a name it subscribed to             *)
(* (service_subscription.go): the main Node's control Loop registers and   *)
(* unregisters Services and pushes an event for each change, the           *)
(* subscriber's Node reads its connection to the main Node, posts every    *)
(* event to the subscriber's Loop, and the handler there keeps the list.   *)
(* The connection may break and be replaced; the subscriber may also live  *)
(* on the main Node.                                                       *)
(*                                                                         *)
(* The Services of the name live on other Nodes than the subscriber.  The  *)
(* clean-up of a lost session is posted after the session's place has been *)
(* given free, so it may run before or after anything that the Node does   *)
(* over its next connection.                                               *)
(***************************************************************************)
EXTENDS Naturals, Sequences, SequencesExt

CONSTANTS Instances,       \* the Services of the name
          Links,           \* the connections, 1, 2, ... one after the other
          MaxChanges,      \* registrations and unregistrations in a behaviour
          MaxSubscribes    \* calls of Subscribe in a behaviour

VARIABLES
    where,        \* the subscriber's Node: "main" or "other"
    registered,   \* the registry of the main Node: the instances online
    member,       \* the subscriber itself is in the registry
    subscribed,   \* the subscription is in the main Node's index
    session,      \* the link that remoteNodes holds for the subscriber's
                  \* Node, or 0
    cleanups,     \* clean-ups of lost sessions that are still to run
    restored,     \* the subscriber has been registered over the newest link
    pushed,       \* the events on their way on each link
    link, up,     \* the newest link, and whether its client is connected
    inHand,       \* what the reading goroutine of each link is about to post
    tasks,        \* the subscriber's Loop
    asked,        \* history: the link of the last subscription
    newest,       \* history: the newest link of which an event has been posted
    view,         \* what the handler has: the list, the link of the last
                  \* Snapshot, and the instances of which the last event since
                  \* was a late one
    changes, subscribes

directoryVars == <<registered, member, subscribed, session, cleanups, asked>>
connectionVars == <<where, link, up, restored>>
deliveryVars == <<inHand, newest, view>>
discoveryVars == <<directoryVars, connectionVars, deliveryVars, pushed, tasks,
                   changes, subscribes>>

Snapshot(services) == [type |-> "snapshot", services |-> services]
Online(i) == [type |-> "online", services |-> {i}]
Offline(i) == [type |-> "offline", services |-> {i}]

\* The subscriber's Node is connected, and registers the subscriber next.
DiscoveryInit ==
    /\ where \in {"main", "other"}
    /\ registered \in SUBSET Instances /\ member = (where = "main")
    /\ subscribed = FALSE /\ asked = 0 /\ cleanups = 0
    /\ link = 1 /\ up = TRUE /\ session = 1 /\ restored = member
    /\ pushed = [l \in Links |-> <<>>] /\ inHand = [l \in Links |-> <<>>]
    /\ tasks = <<>>
    /\ newest = 0
    /\ view = [list |-> {}, base |-> 0, late |-> {}]
    /\ changes = 0 /\ subscribes = 0

-----------------------------------------------------------------------------
(* The main Node, on its control Loop. *)

\* An event of an earlier link that comes after one of a later link is late.
TaskOf(l, event) ==
    [event |-> event, link |-> l, late |-> l < newest]

\* sendServiceDiscovery: to the Loop of a subscriber of the main Node itself, or
\* to the session that the subscriber's Node has now, if it has one; nothing
\* arrives once the connection is broken.
sendServiceDiscovery(event) ==
    \/ /\ where = "main"
       /\ tasks' = Append(tasks, TaskOf(link, event))
       /\ UNCHANGED pushed
    \/ /\ where = "other" /\ session # 0 /\ up
       /\ pushed' = [pushed EXCEPT ![session] = Append(@, event)]
       /\ UNCHANGED tasks
    \/ /\ where = "other" /\ ~(session # 0 /\ up)
       /\ UNCHANGED <<pushed, tasks>>

\* To the subscribers in the index, as long as the registry has them.
Notify(event) ==
    IF subscribed /\ member THEN sendServiceDiscovery(event)
    ELSE UNCHANGED <<pushed, tasks>>

\* Mutant of MayRegister: a key may be registered again.
MayRegisterAgain(i) == TRUE

\* Register refuses a key that is taken.
MayRegister(i) == i \notin registered

\* A Service of the name is registered: serviceRegistered.
Registers(i) ==
    /\ changes < MaxChanges /\ changes' = changes + 1
    /\ MayRegister(i)
    /\ registered' = registered \cup {i}
    /\ Notify(Online(i))
    /\ UNCHANGED <<member, subscribed, session, cleanups, asked, connectionVars,
                   deliveryVars, subscribes>>

\* It is unregistered: servicesUnregistered.
Unregisters(i) ==
    /\ changes < MaxChanges /\ changes' = changes + 1
    /\ i \in registered
    /\ registered' = registered \ {i}
    /\ Notify(Offline(i))
    /\ UNCHANGED <<member, subscribed, session, cleanups, asked, connectionVars,
                   deliveryVars, subscribes>>

\* serviceSnapshot: the Services of the name that are registered.
serviceSnapshot == registered

\* A subscription, the first, a repeated one or one that the recovery replays:
\* the session is the Node's current one and the subscriber is in the registry,
\* the index takes it and a Snapshot is sent, in one step of the control Loop.
Subscribes ==
    /\ subscribes < MaxSubscribes /\ subscribes' = subscribes + 1
    /\ where = "other" => session = link /\ restored
    /\ member
    /\ subscribed' = TRUE /\ asked' = link
    /\ sendServiceDiscovery(Snapshot(serviceSnapshot))
    /\ UNCHANGED <<registered, member, session, cleanups, connectionVars,
                   deliveryVars, changes>>

\* removeRemoteNode: the Node's place is given free at once, and the clean-up of
\* its Services goes to the control Loop after that.
SessionRemoved ==
    /\ where = "other" /\ session # 0
    /\ session' = 0 /\ cleanups' = cleanups + 1
    /\ UNCHANGED <<registered, member, subscribed, asked, connectionVars,
                   deliveryVars, pushed, tasks, changes, subscribes>>

\* Mutant of WithoutSubscriber: the subscriber stays in the index.
StillSubscribed == subscribed

\* removeSubscriber.
WithoutSubscriber == FALSE

\* The clean-up is by the Node and not by the session: whatever the Node has
\* registered by now goes.
CleansUp ==
    /\ cleanups > 0 /\ cleanups' = cleanups - 1
    /\ member' = FALSE /\ subscribed' = WithoutSubscriber
    /\ UNCHANGED <<registered, session, asked, connectionVars, deliveryVars, pushed,
                   tasks, changes, subscribes>>

-----------------------------------------------------------------------------
(* The subscriber's Node. *)

\* The connection is lost, or the recovery gives it up because it cannot restore
\* the Node's state; the end of what was on its way is lost.
Disconnects ==
    /\ where = "other" /\ up /\ up' = FALSE
    /\ \E n \in 0..Len(pushed[link]) :
          pushed' = [pushed EXCEPT ![link] = SubSeq(@, 1, n)]
    /\ UNCHANGED <<directoryVars, where, link, restored, deliveryVars, tasks, changes,
                   subscribes>>

\* What handleRegisterNode asks of a Node that comes back.
PlaceFree == session = 0

\* recoverMainNodeClient opens the next link and registers the Node over it.
Recovers ==
    /\ ~up /\ PlaceFree
    /\ link + 1 \in Links
    /\ link' = link + 1 /\ session' = link + 1
    /\ up' = TRUE /\ restored' = FALSE
    /\ UNCHANGED <<where, registered, member, subscribed, cleanups, asked,
                   deliveryVars, pushed, tasks, changes, subscribes>>

\* Start or restoreMainNodeState registers the subscriber, which the registry
\* refuses until the clean-up has removed it.
Restores ==
    /\ session = link /\ ~restored /\ restored' = TRUE
    /\ ~member /\ member' = TRUE
    /\ UNCHANGED <<where, link, up, registered, subscribed, session, cleanups, asked,
                   deliveryVars, pushed, tasks, changes, subscribes>>

\* RPCClient.handleRPCDirect takes an event of its link; it asks neither whether
\* the client is still connected nor whether it is the current one.
Reads(l) ==
    /\ inHand[l] = <<>> /\ pushed[l] # <<>>
    /\ inHand' = [inHand EXCEPT ![l] = <<Head(pushed[l])>>]
    /\ pushed' = [pushed EXCEPT ![l] = Tail(@)]
    /\ UNCHANGED <<directoryVars, connectionVars, tasks, newest, view, changes,
                   subscribes>>

\* dispatchLocalServiceDiscovery posts it to the subscriber's Loop.
Posts(l) ==
    /\ inHand[l] # <<>>
    /\ tasks' = Append(tasks, TaskOf(l, Head(inHand[l])))
    /\ newest' = IF l > newest THEN l ELSE newest
    /\ inHand' = [inHand EXCEPT ![l] = <<>>]
    /\ UNCHANGED <<directoryVars, connectionVars, pushed, view, changes, subscribes>>

\* HandleServiceSnapshot replaces the list; HandleServiceOnline and
\* HandleServiceOffline change it.
Listed(list, event) ==
    CASE event.type = "snapshot" -> event.services
      [] event.type = "online" -> list \cup event.services
      [] event.type = "offline" -> list \ event.services

Applied(v, task) ==
    LET snapshot == task.event.type = "snapshot"
        about == IF snapshot THEN Instances ELSE task.event.services
    IN  [list |-> Listed(v.list, task.event),
         base |-> IF snapshot THEN task.link ELSE v.base,
         late |-> IF task.late THEN v.late \cup about ELSE v.late \ about]

Handles ==
    /\ tasks # <<>>
    /\ view' = Applied(view, Head(tasks))
    /\ tasks' = Tail(tasks)
    /\ UNCHANGED <<directoryVars, connectionVars, pushed, inHand, newest, changes,
                   subscribes>>

DiscoveryNext ==
    \/ \E i \in Instances : Registers(i) \/ Unregisters(i)
    \/ Subscribes \/ SessionRemoved \/ CleansUp
    \/ Disconnects \/ Recovers \/ Restores
    \/ \E l \in Links : Reads(l) \/ Posts(l)
    \/ Handles

-----------------------------------------------------------------------------
\* What is on its way to the subscriber's handler on the newest link.
Coming ==
    tasks \o [n \in 1..Len(inHand[link] \o pushed[link]) |->
                 TaskOf(link, (inHand[link] \o pushed[link])[n])]

\* What the handler will have when everything on its way has been handled.
Final == FoldLeft(Applied, view, Coming)

\* A subscription of a connected Node stands, and it was made over the current
\* connection; or it is an older one, and no clean-up is left that will end it.
Stands ==
    /\ subscribed /\ (where = "other" => up /\ session = link)
    /\ asked = link \/ cleanups = 0

\* Once everything on its way has been handled, the list of a subscriber whose
\* subscription stands is the main Node's registry: no change falls between the
\* Snapshot and the events, whatever a subscription of an earlier connection
\* pushed into the new one before its Snapshot, and no subscription stays behind
\* without one (service_subscription.go:159-273, node.go:1447-1460).  An event of
\* an earlier connection that is posted behind the Snapshot of the newest one
\* (rpc_client.go:70-129 does not ask) can make the list wrong, but only about
\* the Services it names, and only until the next news of them.
ListFollows ==
    Stands => \A i \in Instances \ Final.late : i \in Final.list <=> i \in registered

\* An event on top of a Snapshot of its own connection says something new: the
\* handler is told that a Service is online when it is not in the list, and that
\* it is offline when it is; what a Snapshot already holds is not told again
\* (service_subscription.go:159-173, 248-273, registry.go:52-58).
NewsIsNew ==
    tasks # <<>> =>
       LET task == Head(tasks)
           named == task.event.services
       IN  task.link = view.base /\ ~task.late /\ named \cap view.late = {} =>
              /\ task.event.type = "online" => named \cap view.list = {}
              /\ task.event.type = "offline" => named \subseteq view.list

=============================================================================
