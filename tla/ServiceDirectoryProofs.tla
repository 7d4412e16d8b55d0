----------------------- MODULE ServiceDirectoryProofs -----------------------
(***************************************************************************)
(* Proofs about ServiceDirectory, for any Nodes, sessions, services, names *)
(* and deployments and any number of requests on their way.                *)
(***************************************************************************)
EXTENDS ServiceDirectory, TLAPS

\* A session is removed once, and a remover that has freed a slot knows whose it
\* was.
DeletedInv ==
  \A s \in Sessions :
    /\ phase[s] = "new" => ~ active[s] /\ removing[s] = "no"
    /\ active[s] => removing[s] = "no"
    /\ removing[s] = "deleted" => id[s] # NoNode

\* A request over a session is of that session's Node, and one over the main
\* Node's own link is of the main Node.
Sound(t, ids) ==
  /\ t.link \in Sessions => ids[t.link] = t.node
  /\ t.link = Main /\ t.op # "cleanup" => t.node = Main

TaskInv ==
  /\ \A i \in 1..Len(queue) : Sound(queue[i], id)
  /\ \A s \in Sessions : asking[s] # NoTask => Sound(asking[s], id)
  /\ task # NoTask => Sound(task, id)

\* Until a change of the registry has been pushed, the registry shows it.
ChangeInv ==
  stage \in {"broadcast", "notify"} =>
    \/ task.op = "register" /\ changed = {task.key} /\ registry[task.key] # NoNode
    \/ task.op \in {"unregister", "cleanup"} /\ \A k \in changed : registry[k] = NoNode

\* Nothing was pushed to a session, and no route was given to it, before its Node
\* registered.
FreshInv ==
  \A s \in Sessions : id[s] = NoNode =>
    /\ snapshots[s] = {} /\ looking[s] = NoLookup
    /\ \A k \in Services : routes[s][k] = NoNode

\* A lookup under way holds the registry's route, or is known to be overtaken.
LookInv ==
  /\ \A s \in Sessions : looking[s] # NoLookup => looking[s].key \in Services
  /\ \A n \in Nodes : LET s == remoteNodes[n] IN
       s # NoSession /\ looking[s] # NoLookup /\ ~ looking[s].stale =>
         \/ looking[s].node = registry[looking[s].key]
         \/ stage = "broadcast" /\ looking[s].key \in changed

\* The session that a registration came from holds the Node's slot, or the Node's
\* cleanup comes behind it.
GrantInv ==
  stage = "write" /\ task.op = "register" /\ task.node \in Nodes =>
    remoteNodes[task.node] = task.link \/ CleanupDue(task.node)

Inv ==
  /\ TypeOK /\ DeletedInv /\ TaskInv /\ ChangeInv /\ FreshInv /\ LookInv /\ GrantInv
  /\ SlotIsReleasable /\ NoOrphanRegistration /\ IndexConsistent /\ RoutesPushed /\ ToldTruth

-----------------------------------------------------------------------------
(* Types *)

\* A request of the services of Node n over link l is a task that says so; only
\* removeRemoteNode asks for a cleanup.
LEMMA RequestIsTask ==
  ASSUME use \in Uses, NEW l \in Links, NEW n \in Members, NEW t \in Requests(l, n)
  PROVE  t \in Task /\ t.link = l /\ t.node = n /\ t.op # "cleanup"
<1>2. PICK k \in Services :
        t \in {Request(op, l, n, k, NoName) : op \in {"register", "unregister"}}
                \cup {Request("subscribe", l, n, k, m) : m \in use.wants[k]}
  BY DEF Requests
<1>3. CASE \E op \in {"register", "unregister"} : t = Request(op, l, n, k, NoName)
  BY <1>3 DEF Request, Task
<1>4. CASE \E m \in use.wants[k] : t = Request("subscribe", l, n, k, m)
  BY DirectoryAssumption, <1>4 DEF Request, Task
<1> QED
  BY <1>2, <1>3, <1>4, Zenon

\* The cleanup of a Node is a task.
LEMMA CleanupIsTask == ASSUME NEW n \in Nodes PROVE Cleanup(n) \in Task
  BY Zenon DEF Cleanup, Request, Task

\* Marking a lookup stale, as a broadcast does, leaves a lookup.
LEMMA MarkedStale ==
  ASSUME NEW Keys, NEW Where, NEW r \in [key : Keys, node : Where, stale : BOOLEAN]
  PROVE  [r EXCEPT !.stale = TRUE] \in [key : Keys, node : Where, stale : BOOLEAN]
  OBVIOUS

\* The initial states are well typed.
LEMMA InitType == Init => TypeOK
<1> SUFFICES ASSUME Init PROVE TypeOK
  OBVIOUS
<1>1. /\ timedOut \in Sessions \cup {NoSession}
      /\ looking \in [Sessions -> [key : Services \cup {NoKey}, node : Members \cup {NoNode},
                                   stale : BOOLEAN]]
  BY Zenon DEF Init, NoLookup
<1>2. <<>> \in Seq(Task)
  OBVIOUS
<1> QED
  BY <1>1, <1>2, ZenonT(30) DEF Init, TypeOK

\* Every step keeps every variable in its type.
LEMMA TypeStep == TypeOK /\ DeletedInv /\ [Next]_vars => TypeOK'
<1> SUFFICES ASSUME TypeOK, DeletedInv, [Next]_vars PROVE TypeOK'
  OBVIOUS
<1> USE DirectoryAssumption
    DEF TypeOK, sessionVars, loopVars, indexVars, pushVars, routeVars, Links, Members
<1>1. ASSUME NEW s \in Sessions, OnAccept(s) PROVE TypeOK'
  BY <1>1, Zenon DEF OnAccept
<1>2. ASSUME NEW s \in Sessions, HandleRequest(s) PROVE TypeOK'
  <2>2. PICK t \in Requests(s, id[s]) : asking' = [asking EXCEPT ![s] = t]
    BY <1>2, Zenon DEF HandleRequest
  <2> QED
    BY <1>2, <2>2, RequestIsTask DEF HandleRequest, Registered
<1>3. ASSUME NEW s \in Sessions, PostRequest(s) PROVE TypeOK'
  BY <1>3 DEF PostRequest, Post
<1>4. ASSUME NEW s \in Sessions, LookupAnswer(s) PROVE TypeOK'
  BY <1>4, Zenon DEF LookupAnswer, NoLookup
<1>5. ASSUME NEW s \in Sessions, Break(s) PROVE TypeOK'
  BY <1>5, Zenon DEF Break
<1>6. ASSUME NEW s \in Sessions, OnSessionClose(s) PROVE TypeOK'
  BY <1>6, Zenon DEF OnSessionClose, Swap
<1>7. ASSUME NEW s \in Sessions, HeartbeatTimeout(s) PROVE TypeOK'
  BY <1>7, Zenon DEF HeartbeatTimeout, Swap
<1>8. ASSUME NEW s \in Sessions, RemoveDelete(s) PROVE TypeOK'
  BY <1>8, ZenonT(30) DEF RemoveDelete, Forget
<1>9. ASSUME NEW s \in Sessions, RemovePost(s) PROVE TypeOK'
  <2>1. queue' \in Seq(Task)
    <3>1. CASE removing[s] = "deleted"
      <4>1. Cleanup(id[s]) \in Task
        <5>1. id[s] \in Nodes
          BY <3>1, Zenon DEF DeletedInv
        <5> HIDE DEF TypeOK
        <5> QED
          BY <5>1, CleanupIsTask, Zenon
      <4>3. queue \in Seq(Task)
        BY Zenon
      <4> HIDE DEF TypeOK
      <4> QED
        BY <4>1, <3>1, <1>9, <4>3 DEF RemovePost, PostsCleanup, Post
    <3>2. CASE removing[s] # "deleted"
      BY <3>2, <1>9, Zenon DEF RemovePost, PostsCleanup
    <3> QED
      BY <3>1, <3>2, Zenon
  <2> QED
    BY <1>9, <2>1 DEF RemovePost
<1>10. ASSUME NEW s \in Sessions, NEW n \in Nodes, HandleRegisterNode(s, n) PROVE TypeOK'
  BY <1>10, Zenon DEF HandleRegisterNode
<1>11. ASSUME NEW s \in Sessions, NEW k \in use.targets, LookupRead(s, k) PROVE TypeOK'
  BY <1>11, Zenon DEF LookupRead
<1>12. ASSUME LocalRequest PROVE TypeOK'
  BY <1>12, RequestIsTask DEF LocalRequest, Post
<1>13. ASSUME Dequeue PROVE TypeOK'
  BY <1>13 DEF Dequeue
<1>14. ASSUME NEW keys \in SUBSET Services, NEW n \in Members \cup {NoNode},
              Write(keys, n), granted' \in [Sessions -> SUBSET Services]
       PROVE  TypeOK'
  BY <1>14, Zenon DEF Write
<1>15. ASSUME Refuse PROVE TypeOK'
  BY <1>15, Zenon DEF Refuse
<1>16. ASSUME WriteRegister \/ WriteUnregister \/ WriteCleanup PROVE TypeOK'
  <2>2. task.node \in Members /\ (task.op # "cleanup" => task.key \in Services)
    BY <1>16 DEF Task, WriteRegister, WriteUnregister, WriteCleanup, NoTask
  <2>3. CASE WriteRegister
    <3>1. CASE registry[task.key] = NoNode
      <4>1. Write({task.key}, task.node)
        BY <2>3, <3>1, Zenon DEF WriteRegister
      <4>2. granted' \in [Sessions -> SUBSET Services]
        <5>2. granted \in [Sessions -> SUBSET Services]
          BY Zenon
        <5> HIDE DEF TypeOK
        <5> QED
          BY <2>3, <3>1, <5>2, <2>2 DEF WriteRegister
      <4>3. {task.key} \in SUBSET Services
        BY <2>2, <2>3, Zenon DEF WriteRegister
      <4> QED
        BY <2>2, <4>1, <4>2, <4>3, <1>14, Zenon
    <3>2. CASE registry[task.key] # NoNode
      BY <2>3, <3>2, <1>15, Zenon DEF WriteRegister
    <3> QED
      BY <3>1, <3>2, Zenon
  <2>4. CASE WriteUnregister
    <3>1. CASE registry[task.key] = task.node
      <4>1. Write({task.key}, NoNode)
        BY <2>4, <3>1, Zenon DEF WriteUnregister
      <4>2. granted' \in [Sessions -> SUBSET Services]
        <5>2. granted \in [Sessions -> SUBSET Services]
          BY Zenon
        <5> HIDE DEF TypeOK
        <5> QED
          BY <2>4, <3>1, <5>2 DEF WriteUnregister
      <4>3. {task.key} \in SUBSET Services
        BY <2>2, <2>4, Zenon DEF WriteUnregister
      <4> QED
        BY <4>1, <4>2, <4>3, <1>14, Zenon
    <3>2. CASE registry[task.key] # task.node
      BY <2>4, <3>2, <1>15, Zenon DEF WriteUnregister
    <3> QED
      BY <3>1, <3>2, Zenon
  <2>5. CASE WriteCleanup
    BY <2>2, <2>5, <1>14, Zenon DEF WriteCleanup, KeysOfNode
  <2> QED
    BY <1>16, <2>3, <2>4, <2>5, Zenon
<1>17. ASSUME BroadcastRoutes PROVE TypeOK'
  <2> DEFINE Looked == [key : Services \cup {NoKey}, node : Members \cup {NoNode}, stale : BOOLEAN]
  <2>1. byServiceName' \in [Names -> SUBSET Services] /\ bySubscriber' \in [Services -> SUBSET Names]
    BY <1>17 DEF BroadcastRoutes, Unsubscribed
  <2>3. looking' \in [Sessions -> Looked]
    <3>0. looking \in [Sessions -> Looked]
      BY Zenon
    <3>1. \A s \in Sessions : looking[s] \in Looked /\ [looking[s] EXCEPT !.stale = TRUE] \in Looked
      BY <3>0, MarkedStale, Zenon
    <3> HIDE DEF TypeOK, Looked
    <3> QED
      BY <3>1, <1>17, Zenon DEF BroadcastRoutes, Broadcast
  <2> QED
    BY <1>17, <2>1, <2>3 DEF BroadcastRoutes, Broadcast
<1>18. ASSUME NotifyOnline PROVE TypeOK'
  BY <1>18 DEF NotifyOnline, Push, Done
<1>19. ASSUME NotifyOffline PROVE TypeOK'
  BY <1>19 DEF NotifyOffline, Done
<1>20. ASSUME Subscribe PROVE TypeOK'
  <2>1. CASE registry[task.key] # task.node
    BY <2>1, <1>15, <1>20, Zenon DEF Subscribe
  <2>2. CASE registry[task.key] = task.node
    <3>2. task.key \in Services /\ task.name \in Names
      BY <1>20 DEF Subscribe, Task, NoTask
    <3>3. byServiceName' \in [Names -> SUBSET Services] /\ bySubscriber' \in [Services -> SUBSET Names]
      <4>1. AddSubscription(task.key, task.name)
        BY <1>20, <2>2, Zenon DEF Subscribe
      <4>2. byServiceName \in [Names -> SUBSET Services] /\ bySubscriber \in [Services -> SUBSET Names]
        BY Zenon
      <4> HIDE DEF TypeOK
      <4>3. CASE task.key \in byServiceName[task.name]
        BY <4>1, <4>2, <4>3, Zenon DEF AddSubscription
      <4>4. CASE task.key \notin byServiceName[task.name]
        BY <3>2, <4>1, <4>2, <4>4 DEF AddSubscription
      <4> QED
        BY <4>3, <4>4, Zenon
    <3>4. told' \in [Links -> [Services -> SUBSET Services]]
      <4>1. Push({task.key}, Snapshot(task.name), Named(task.name))
        BY <1>20, <2>2, Zenon DEF Subscribe
      <4> QED
        BY <4>1 DEF Push, Snapshot
    <3>5. snapshots' \in [Links -> SUBSET (Services \X Names)]
      <4>3. snapshots \in [Links -> SUBSET (Services \X Names)]
        BY Zenon
      <4> HIDE DEF TypeOK, Links
      <4> QED
        BY <3>2, <1>20, <2>2, <4>3 DEF Subscribe
    <3> QED
      BY <1>20, <2>2, <3>3, <3>4, <3>5 DEF Subscribe, Done
  <2> QED
    BY <2>1, <2>2, Zenon
<1>21. CASE UNCHANGED vars
  BY <1>21, Zenon DEF vars
<1> QED
  BY <1>1, <1>2, <1>3, <1>4, <1>5, <1>6, <1>7, <1>8, <1>9, <1>10, <1>11, <1>12,
     <1>13, <1>16, <1>17, <1>18, <1>19, <1>20, <1>21, ZenonT(30) DEF Next, Loop, Remove

-----------------------------------------------------------------------------
(* Sessions *)

\* The control Loop's work on a task does not touch the sessions, and neither do
\* requests and lookups.
LEMMA LoopKeepsSessions ==
  ASSUME Loop \/ LocalRequest PROVE UNCHANGED sessionVars
  BY Zenon DEF Loop, LocalRequest, Dequeue, WriteRegister, WriteUnregister, WriteCleanup,
     Subscribe, BroadcastRoutes, NotifyOnline, NotifyOffline, Write, Refuse

\* Slots and their removers: RemoveDelete frees the slot of the session it removes,
\* for a session can only hold the slot of its own Node.
LEMMA SlotStep ==
  TypeOK /\ DeletedInv /\ SlotIsReleasable /\ [Next]_vars => DeletedInv' /\ SlotIsReleasable'
<1> SUFFICES ASSUME TypeOK, DeletedInv, SlotIsReleasable, [Next]_vars
             PROVE  DeletedInv' /\ SlotIsReleasable'
  OBVIOUS
<1>0. /\ active \in [Sessions -> BOOLEAN]
      /\ phase \in [Sessions -> {"new", "open", "broken"}]
      /\ id \in [Sessions -> Nodes \cup {NoNode}]
      /\ remoteNodes \in [Nodes -> Sessions \cup {NoSession}]
      /\ removing \in [Sessions -> {"no", "swapped", "deleted", "unnamed", "done"}]
      /\ NoNode \notin Nodes /\ NoSession \notin Sessions
  BY DirectoryAssumption, Zenon DEF TypeOK, Members, Links
<1> USE <1>0 DEF DeletedInv, SlotIsReleasable
<1>1. ASSUME NEW s \in Sessions, OnAccept(s)
      PROVE  DeletedInv' /\ SlotIsReleasable'
  BY <1>1 DEF OnAccept
<1>2. ASSUME NEW s \in Sessions, OnSessionClose(s) \/ HeartbeatTimeout(s)
      PROVE  DeletedInv' /\ SlotIsReleasable'
  BY <1>2 DEF OnSessionClose, HeartbeatTimeout, Swap
<1>3. ASSUME NEW s \in Sessions, RemoveDelete(s)
      PROVE  DeletedInv' /\ SlotIsReleasable'
  BY <1>3 DEF RemoveDelete
<1>4. ASSUME NEW s \in Sessions, RemovePost(s)
      PROVE  DeletedInv' /\ SlotIsReleasable'
  BY <1>4 DEF RemovePost
<1>5. ASSUME NEW s \in Sessions, NEW n \in Nodes, HandleRegisterNode(s, n)
      PROVE  DeletedInv' /\ SlotIsReleasable'
  BY <1>5 DEF HandleRegisterNode, MayRegister
<1>6. ASSUME UNCHANGED <<phase, active, id, remoteNodes, removing>>
      PROVE  DeletedInv' /\ SlotIsReleasable'
  BY <1>6, Zenon
<1>7. ASSUME NEW s \in Sessions,
             \/ HandleRequest(s) \/ PostRequest(s) \/ LookupAnswer(s)
             \/ \E k \in use.targets : LookupRead(s, k)
      PROVE  UNCHANGED <<phase, active, id, remoteNodes, removing>>
  BY <1>7, Zenon DEF HandleRequest, PostRequest, LookupAnswer, LookupRead, sessionVars
<1>8. ASSUME NEW s \in Sessions, Break(s)
      PROVE  DeletedInv' /\ SlotIsReleasable'
  <2>1. /\ phase[s] = "open" /\ phase' = [phase EXCEPT ![s] = "broken"]
        /\ UNCHANGED <<active, id, remoteNodes, removing>>
    BY <1>8, Zenon DEF Break
  <2> QED
    BY <2>1
<1> QED
  BY <1>1, <1>2, <1>3, <1>4, <1>5, <1>6, <1>7, <1>8, LoopKeepsSessions, Zenon DEF Next,
     Remove, vars, sessionVars

\* A session keeps the Node it has registered.
LEMMA IdKept ==
  ASSUME TypeOK, [Next]_vars, NEW s \in Sessions, id[s] # NoNode
  PROVE  id'[s] = id[s]
<1>0. id \in [Sessions -> Nodes \cup {NoNode}]
  BY Zenon DEF TypeOK
<1>1. ASSUME NEW t \in Sessions, NEW n \in Nodes, HandleRegisterNode(t, n)
      PROVE  id'[s] = id[s]
  <2>1. id[t] = NoNode /\ id' = [id EXCEPT ![t] = n]
    BY <1>1, Zenon DEF HandleRegisterNode, MayRegister
  <2> QED
    BY <1>0, <2>1
<1>2. ASSUME NEW t \in Sessions,
             \/ OnAccept(t) \/ HandleRequest(t) \/ PostRequest(t) \/ LookupAnswer(t)
             \/ Break(t) \/ OnSessionClose(t) \/ HeartbeatTimeout(t) \/ Remove(t)
             \/ \E k \in use.targets : LookupRead(t, k)
      PROVE  id' = id
  BY <1>2, Zenon DEF OnAccept, HandleRequest, PostRequest, LookupAnswer, Break, OnSessionClose,
     HeartbeatTimeout, Remove, RemoveDelete, RemovePost, LookupRead, sessionVars
<1> QED
  BY <1>1, <1>2, LoopKeepsSessions, Zenon DEF Next, vars, sessionVars

-----------------------------------------------------------------------------
(* Requests and the control Loop *)

\* What is appended to a queue comes last, and the rest stays where it is.
LEMMA Appended ==
  ASSUME NEW S, NEW q \in Seq(S), NEW e \in S
  PROVE  /\ Append(q, e) \in Seq(S) /\ Len(Append(q, e)) = Len(q) + 1
         /\ Append(q, e)[Len(q) + 1] = e
         /\ \A i \in 1..Len(q) : Append(q, e)[i] = q[i]
  OBVIOUS

\* What is behind the head of a queue moves up by one.
LEMMA Shifted ==
  ASSUME NEW S, NEW q \in Seq(S), q # <<>>
  PROVE  /\ Head(q) \in S /\ Head(q) = q[1] /\ Len(q) >= 1
         /\ Tail(q) \in Seq(S) /\ Len(Tail(q)) = Len(q) - 1
         /\ \A i \in 1..Len(Tail(q)) : i + 1 \in 1..Len(q) /\ Tail(q)[i] = q[i + 1]
  OBVIOUS

\* Tasks: what was checked when a request was read still identifies its Node.
LEMMA TaskStep ==
  TypeOK /\ DeletedInv /\ TaskInv /\ [Next]_vars => TaskInv'
<1> SUFFICES ASSUME TypeOK, DeletedInv, TaskInv, [Next]_vars PROVE TaskInv'
  OBVIOUS
<1>0. /\ id \in [Sessions -> Nodes \cup {NoNode}]
      /\ asking \in [Sessions -> Task \cup {NoTask}]
      /\ queue \in Seq(Task) /\ task \in Task \cup {NoTask}
      /\ Main \notin Sessions /\ NoNode \notin Members
  BY DirectoryAssumption, Zenon DEF TypeOK
<1>1. ASSUME NEW t \in Task, Sound(t, id) PROVE Sound(t, id')
  BY <1>0, <1>1, IdKept DEF Task, Members, Sound
<1>2. \A i \in 1..Len(queue) : queue[i] \in Task /\ Sound(queue[i], id')
  BY <1>0, <1>1 DEF TaskInv
<1>3. \A s \in Sessions : asking[s] # NoTask => Sound(asking[s], id')
  BY <1>0, <1>1, Zenon DEF TaskInv
<1>4. task # NoTask => Sound(task, id')
  BY <1>0, <1>1, Zenon DEF TaskInv
<1> DEFINE QueueSound == \A i \in 1..Len(queue) : Sound(queue[i], id)
           AskingSound == \A s \in Sessions : asking[s] # NoTask => Sound(asking[s], id)
           RunningSound == task # NoTask => Sound(task, id)
<1>5. ASSUME NEW t \in Task, Sound(t, id'), queue' = Append(queue, t) PROVE QueueSound'
  BY <1>0, <1>2, <1>5, Appended
<1>6. queue' = queue => QueueSound'
  BY <1>2
<1>7. asking' = asking => AskingSound'
  BY <1>3
<1>8. task' = task \/ task' = NoTask => RunningSound'
  BY <1>4
<1> HIDE DEF QueueSound, AskingSound, RunningSound
<1>9. ASSUME NEW s \in Sessions, HandleRequest(s)
      PROVE  QueueSound' /\ AskingSound' /\ RunningSound'
  <2>2. PICK t \in Requests(s, id[s]) : asking' = [asking EXCEPT ![s] = t]
    BY <1>9, Zenon DEF HandleRequest
  <2> QED
    BY <1>9, <1>0, <1>1, <1>3, <2>2, RequestIsTask, <1>6, <1>8 DEF HandleRequest,
       AskingSound, Sound, TypeOK, Registered, Members, Links
<1>10. ASSUME NEW s \in Sessions, PostRequest(s)
       PROVE  QueueSound' /\ AskingSound' /\ RunningSound'
  BY <1>0, <1>3, <1>5, <1>10, <1>8, Zenon DEF PostRequest, Post, AskingSound
<1>11. ASSUME NEW s \in Sessions, RemovePost(s)
       PROVE  QueueSound' /\ AskingSound' /\ RunningSound'
  BY <1>0, CleanupIsTask, <1>11, <1>5, <1>7, <1>8, <1>6, Zenon DEF DeletedInv, Sound,
     Cleanup, Request, RemovePost, PostsCleanup, Post
<1>12. ASSUME LocalRequest PROVE QueueSound' /\ AskingSound' /\ RunningSound'
  <2>1. PICK t \in Requests(Main, Main) : queue' = Append(queue, t)
    BY <1>12, Zenon DEF LocalRequest, Post
  <2> QED
    BY <1>5, <1>7, <1>8, <1>12, <2>1, <1>0, RequestIsTask DEF LocalRequest, Sound, TypeOK,
       Links, Members
<1>13. ASSUME Dequeue PROVE QueueSound' /\ AskingSound' /\ RunningSound'
  BY <1>0, <1>2, <1>13, Shifted, <1>4, <1>7 DEF Dequeue, QueueSound, RunningSound
<1>14. ASSUME \/ WriteRegister \/ WriteUnregister \/ WriteCleanup \/ Subscribe
              \/ BroadcastRoutes \/ NotifyOnline \/ NotifyOffline
       PROVE  queue' = queue /\ asking' = asking /\ (task' = task \/ task' = NoTask)
  BY <1>14, Zenon DEF WriteRegister, WriteUnregister, WriteCleanup, Subscribe,
     BroadcastRoutes, NotifyOnline, NotifyOffline, Write, Refuse, Done
<1>15. ASSUME NEW s \in Sessions,
              \/ OnAccept(s) \/ LookupAnswer(s) \/ Break(s) \/ OnSessionClose(s)
              \/ HeartbeatTimeout(s) \/ RemoveDelete(s)
              \/ \E n \in Nodes : HandleRegisterNode(s, n)
              \/ \E k \in use.targets : LookupRead(s, k)
       PROVE  queue' = queue /\ asking' = asking /\ task' = task
  BY <1>15, Zenon DEF OnAccept, LookupAnswer, Break, OnSessionClose, HeartbeatTimeout,
     RemoveDelete, HandleRegisterNode, LookupRead, loopVars
<1> QED
  BY <1>6, <1>7, <1>8, <1>9, <1>10, <1>11, <1>12, <1>13, <1>14, <1>15, Zenon DEF TaskInv,
     QueueSound, AskingSound, RunningSound, Next, Loop, Remove, vars, loopVars

\* Only the control Loop writes the registry and the subscription index, and what
\* sessions and their removers do leaves the running task alone.
LEMMA SessionKeepsTask ==
  ASSUME \/ LocalRequest
         \/ \E s \in Sessions :
              \/ OnAccept(s) \/ HandleRequest(s) \/ PostRequest(s) \/ LookupAnswer(s)
              \/ Break(s) \/ OnSessionClose(s) \/ HeartbeatTimeout(s) \/ Remove(s)
              \/ \E n \in Nodes : HandleRegisterNode(s, n)
              \/ \E k \in use.targets : LookupRead(s, k)
  PROVE  UNCHANGED <<task, stage, changed, registry, byServiceName, bySubscriber>>
  BY DEF LocalRequest, OnAccept, HandleRequest, PostRequest, LookupAnswer, Break,
         OnSessionClose, HeartbeatTimeout, Remove, RemoveDelete, RemovePost,
         HandleRegisterNode, LookupRead, loopVars, indexVars

\* The task that the control Loop works on is one.
LEMMA RunningTask ==
  ASSUME TypeOK, task.op \in {"register", "unregister", "subscribe", "cleanup"}
  PROVE  /\ task \in Task /\ task.node \in Members /\ task.node # NoNode
         /\ task.op # "cleanup" => task.key \in Services
         /\ task.op = "subscribe" => task.name \in Names
         /\ task.op = "cleanup" => task.node \in Nodes
BY DirectoryAssumption DEF TypeOK, NoTask, Task, Members

\* A change that is being pushed is in the registry.
LEMMA ChangeStep == TypeOK /\ ChangeInv /\ [Next]_vars => ChangeInv'
<1> SUFFICES ASSUME TypeOK, ChangeInv, [Next]_vars PROVE ChangeInv'
  OBVIOUS
<1>0. registry \in [Services -> Members \cup {NoNode}]
  BY Zenon DEF TypeOK
<1>1. ASSUME UNCHANGED <<task, stage, changed, registry>> PROVE ChangeInv'
  BY <1>1, Zenon DEF ChangeInv
<1>2. stage' \in {"idle", "write"} => ChangeInv'
  BY Zenon DEF ChangeInv
<1>3. CASE Dequeue
  BY <1>1, <1>2, <1>3 DEF Dequeue
<1>4. CASE WriteRegister
  BY <1>0, <1>2, <1>4, RunningTask DEF WriteRegister, Write, Refuse, ChangeInv
<1>5. CASE WriteUnregister
  BY <1>0, <1>2, <1>5, RunningTask DEF WriteUnregister, Write, Refuse, ChangeInv
<1>6. CASE WriteCleanup
  BY <1>0, <1>6, Zenon DEF WriteCleanup, Write, KeysOfNode, ChangeInv
<1>7. CASE Subscribe \/ NotifyOnline \/ NotifyOffline
  BY <1>2, <1>7, Zenon DEF Subscribe, NotifyOnline, NotifyOffline, Done, Refuse
<1>8. CASE BroadcastRoutes
  BY <1>8, Zenon DEF BroadcastRoutes, ChangeInv
<1> QED
  BY <1>1, <1>3, <1>4, <1>5, <1>6, <1>7, <1>8, SessionKeepsTask, Zenon DEF Next, Loop, vars,
     loopVars

\* The subscription index: a service that is taken out of the registry is taken
\* out of both maps before anything else happens on the Loop.
LEMMA IndexStep == TypeOK /\ ChangeInv /\ IndexConsistent /\ [Next]_vars => IndexConsistent'
<1> SUFFICES ASSUME TypeOK, ChangeInv, IndexConsistent, [Next]_vars PROVE IndexConsistent'
  OBVIOUS
<1>0. /\ registry \in [Services -> Members \cup {NoNode}]
      /\ byServiceName \in [Names -> SUBSET Services]
      /\ bySubscriber \in [Services -> SUBSET Names]
  BY Zenon DEF TypeOK
<1>1. ASSUME UNCHANGED <<stage, changed, registry, byServiceName, bySubscriber>>
      PROVE  IndexConsistent'
  BY <1>1 DEF IndexConsistent
<1>2. ASSUME stage # "broadcast", UNCHANGED <<registry, byServiceName, bySubscriber>>
      PROVE  IndexConsistent'
  BY <1>2 DEF IndexConsistent
<1>3. ASSUME NEW keys, NEW node, stage = "write", Write(keys, node) PROVE IndexConsistent'
  BY <1>0, <1>3, Zenon DEF Write, IndexConsistent, indexVars
<1>4. CASE Dequeue
  BY <1>2, <1>4 DEF Dequeue, LoopFree, indexVars
<1>5. CASE WriteRegister \/ WriteUnregister \/ WriteCleanup
  BY <1>2, <1>3, <1>5, Zenon DEF WriteRegister, WriteUnregister, WriteCleanup, Refuse,
     indexVars
<1>6. CASE NotifyOnline \/ NotifyOffline
  BY <1>2, <1>6, Zenon DEF NotifyOnline, NotifyOffline, indexVars
<1>7. CASE BroadcastRoutes
  BY <1>7, <1>0 DEF BroadcastRoutes, ChangeInv, IndexConsistent, indexVars, Unsubscribed
<1>8. CASE Subscribe
  BY <1>2, <1>8, RunningTask, <1>0 DEF Subscribe, Refuse, indexVars, AddSubscription,
     IndexConsistent
<1> QED
  BY <1>1, <1>4, <1>5, <1>6, <1>7, <1>8, SessionKeepsTask, Zenon DEF Next, Loop, vars,
     loopVars, indexVars

-----------------------------------------------------------------------------
(* Routes *)

\* A subscriber of another Node is reached over the session that holds the slot of
\* its Node.
LEMMA LinkHeld ==
  ASSUME TypeOK, SlotIsReleasable, NEW w \in Services, NEW s \in Sessions, LinkOf(w) = s
  PROVE  registry[w] \in Nodes /\ remoteNodes[registry[w]] = s /\ id[s] = registry[w]
BY DirectoryAssumption, Zenon DEF Links, LinkOf, SlotIsReleasable

\* A session whose Node has not registered has got nothing.
LEMMA FreshStep == TypeOK /\ SlotIsReleasable /\ FreshInv /\ [Next]_vars => FreshInv'
<1> SUFFICES ASSUME TypeOK, SlotIsReleasable, FreshInv, [Next]_vars,
                    NEW s \in Sessions, id'[s] = NoNode
             PROVE  /\ snapshots'[s] = {} /\ looking'[s] = NoLookup
                    /\ \A k \in Services : routes'[s][k] = NoNode
  BY Zenon DEF FreshInv
<1>0. /\ snapshots \in [Links -> SUBSET (Services \X Names)]
      /\ looking \in [Sessions -> [key : Services \cup {NoKey}, node : Members \cup {NoNode},
                                   stale : BOOLEAN]]
      /\ routes \in [Sessions -> [Services -> Members \cup {NoNode}]]
      /\ s \in Links /\ changed \subseteq Services /\ NoKey \notin Services
      /\ NoNode \notin Nodes
  BY DirectoryAssumption, Zenon DEF TypeOK, Links, Members
<1>1. id[s] = NoNode
  BY IdKept
<1>2. /\ snapshots[s] = {} /\ looking[s] = NoLookup
      /\ \A k \in Services : routes[s][k] = NoNode
  BY <1>1, Zenon DEF FreshInv
<1>3. ASSUME NEW t \in Sessions, NEW k \in use.targets, LookupRead(t, k)
      PROVE  snapshots'[s] = snapshots[s] /\ looking'[s] = looking[s] /\ routes'[s] = routes[s]
  BY <1>0, <1>1, <1>3, Zenon DEF LookupRead, Registered, pushVars
<1>4. ASSUME NEW t \in Sessions, LookupAnswer(t)
      PROVE  snapshots'[s] = snapshots[s] /\ looking'[s] = looking[s] /\ routes'[s] = routes[s]
  BY <1>0, <1>2, <1>4, Zenon DEF LookupAnswer, pushVars
<1>5. ASSUME NEW t \in Sessions, RemoveDelete(t)
      PROVE  /\ snapshots'[s] = {} /\ looking'[s] = NoLookup
             /\ \A k \in Services : routes'[s][k] = NoNode
  BY <1>0, <1>2, <1>5, Zenon DEF RemoveDelete, Forget
<1>6. ASSUME BroadcastRoutes
      PROVE  /\ snapshots'[s] = {} /\ looking'[s] = NoLookup
             /\ \A k \in Services : routes'[s][k] = NoNode
  <2>1. looking[s].key \notin changed
    BY <1>0, <1>2 DEF NoLookup
  <2> QED
    BY <1>0, <1>2, <1>6, <2>1, Zenon DEF BroadcastRoutes, Broadcast, pushVars
<1>7. ASSUME Subscribe
      PROVE  snapshots'[s] = snapshots[s] /\ looking'[s] = looking[s] /\ routes'[s] = routes[s]
  BY <1>0, <1>1, <1>7, RunningTask, LinkHeld DEF Subscribe, Refuse, pushVars, routeVars
<1>8. ASSUME \/ LocalRequest
             \/ \E t \in Sessions :
                  \/ OnAccept(t) \/ HandleRequest(t) \/ PostRequest(t) \/ Break(t)
                  \/ OnSessionClose(t) \/ HeartbeatTimeout(t) \/ RemovePost(t)
                  \/ \E n \in Nodes : HandleRegisterNode(t, n)
             \/ Dequeue \/ WriteRegister \/ WriteUnregister \/ WriteCleanup
             \/ NotifyOnline \/ NotifyOffline
      PROVE  UNCHANGED <<snapshots, looking, routes>>
  BY <1>8, Zenon DEF LocalRequest, OnAccept, HandleRequest, PostRequest, Break,
     OnSessionClose, HeartbeatTimeout, RemovePost, HandleRegisterNode, Dequeue,
     WriteRegister, WriteUnregister, WriteCleanup, NotifyOnline, NotifyOffline, Write,
     Refuse, pushVars, routeVars
<1> QED
  BY <1>2, <1>3, <1>4, <1>5, <1>6, <1>7, <1>8, Zenon DEF Next, Loop, Remove, vars, pushVars,
     routeVars

\* Lookups under way and cached routes: a change of the registry marks both before
\* the Loop does anything else, and a session that registers has neither.
LEMMA RouteStep ==
  TypeOK /\ SlotIsReleasable /\ FreshInv /\ LookInv /\ RoutesPushed /\ [Next]_vars
    => LookInv' /\ RoutesPushed'
<1> SUFFICES ASSUME TypeOK, SlotIsReleasable, FreshInv, LookInv, RoutesPushed, [Next]_vars
             PROVE  LookInv' /\ RoutesPushed'
  OBVIOUS
<1>0. /\ looking \in [Sessions -> [key : Services \cup {NoKey}, node : Members \cup {NoNode},
                                   stale : BOOLEAN]]
      /\ routes \in [Sessions -> [Services -> Members \cup {NoNode}]]
      /\ remoteNodes \in [Nodes -> Sessions \cup {NoSession}]
      /\ registry \in [Services -> Members \cup {NoNode}]
      /\ changed \subseteq Services /\ NoKey \notin Services
      /\ NoSession \notin Sessions /\ use.targets \subseteq Services
  BY DirectoryAssumption, Zenon DEF TypeOK, Links
<1>1. ASSUME UNCHANGED <<looking, routes, remoteNodes, registry, stage, changed>>
      PROVE  LookInv' /\ RoutesPushed'
  BY <1>1, Zenon DEF LookInv, RoutesPushed
<1>2. ASSUME stage # "broadcast", UNCHANGED <<looking, routes, remoteNodes, registry>>
      PROVE  LookInv' /\ RoutesPushed'
  BY <1>2, Zenon DEF LookInv, RoutesPushed
<1>3. ASSUME NEW t \in Sessions, NEW n \in Nodes, HandleRegisterNode(t, n)
      PROVE  LookInv' /\ RoutesPushed'
  BY <1>3, <1>0 DEF HandleRegisterNode, MayRegister, loopVars, routeVars, FreshInv, LookInv,
     RoutesPushed
<1>4. ASSUME NEW t \in Sessions, RemoveDelete(t) PROVE LookInv' /\ RoutesPushed'
  <2>1. /\ \A n \in Nodes : remoteNodes'[n] # NoSession => remoteNodes'[n] = remoteNodes[n]
        /\ routes' = [routes EXCEPT ![t] = [k \in Services |-> NoNode]]
        /\ UNCHANGED <<looking, registry, stage, changed>>
    BY <1>0, <1>4, Zenon DEF RemoveDelete, Forget, loopVars
  <2> QED
    BY <1>0, <2>1, Zenon DEF LookInv, RoutesPushed
<1>5. ASSUME NEW t \in Sessions, NEW k \in use.targets, LookupRead(t, k)
      PROVE  LookInv' /\ RoutesPushed'
  BY <1>5, <1>0, Zenon DEF LookupRead, sessionVars, loopVars, LookInv, RoutesPushed
<1>6. ASSUME NEW t \in Sessions, LookupAnswer(t) PROVE LookInv' /\ RoutesPushed'
  <2>1. /\ looking[t] # NoLookup /\ looking' = [looking EXCEPT ![t] = NoLookup]
        /\ routes' = IF looking[t].stale THEN routes
                     ELSE [routes EXCEPT ![t][looking[t].key] = looking[t].node]
        /\ UNCHANGED <<remoteNodes, registry, stage, changed>>
    BY <1>6, Zenon DEF LookupAnswer, sessionVars, loopVars
  <2>2. LookInv'
    BY <1>0, <2>1, Zenon DEF LookInv
  <2>3. RoutesPushed'
    <3> SUFFICES ASSUME NEW n \in Nodes, NEW k \in Services, remoteNodes[n] # NoSession
                 PROVE  \/ routes'[remoteNodes[n]][k] \in {NoNode, registry[k]}
                        \/ stage = "broadcast" /\ k \in changed
      BY <2>1, Zenon DEF RoutesPushed
    <3>1. CASE routes'[remoteNodes[n]][k] = routes[remoteNodes[n]][k]
      BY <3>1, Zenon DEF RoutesPushed
    <3>2. CASE remoteNodes[n] = t /\ ~ looking[t].stale /\ k = looking[t].key
      BY <1>0, <2>1, <3>2, Zenon DEF LookInv
    <3> QED
      BY <1>0, <2>1, <3>1, <3>2, Zenon
  <2> QED
    BY <2>2, <2>3
<1>7. ASSUME NEW keys \in SUBSET Services, NEW node, stage = "write", Write(keys, node)
      PROVE  LookInv' /\ RoutesPushed'
  BY <1>7, <1>0 DEF Write, sessionVars, routeVars, LookInv, RoutesPushed
<1>8. ASSUME WriteRegister \/ WriteUnregister \/ WriteCleanup PROVE LookInv' /\ RoutesPushed'
  BY <1>2, <1>8, <1>7, RunningTask, Zenon DEF Refuse, WriteRegister, WriteUnregister,
     WriteCleanup, sessionVars, routeVars, KeysOfNode
<1>9. ASSUME BroadcastRoutes PROVE LookInv' /\ RoutesPushed'
  <2>1. /\ UNCHANGED <<remoteNodes, registry, changed>> /\ stage = "broadcast"
        /\ \A n \in Nodes : remoteNodes[n] \in {remoteNodes[o] : o \in Nodes}
    BY <1>9, Zenon DEF BroadcastRoutes, sessionVars
  <2>2. \A t \in Sessions : looking'[t].key = looking[t].key
                           /\ looking'[t].node = looking[t].node
                           /\ (looking[t] = NoLookup => looking'[t] = NoLookup)
    <3> SUFFICES ASSUME NEW t \in Sessions
                 PROVE  /\ looking'[t].key = looking[t].key /\ looking'[t].node = looking[t].node
                        /\ looking[t] = NoLookup => looking'[t] = NoLookup
      BY Zenon
    <3>2. looking[t] = NoLookup => looking[t].key \notin changed
      BY <1>0 DEF NoLookup
    <3> QED
      BY <1>0, <1>9, <3>2 DEF BroadcastRoutes, Broadcast
  <2>3. \A n \in Nodes : remoteNodes[n] # NoSession =>
          LET t == remoteNodes[n] IN
          /\ looking[t].key \in changed => looking'[t].stale
          /\ looking[t].key \notin changed => looking'[t] = looking[t]
          /\ \A k \in Services : routes'[t][k] = IF k \in changed THEN NoNode ELSE routes[t][k]
    <3> SUFFICES ASSUME NEW n \in Nodes, remoteNodes[n] # NoSession
                 PROVE  LET t == remoteNodes[n] IN
                        /\ looking[t].key \in changed => looking'[t].stale
                        /\ looking[t].key \notin changed => looking'[t] = looking[t]
                        /\ \A k \in Services :
                             routes'[t][k] = IF k \in changed THEN NoNode ELSE routes[t][k]
      BY Zenon
    <3> QED
      BY <1>0, <1>9, <2>1 DEF BroadcastRoutes, Broadcast
  <2> QED
    BY <2>2, <1>0, <2>1, <2>3 DEF LookInv, RoutesPushed
<1>10. ASSUME Dequeue \/ Subscribe \/ NotifyOnline \/ NotifyOffline
       PROVE  LookInv' /\ RoutesPushed'
  BY <1>2, <1>10, Zenon DEF Dequeue, LoopFree, Subscribe, Refuse, NotifyOnline,
     NotifyOffline, sessionVars, routeVars
<1>11. ASSUME \/ LocalRequest
              \/ \E t \in Sessions :
                   \/ OnAccept(t) \/ HandleRequest(t) \/ PostRequest(t) \/ Break(t)
                   \/ OnSessionClose(t) \/ HeartbeatTimeout(t) \/ RemovePost(t)
       PROVE  UNCHANGED <<looking, routes, remoteNodes, registry, stage, changed>>
  BY <1>11, Zenon DEF LocalRequest, OnAccept, HandleRequest, PostRequest, Break,
     OnSessionClose, HeartbeatTimeout, RemovePost, sessionVars, loopVars, routeVars
<1> QED
  BY <1>1, <1>3, <1>4, <1>5, <1>6, <1>8, <1>9, <1>10, <1>11, Zenon DEF Next, Loop, Remove,
     vars, sessionVars, loopVars, routeVars

-----------------------------------------------------------------------------
(* Registrations *)

\* A cleanup that is due stays due until the control Loop runs it.
LEMMA DueKept ==
  ASSUME TypeOK, DeletedInv, [Next]_vars, NEW n \in Nodes, CleanupDue(n)
  PROVE  CleanupDue(n)' \/ (WriteCleanup /\ task.node = n)
<1>0. /\ removing \in [Sessions -> {"no", "swapped", "deleted", "unnamed", "done"}]
      /\ queue \in Seq(Task) /\ n # NoNode
      /\ asking \in [Sessions -> Task \cup {NoTask}]
      /\ Cleanup(n) \in Task
      /\ Cleanup(n).link = Main /\ Cleanup(n).op = "cleanup" /\ Cleanup(n).node = n
  BY DirectoryAssumption, CleanupIsTask, Zenon DEF TypeOK, Members, Cleanup, Request
<1>1. CASE \E s \in Sessions : id[s] = n /\ removing[s] = "deleted"
  <2>1. PICK s \in Sessions : id[s] = n /\ removing[s] = "deleted"
    BY <1>1
  <2>3. CASE RemovePost(s)
    BY <2>1, <2>3, <1>0 DEF RemovePost, PostsCleanup, Post, CleanupDue, Cleanup, Request
  <2>4. CASE ~ RemovePost(s)
    <3>1. ASSUME NEW t \in Sessions, OnSessionClose(t) \/ HeartbeatTimeout(t)
          PROVE  removing'[s] = removing[s]
      BY <1>0, <2>1, <3>1, Zenon DEF OnSessionClose, HeartbeatTimeout, Swap, DeletedInv
    <3>2. ASSUME NEW t \in Sessions, RemoveDelete(t) PROVE removing'[s] = removing[s]
      BY <1>0, <2>1, <3>2, Zenon DEF RemoveDelete
    <3>3. ASSUME NEW t \in Sessions, RemovePost(t) PROVE removing'[s] = removing[s]
      BY <1>0, <2>4, <3>3, Zenon DEF RemovePost
    <3>4. ASSUME NEW t \in Sessions,
                 \/ OnAccept(t) \/ HandleRequest(t) \/ PostRequest(t) \/ LookupAnswer(t)
                 \/ Break(t) \/ \E m \in Nodes : HandleRegisterNode(t, m)
                 \/ \E k \in use.targets : LookupRead(t, k)
          PROVE  removing' = removing
      BY <3>4, Zenon DEF OnAccept, HandleRequest, PostRequest, LookupAnswer, Break,
         HandleRegisterNode, LookupRead, sessionVars
    <3> QED
      BY <1>0, <2>1, IdKept, <3>1, <3>2, <3>3, <3>4, LoopKeepsSessions, Zenon DEF
         CleanupDue, Next, Remove, vars, sessionVars
  <2> QED
    BY <2>3, <2>4
<1>2. CASE \E i \in 1..Len(queue) : queue[i] = Cleanup(n)
  <2>1. PICK i \in 1..Len(queue) : queue[i] = Cleanup(n)
    BY <1>2
  <2>2. ASSUME NEW j \in 1..Len(queue'), queue'[j] = Cleanup(n) PROVE CleanupDue(n)'
    BY <2>2, Zenon DEF CleanupDue, Cleanup, Request
  <2>3. CASE queue' = queue
    BY <2>1, <2>2, <2>3
  <2>4. ASSUME NEW t \in Task, queue' = Append(queue, t) PROVE CleanupDue(n)'
    BY <1>0, <2>1, <2>4, Appended, <2>2
  <2>5. CASE Dequeue
    <3>1. queue # <<>> /\ queue' = Tail(queue)
      BY <2>5 DEF Dequeue
    <3>2. CASE i = 1
      BY <1>0, <2>1, <3>1, <3>2, Shifted, <2>5 DEF Dequeue, StillCurrent, CleanupDue,
         Cleanup, Request
    <3>3. CASE i # 1
      <4>1. i - 1 \in 1..Len(queue') /\ queue'[i - 1] = queue[i]
        BY <1>0, <2>1, <3>1, <3>3, Shifted
      <4> QED
        BY <2>1, <2>2, <4>1
    <3> QED
      BY <3>2, <3>3
  <2>6. ASSUME NEW s \in Sessions, PostRequest(s) PROVE \E t \in Task : queue' = Append(queue, t)
    BY <1>0, <2>6, Zenon DEF PostRequest, Post
  <2>7. ASSUME LocalRequest PROVE \E t \in Task : queue' = Append(queue, t)
    <3>1. PICK t \in Requests(Main, Main) : queue' = Append(queue, t)
      BY <2>7, Zenon DEF LocalRequest, Post
    <3>2. t \in Task
      BY <3>1, RequestIsTask, Zenon DEF TypeOK, Links, Members
    <3> QED
      BY <3>1, <3>2
  <2>8. ASSUME NEW s \in Sessions, RemovePost(s)
        PROVE  queue' = queue \/ \E t \in Task : queue' = Append(queue, t)
    BY <2>8, CleanupIsTask, Zenon DEF DeletedInv, TypeOK, RemovePost, PostsCleanup, Post
  <2>9. ASSUME \/ \E s \in Sessions :
                    \/ OnAccept(s) \/ HandleRequest(s) \/ LookupAnswer(s) \/ Break(s)
                    \/ OnSessionClose(s) \/ HeartbeatTimeout(s) \/ RemoveDelete(s)
                    \/ \E m \in Nodes : HandleRegisterNode(s, m)
                    \/ \E k \in use.targets : LookupRead(s, k)
               \/ WriteRegister \/ WriteUnregister \/ WriteCleanup \/ Subscribe
               \/ BroadcastRoutes \/ NotifyOnline \/ NotifyOffline
        PROVE  queue' = queue
    BY <2>9, Zenon DEF OnAccept, HandleRequest, LookupAnswer, Break, OnSessionClose,
       HeartbeatTimeout, RemoveDelete, HandleRegisterNode, LookupRead, WriteRegister,
       WriteUnregister, WriteCleanup, Subscribe, BroadcastRoutes, NotifyOnline,
       NotifyOffline, Write, Refuse, loopVars
  <2> QED
    BY <2>3, <2>4, <2>5, <2>6, <2>7, <2>8, <2>9, Zenon DEF Next, Loop, Remove, vars,
       loopVars
<1>3. CASE stage = "write" /\ task = Cleanup(n)
  BY <1>0, <1>3, SessionKeepsTask, Zenon DEF CleanupDue, Cleanup, Request, WriteRegister,
     WriteUnregister, Subscribe, Dequeue, LoopFree, BroadcastRoutes, NotifyOnline,
     NotifyOffline, Next, Loop, vars, loopVars
<1> QED
  BY <1>1, <1>2, <1>3, Zenon DEF CleanupDue

\* A session that loses its Node's slot leaves a cleanup behind, and as long as it
\* holds the slot only the control Loop changes what was granted to it.
LEMMA SlotKept ==
  ASSUME TypeOK, SlotIsReleasable, [Next]_vars,
         NEW n \in Nodes, NEW s \in Sessions, remoteNodes[n] = s
  PROVE  \/ CleanupDue(n)'
         \/ /\ remoteNodes'[n] = s
            /\ granted'[s] = granted[s] \/ WriteRegister \/ WriteUnregister
<1>0. /\ removing \in [Sessions -> {"no", "swapped", "deleted", "unnamed", "done"}]
      /\ id \in [Sessions -> Nodes \cup {NoNode}]
      /\ remoteNodes \in [Nodes -> Sessions \cup {NoSession}]
      /\ granted \in [Sessions -> SUBSET Services]
      /\ NoSession \notin Sessions /\ NoNode \notin Nodes
  BY DirectoryAssumption, Zenon DEF TypeOK, Links, Members
<1>2. ASSUME NEW t \in Sessions, RemoveDelete(t)
      PROVE  CleanupDue(n)' \/ (remoteNodes'[n] = s /\ granted'[s] = granted[s])
  BY <1>0, <1>2 DEF RemoveDelete, CleanupDue, Forget, SlotIsReleasable
<1>3. ASSUME NEW t \in Sessions, NEW m \in Nodes, HandleRegisterNode(t, m)
      PROVE  remoteNodes'[n] = s /\ granted' = granted
  BY <1>0, <1>3, Zenon DEF HandleRegisterNode, MayRegister
<1>4. ASSUME \/ LocalRequest
             \/ \E t \in Sessions :
                  \/ OnAccept(t) \/ HandleRequest(t) \/ PostRequest(t) \/ LookupAnswer(t)
                  \/ Break(t) \/ OnSessionClose(t) \/ HeartbeatTimeout(t) \/ RemovePost(t)
                  \/ \E k \in use.targets : LookupRead(t, k)
             \/ Dequeue \/ WriteCleanup \/ Subscribe
             \/ BroadcastRoutes \/ NotifyOnline \/ NotifyOffline
      PROVE  remoteNodes' = remoteNodes /\ granted' = granted
  BY <1>4, Zenon DEF LocalRequest, OnAccept, HandleRequest, PostRequest, LookupAnswer,
     Break, OnSessionClose, HeartbeatTimeout, RemovePost, LookupRead, Dequeue, WriteCleanup,
     Write, Subscribe, Refuse, BroadcastRoutes, NotifyOnline, NotifyOffline, sessionVars
<1>5. ASSUME WriteRegister \/ WriteUnregister PROVE remoteNodes' = remoteNodes
  BY <1>5, Zenon DEF WriteRegister, WriteUnregister, Write, Refuse, sessionVars
<1> QED
  BY <1>2, <1>3, <1>4, <1>5, Zenon DEF Next, Loop, Remove, vars, sessionVars

\* The task that is about to register a service: its session was checked when the
\* Loop took the task, and cannot have ended since without a cleanup behind it.
LEMMA GrantStep ==
  TypeOK /\ DeletedInv /\ TaskInv /\ SlotIsReleasable /\ GrantInv /\ [Next]_vars => GrantInv'
<1> SUFFICES ASSUME TypeOK, DeletedInv, TaskInv, SlotIsReleasable, GrantInv, [Next]_vars
             PROVE  GrantInv'
  OBVIOUS
<1>0. /\ queue \in Seq(Task) /\ task \in Task \cup {NoTask}
      /\ remoteNodes \in [Nodes -> Sessions \cup {NoSession}]
      /\ Main \notin Nodes /\ Main \notin Sessions /\ NoSession \notin Links
  BY DirectoryAssumption, Zenon DEF TypeOK
<1>1. ASSUME UNCHANGED <<task, stage>> PROVE GrantInv'
  <2> SUFFICES ASSUME NEW n \in Nodes, stage = "write", task.op = "register", task.node = n
               PROVE  remoteNodes'[n] = task.link \/ CleanupDue(n)'
    BY <1>1, Zenon DEF GrantInv, CleanupDue
  <2>2. CASE remoteNodes[n] = task.link
    BY <1>0, RunningTask, <2>2, SlotKept DEF Task
  <2>3. CASE CleanupDue(n)
    BY <2>3, DueKept DEF WriteCleanup
  <2> QED
    BY <2>2, <2>3 DEF GrantInv
<1>2. CASE Dequeue
  <2> SUFFICES ASSUME stage' = "write", task'.op = "register", task'.node \in Nodes
               PROVE  remoteNodes'[task'.node] = task'.link
    BY Zenon DEF GrantInv
  <2> QED
    BY <1>2, <1>0, Shifted DEF Sound, StillCurrent, Registered, Task, Links, TaskInv,
       Dequeue, LoopFree, sessionVars
<1>3. CASE WriteRegister \/ WriteUnregister \/ WriteCleanup \/ Subscribe
           \/ BroadcastRoutes \/ NotifyOnline \/ NotifyOffline
  BY <1>3, Zenon DEF WriteRegister, WriteUnregister, WriteCleanup, Subscribe,
     BroadcastRoutes, NotifyOnline, NotifyOffline, Write, Refuse, Done, GrantInv
<1> QED
  BY <1>1, <1>2, <1>3, SessionKeepsTask, Zenon DEF Next, Loop, vars, loopVars

\* No registration is left behind: what the Loop registers was asked by the holder
\* of the slot, and what removes the holder makes a cleanup due.
LEMMA OrphanStep ==
  TypeOK /\ DeletedInv /\ TaskInv /\ SlotIsReleasable /\ GrantInv /\ NoOrphanRegistration
    /\ [Next]_vars => NoOrphanRegistration'
<1> SUFFICES ASSUME TypeOK, DeletedInv, TaskInv, SlotIsReleasable, GrantInv,
                    NoOrphanRegistration, [Next]_vars,
                    NEW k \in Services, NEW n \in Nodes, registry'[k] = n
             PROVE  \/ \E s \in Sessions : remoteNodes'[n] = s /\ k \in granted'[s]
                    \/ CleanupDue(n)'
  BY Zenon DEF NoOrphanRegistration
<1>0. /\ registry \in [Services -> Members \cup {NoNode}]
      /\ remoteNodes \in [Nodes -> Sessions \cup {NoSession}]
      /\ granted \in [Sessions -> SUBSET Services]
      /\ NoSession \notin Links /\ NoNode \notin Nodes /\ Main \notin Nodes
  BY DirectoryAssumption, Zenon DEF TypeOK, Members
<1>1. ASSUME registry[k] = n, ~ (WriteCleanup /\ task.node = n),
             \A s \in Sessions : WriteRegister \/ WriteUnregister =>
               (k \in granted[s] => k \in granted'[s])
      PROVE  \/ \E s \in Sessions : remoteNodes'[n] = s /\ k \in granted'[s]
             \/ CleanupDue(n)'
  <2>1. CASE CleanupDue(n)
    BY <1>1, <2>1, DueKept, Zenon
  <2>2. CASE \E s \in Sessions : remoteNodes[n] = s /\ k \in granted[s]
    <3>1. PICK s \in Sessions : remoteNodes[n] = s /\ k \in granted[s]
      BY <2>2
    <3> QED
      BY <1>1, <3>1, SlotKept, Zenon
  <2> QED
    BY <1>1, <2>1, <2>2, Zenon DEF NoOrphanRegistration
<1>2. ASSUME registry' = registry, ~ WriteRegister, ~ WriteUnregister, ~ WriteCleanup
      PROVE  \/ \E s \in Sessions : remoteNodes'[n] = s /\ k \in granted'[s]
             \/ CleanupDue(n)'
  BY <1>1, <1>2, Zenon
<1>3. ASSUME WriteRegister \/ WriteUnregister, Refuse
      PROVE  registry[k] = n /\ granted' = granted
  BY <1>3 DEF Refuse
<1>4. CASE WriteRegister /\ ~ Refuse
  <2>1. /\ task.op = "register" /\ stage = "write" /\ Write({task.key}, task.node)
        /\ granted' = [s \in Sessions |->
             IF s = task.link THEN granted[s] \cup {task.key} ELSE granted[s]]
    BY <1>4, Zenon DEF WriteRegister
  <2>3. CASE k = task.key
    <3>3. CASE CleanupDue(n)
      BY <2>1, <3>3, DueKept, Zenon DEF WriteCleanup
    <3>4. CASE remoteNodes[n] = task.link
      <4> QED
        BY <1>0, RunningTask, <2>3, <2>1, <3>4, Zenon DEF Write, sessionVars, Task
    <3> QED
      BY <2>1, <2>3, <3>3, <3>4, Zenon DEF GrantInv, Write
  <2>4. CASE k # task.key
    BY <2>1, <2>4, <1>1, Zenon DEF Write, WriteCleanup
  <2> QED
    BY <2>3, <2>4
<1>5. CASE WriteUnregister /\ ~ Refuse
  BY <1>5, <1>0, <1>1 DEF WriteUnregister, Write, WriteCleanup
<1>6. CASE WriteCleanup
  BY <1>0, <1>6, <1>1, Zenon DEF WriteCleanup, Write, KeysOfNode, WriteRegister,
     WriteUnregister
<1>7. ASSUME Dequeue \/ Subscribe \/ BroadcastRoutes \/ NotifyOnline \/ NotifyOffline
      PROVE  registry' = registry
  BY <1>7, Zenon DEF Dequeue, Subscribe, BroadcastRoutes, NotifyOnline, NotifyOffline,
     Refuse
<1>8. CASE (WriteRegister \/ WriteUnregister) /\ Refuse
  BY <1>8, <1>1, <1>3, Zenon DEF WriteRegister, WriteUnregister, WriteCleanup
<1> QED
  BY <1>2, <1>4, <1>5, <1>6, <1>7, <1>8, SessionKeepsTask, Zenon DEF Next, Loop, vars

-----------------------------------------------------------------------------
(* Subscribers *)

\* What a subscriber was told: the pushed events follow every change of the
\* registry, and a link that comes to reach a subscriber has carried no snapshot.
LEMMA ToldStep ==
  TypeOK /\ TypeOK' /\ SlotIsReleasable /\ FreshInv /\ ChangeInv /\ IndexConsistent
    /\ ToldTruth /\ [Next]_vars => ToldTruth'
<1> DEFINE Known(w, m, l, k) ==
      \/ k \in told[l][w] <=> registry[k] # NoNode
      \/ stage \in {"broadcast", "notify"} /\ k \in changed
<1> SUFFICES ASSUME TypeOK, TypeOK', SlotIsReleasable, FreshInv, ChangeInv, IndexConsistent,
                    ToldTruth, [Next]_vars,
                    NEW w \in Services, NEW m \in Names, NEW k \in Services, NEW l,
                    LinkOf(w)' = l, l # NoSession, w \in byServiceName'[m],
                    <<w, m>> \in snapshots'[l], NameOf[k] = m
             PROVE  Known(w, m, l, k)'
  BY Zenon DEF ToldTruth, Named
<1>0. /\ registry \in [Services -> Members \cup {NoNode}]
      /\ remoteNodes \in [Nodes -> Sessions \cup {NoSession}]
      /\ byServiceName \in [Names -> SUBSET Services]
      /\ told \in [Links -> [Services -> SUBSET Services]]
      /\ snapshots \in [Links -> SUBSET (Services \X Names)]
      /\ id \in [Sessions -> Nodes \cup {NoNode}]
      /\ NoNode \notin Nodes /\ Main \notin Nodes /\ NoNode # Main
      /\ NameOf \in [Services -> Names]
  BY DirectoryAssumption, Zenon DEF TypeOK, Members
<1>1. l \in Links
  BY DEF TypeOK, LinkOf, Links
<1>2. ASSUME LinkOf(w) = l, w \in byServiceName[m], <<w, m>> \in snapshots[l]
      PROVE  Known(w, m, l, k)
  BY <1>2, Zenon DEF ToldTruth, Named
<1> HIDE DEF Known
<1>3. ASSUME UNCHANGED <<remoteNodes, registry, byServiceName, told, snapshots, stage, changed>>
      PROVE  Known(w, m, l, k)'
  BY <1>3, <1>2, Zenon DEF LinkOf, Known
<1>4. ASSUME stage \in {"idle", "write"},
             UNCHANGED <<remoteNodes, registry, byServiceName, told, snapshots>>
      PROVE  Known(w, m, l, k)'
  BY <1>4, <1>2, Zenon DEF LinkOf, Known
<1>5. ASSUME NEW t \in Sessions, NEW n \in Nodes, HandleRegisterNode(t, n)
      PROVE  Known(w, m, l, k)'
  BY <1>5, <1>0, <1>2, Zenon DEF HandleRegisterNode, MayRegister, loopVars, indexVars,
     pushVars, FreshInv, LinkOf, Known
<1>6. ASSUME NEW t \in Sessions, RemoveDelete(t) PROVE Known(w, m, l, k)'
  BY <1>0, <1>6, <1>1, <1>2, Zenon DEF RemoveDelete, Forget, loopVars, indexVars, Links,
     LinkOf, Known
<1>7. ASSUME NEW keys \in SUBSET Services, NEW node, stage = "write", Write(keys, node),
             node = NoNode \/ \A x \in keys : registry[x] = NoNode
      PROVE  Known(w, m, l, k)'
  BY <1>7, <1>0, <1>2 DEF Write, sessionVars, indexVars, pushVars, IndexConsistent, LinkOf,
     Known
<1>8. CASE WriteRegister \/ WriteUnregister \/ WriteCleanup
  BY <1>4, <1>8, <1>7, RunningTask, Zenon DEF Refuse, WriteRegister, WriteUnregister,
     WriteCleanup, sessionVars, indexVars, pushVars, KeysOfNode
<1>9. CASE BroadcastRoutes
  BY <1>9, <1>2 DEF BroadcastRoutes, sessionVars, pushVars, Unsubscribed, indexVars, LinkOf,
     Known
<1>10. CASE NotifyOnline
  BY <1>10, <1>1, <1>2, Zenon DEF NotifyOnline, sessionVars, indexVars, ChangeInv, LinkOf,
     Push, Known
<1>11. CASE NotifyOffline
  BY <1>11, <1>1, <1>2, Zenon DEF NotifyOffline, sessionVars, indexVars, ChangeInv, LinkOf,
     Known
<1>12. CASE Subscribe
  <2>1. CASE registry[task.key] # task.node
    BY <1>4, <1>12, <2>1, Zenon DEF Subscribe, Refuse, sessionVars, indexVars, pushVars
  <2>2. CASE registry[task.key] = task.node
    <3>1. /\ UNCHANGED <<remoteNodes, registry>> /\ stage = "write"
          /\ AddSubscription(task.key, task.name)
          /\ Push({task.key}, Snapshot(task.name), Named(task.name))
          /\ snapshots' = [j \in Links |->
               IF j = LinkOf(task.key) THEN snapshots[j] \cup {<<task.key, task.name>>}
               ELSE snapshots[j]]
      BY <1>12, <2>2, Zenon DEF Subscribe, sessionVars
    <3>2. task.key \in Services /\ task.name \in Names
      BY <1>12, RunningTask, Zenon DEF Subscribe
    <3>3. LinkOf(w) = l
      BY <3>1, Zenon DEF LinkOf
    <3>4. told'[l][w] = IF w = task.key
                        THEN (told[l][w] \ Named(task.name)) \cup Snapshot(task.name)
                        ELSE told[l][w]
      BY <1>1, <3>1, <3>3, Zenon DEF Push
    <3>5. CASE w = task.key /\ m = task.name
      BY <3>4, <3>5, <3>1, Zenon DEF Named, Snapshot, Known
    <3>6. CASE ~ (w = task.key /\ m = task.name)
      <4>1. w \in byServiceName[m]
        BY <1>0, <3>1, <3>2, <3>6 DEF AddSubscription, indexVars
      <4>2. <<w, m>> \in snapshots[l]
        BY <1>1, <3>1, <3>6
      <4>3. k \in told'[l][w] <=> k \in told[l][w]
        BY <3>4, <3>6 DEF Named, Snapshot
      <4> QED
        BY <1>2, <3>1, <3>3, <4>1, <4>2, <4>3 DEF Known
    <3> QED
      BY <3>5, <3>6
  <2> QED
    BY <2>1, <2>2, Zenon
<1>13. CASE Dequeue
  BY <1>4, <1>13, Zenon DEF Dequeue, LoopFree, sessionVars, indexVars, pushVars
<1>14. ASSUME \/ LocalRequest
              \/ \E t \in Sessions :
                   \/ OnAccept(t) \/ HandleRequest(t) \/ PostRequest(t) \/ LookupAnswer(t)
                   \/ Break(t) \/ OnSessionClose(t) \/ HeartbeatTimeout(t) \/ RemovePost(t)
                   \/ \E x \in use.targets : LookupRead(t, x)
       PROVE  UNCHANGED <<remoteNodes, registry, byServiceName, told, snapshots, stage, changed>>
  BY <1>14, Zenon DEF LocalRequest, OnAccept, HandleRequest, PostRequest, LookupAnswer,
     Break, OnSessionClose, HeartbeatTimeout, RemovePost, LookupRead, sessionVars, loopVars,
     indexVars, pushVars
<1> QED
  BY <1>3, <1>5, <1>6, <1>8, <1>9, <1>10, <1>11, <1>12, <1>13, <1>14, Zenon DEF Next, Loop,
     Remove, vars, sessionVars, loopVars, indexVars, pushVars

-----------------------------------------------------------------------------
(* The theorems *)

\* The initial states satisfy the inductive invariant.
LEMMA InitInv == Init => Inv
<1> SUFFICES ASSUME Init PROVE Inv
  OBVIOUS
<1>1. DeletedInv /\ TaskInv /\ ChangeInv /\ FreshInv /\ LookInv /\ GrantInv /\ ToldTruth
  <2>1. \A s \in Sessions : s \in Links
    BY DEF Links
  <2> QED
    BY <2>1 DEF Init, DeletedInv, TaskInv, ChangeInv, FreshInv, LookInv, GrantInv, NoLookup,
       ToldTruth
<1>2. SlotIsReleasable /\ NoOrphanRegistration /\ IndexConsistent /\ RoutesPushed
  BY DirectoryAssumption DEF Init, SlotIsReleasable, NoOrphanRegistration, IndexConsistent,
     RoutesPushed, Members
<1> QED
  BY InitType, <1>1, <1>2, Zenon DEF Inv

\* The inductive invariant holds in every reachable state.
THEOREM Invariance == Spec => []Inv
<1>1. Inv /\ [Next]_vars => Inv'
  <2> SUFFICES ASSUME Inv, [Next]_vars PROVE Inv'
    OBVIOUS
  <2> QED
    BY TypeStep, SlotStep, TaskStep, ChangeStep, IndexStep, FreshStep, RouteStep, GrantStep,
       OrphanStep, ToldStep, Zenon DEF Inv
<1> QED
  BY <1>1, InitInv, PTL DEF Spec

\* Every variable keeps its type (the maps of node.go:157-159 and
\* service_subscription.go:26-29).
THEOREM TypeCorrect == Spec => []TypeOK
  BY Invariance, PTL DEF Inv

\* No session keeps a Node's slot after its removal: the check of remote.active
\* under remoteNodesMu in handleRegisterNode suffices (node.go:1394-1411).
THEOREM SlotsAreReleasable == Spec => []SlotIsReleasable
  BY Invariance, PTL DEF Inv

\* No registration is left without a session or a cleanup behind it, however the
\* check of the session, the posted task and removeRemoteNode interleave
\* (node.go:1154-1165, 1440-1459).
THEOREM NoOrphans == Spec => []NoOrphanRegistration
  BY Invariance, PTL DEF Inv

\* The subscription index is one relation, of registered services
\* (service_subscription.go:39-69, 261-266).
THEOREM IndexIsConsistent == Spec => []IndexConsistent
  BY Invariance, PTL DEF Inv

\* A lookup that races a change of the registry leaves no stale route on a
\* connected Node (node.go:1242-1253, 1549-1571).
THEOREM RoutesArePushed == Spec => []RoutesPushed
  BY Invariance, PTL DEF Inv

\* Snapshot and events add up to the registry for every subscriber
\* (service_subscription.go:248-273, node.go:1216-1228).
THEOREM SubscribersAreTold == Spec => []ToldTruth
  BY Invariance, PTL DEF Inv
=============================================================================
