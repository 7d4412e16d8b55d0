------------------------- MODULE MainLinkRunProofs --------------------------
(***************************************************************************)
(* Proofs about the link of a Node to the main Node, second part. As long  *)
(* as no connection is lost and no caller connects on its own, Start       *)
(* registers and subscribes all services over the one client it published. *)
(* Once Start is done, a lost link is always being recovered, and the      *)
(* client that the recovery loop publishes carries all registrations and   *)
(* subscriptions.                                                          *)
(***************************************************************************)
EXTENDS MainLinkProofs

\* Start has gone on without the link being lost, and nobody else has connected.
Undisturbed == state \in {"Initial", "Starting"} /\ ~stopped /\ ~early

\* While the start is undisturbed there is nothing to recover from.
StartQuiet ==
  Undisturbed =>
    /\ ~trigger /\ pc["recover"] \in {"down", "idle"}
    /\ pc["user"] \in {"idle", "cached", "guard", "request"}
    /\ \A c \in Clients : mark[c] = "no" /\ net[c] # "lost"
    /\ state = "Initial" => /\ pc["user"] = "idle"
                            /\ \A c \in Clients : net[c] = "closed" /\ ~connected[c]

\* Start has not got its client yet; Start has got its client and uses it.
Unlinked ==
  /\ pc["life"] \in Connecting \cup {"down"} /\ job["life"] = "connect" /\ idx["life"] = 1
  /\ ~ Usable(published)
Linked ==
  /\ pc["life"] \in {"cached", "request", "launch", "flag", "names", "next"}
  /\ pc["life"] \in {"cached", "request"} => job["life"] # "connect"
  /\ pc["life"] = "launch" => job["life"] = "connect"
  /\ Usable(published) /\ net[published] = "open"

\* While the start is undisturbed its first client is the only one, for all.
StartLinked ==
  Undisturbed =>
    /\ pc["life"] = "halt" \/ Unlinked \/ Linked
    /\ \A p \in Procs : pc[p] = "request" => Usable(published) /\ cur[p] = published

\* Start is done with the services below idx, and with registering that one.
StartRegistered ==
  Undisturbed /\ pc["life"] # "halt" =>
    registered = IF pc["life"] \in {"names", "next"} \/ job["life"] = "subscribe"
                 THEN 1..idx["life"] ELSE 1..(idx["life"] - 1)

\* What is registered locally is registered over the link.
StartGranted ==
  Undisturbed /\ Linked =>
    /\ registered \subseteq regs[published]
    /\ pc["life"] = "flag" => idx["life"] \in regs[published]

\* The application waits for the main Node's answer about service k.
Asking(k) == pc["user"] # "idle" /\ job["user"] = "subscribe" /\ idx["user"] = k

\* Over client c, service k is subscribed as it wants to be.
Settled(c, k) == k \in desired => k \in subs[c] \/ k \in refused \/ Asking(k)

\* The services that were started are subscribed over the link.
StartSettled ==
  Undisturbed /\ Linked =>
    \A k \in Services :
      k < idx["life"] \/ (k = idx["life"] /\ pc["life"] = "next") => Settled(published, k)

StartInv == StartQuiet /\ StartLinked /\ StartRegistered /\ StartGranted /\ StartSettled

-----------------------------------------------------------------------------
(* An undisturbed start *)

\* A start that is undisturbed was undisturbed before: nothing undoes a
\* disturbance.
LEMMA UndisturbedBefore ==
  ASSUME [Next]_vars, Undisturbed'
  PROVE  Undisturbed
<1> USE DEF Undisturbed
<1>s. ASSUME UNCHANGED <<state, stopped, early>> PROVE Undisturbed
  BY <1>s, Zenon
<1>u. ASSUME \/ UNCHANGED vars \/ Launch \/ Flag \/ Names \/ Join \/ Undo \/ Unflag
             \/ CloseNetwork \/ CloseClient \/ Await \/ Attempt \/ Check \/ Restore
             \/ Backoff \/ Lookup
             \/ \E k \in Services : Subscribe(k)
             \/ \E p \in Procs :
                  \/ Cached(p) \/ Lock(p) \/ Dial(p) \/ Store(p) \/ Hello(p)
                  \/ Publish(p) \/ Request(p)
             \/ \E c \in Clients :
                  \/ ConnectionBroken(c) \/ RemoveClient(c) \/ StartMainRecovery(c)
                  \/ CloseMarked(c)
      PROVE  UNCHANGED <<state, stopped, early>>
  BY <1>u, Zenon DEF vars, recoveryVars, faultVars, Launch, Flag, Names, Join, Undo, Unflag,
     CloseNetwork, CloseClient, Await, Attempt, Check, Restore, Backoff, Lookup, Subscribe,
     Cached, Lock, Dial, Store, Hello, Publish, Request, ConnectionBroken, RemoveClient,
     StartMainRecovery, CloseMarked
<1>1. ASSUME StartNode PROVE Undisturbed
  BY <1>1 DEF StartNode, recoveryVars, faultVars
<1>2. ASSUME StopNode PROVE Undisturbed
  BY <1>2 DEF StopNode, recoveryVars, faultVars
<1>3. ASSUME StartNext PROVE Undisturbed
  BY <1>3 DEF StartNext, recoveryVars, faultVars
<1>4. ASSUME Halt PROVE Undisturbed
  BY <1>4 DEF Halt
<1>5. ASSUME Finish PROVE Undisturbed
  BY <1>5 DEF Finish, recoveryVars, faultVars
<1>6. ASSUME NEW p \in Procs, Guard(p) PROVE Undisturbed
  BY <1>6, Zenon DEF Guard, recoveryVars
<1>7. ASSUME NEW c \in Clients, Break(c) PROVE Undisturbed
  BY <1>7, Zenon DEF Break, Lost, recoveryVars
<1>8. ASSUME NEW c \in Clients, HeartbeatFails(c) PROVE Undisturbed
  BY <1>8, Zenon DEF HeartbeatFails, Lost, recoveryVars
<1> QED
  BY <1>s, <1>u, <1>1, <1>2, <1>3, <1>4, <1>5, <1>6, <1>7, <1>8, Zenon DEF Next, Life,
     Recovery, Connect, MarkDisconnected

\* The steps that can follow while the start stays undisturbed; the recovery
\* loop and the callbacks take none of them.
LEMMA StartSteps ==
  ASSUME ClientTypes, ProcTypes, NodeTypes, LinkInv, StartQuiet, [Next]_vars, Undisturbed'
  PROVE  \/ UNCHANGED vars \/ StartNode \/ Launch \/ Flag \/ Names
         \/ StartNext /\ idx["life"] < N
         \/ Lookup \/ \E k \in Services : Subscribe(k)
         \/ Cached("life") \/ Guard("life") \/ Lock("life") \/ Dial("life") \/ Store("life")
         \/ Hello("life") \/ Publish("life") \/ Request("life")
         \/ Cached("user") \/ Request("user")
<1>1. Undisturbed
  BY UndisturbedBefore
<1>2. /\ pc["recover"] \in {"down", "idle"} /\ ~trigger /\ ~stopped
      /\ pc["user"] \in {"idle", "cached", "guard", "request"}
      /\ \A c \in Clients : mark[c] = "no" /\ net[c] # "lost"
      /\ state = "Initial" => /\ pc["user"] = "idle"
                              /\ \A c \in Clients : net[c] = "closed" /\ ~connected[c]
  BY <1>1, Zenon DEF StartQuiet, Undisturbed
<1>3. pc["life"] \notin {"join", "undo", "unflag", "network", "close", "finish"}
  BY <1>2, Zenon DEF LinkInv, Phased, Undoing
<1>4. ~ (StopNode \/ Halt)
  BY Zenon DEF StopNode, Halt, Undisturbed
<1>5. ~ (Join \/ Undo \/ Unflag \/ CloseNetwork \/ CloseClient \/ Finish)
  BY <1>3, Zenon DEF Join, Undo, Unflag, CloseNetwork, CloseClient, Finish
<1>6. StartNext => idx["life"] < N
  BY Zenon DEF StartNext, Undisturbed
<1>7. ~ Recovery
  BY <1>2, Zenon DEF Recovery, Await, Attempt, Check, Restore, Backoff
<1>8. ~ (Connect("recover") \/ Request("recover"))
  BY <1>2, Zenon DEF Connect, Cached, Guard, Lock, Dial, Store, Hello, Publish, Request
<1>9. ~ (Lock("user") \/ Dial("user") \/ Store("user") \/ Hello("user") \/ Publish("user"))
  BY <1>2, Zenon DEF Lock, Dial, Store, Hello, Publish
<1>10. ~ Guard("user")
  BY <1>1, <1>2, Zenon DEF Guard, Undisturbed
<1>11. ASSUME NEW c \in Clients
       PROVE  ~ (Break(c) \/ ConnectionBroken(c) \/ HeartbeatFails(c) \/ MarkDisconnected(c))
  <2>1. ~ (ConnectionBroken(c) \/ MarkDisconnected(c))
    BY <1>2, Zenon DEF ConnectionBroken, MarkDisconnected, RemoveClient, StartMainRecovery,
       CloseMarked
  <2>2. ~ Break(c)
    BY <1>1, <1>2, Zenon DEF Break, Lost, Undisturbed
  <2>3. published = c /\ connected[c] => net[c] # "closed"
    <3>1. NoClient # c /\ Nobody \notin Procs
      BY LinkAssumption DEF Procs, Nobody
    <3> QED
      BY <3>1, Zenon DEF LinkInv, Accounted, Exclusive, Held
  <2>4. net[c] \in {"open", "lost", "closed"}
    BY DEF ClientTypes
  <2>5. ~ HeartbeatFails(c)
    BY <1>1, <1>2, <2>3, <2>4, Zenon DEF HeartbeatFails, Lost, Undisturbed
  <2> QED
    BY <2>1, <2>2, <2>5
<1> QED
  BY <1>4, <1>5, <1>6, <1>7, <1>8, <1>9, <1>10, <1>11, Zenon DEF Next, Life, Connect, Procs

\* While the start is undisturbed nothing triggers the recovery, no connection
\* is lost and no caller connects.
LEMMA StartQuietStep ==
  ASSUME setup \in Setups, ProcTypes, ClientTypes, NodeTypes, LinkInv, StartQuiet,
         [Next]_vars
  PROVE  StartQuiet'
<1> SUFFICES ASSUME Undisturbed' PROVE StartQuiet'
  BY Zenon DEF StartQuiet
<1>z. Undisturbed
  BY UndisturbedBefore, Zenon
<1>a. pc \in [Procs -> Steps] /\ net \in [Clients -> {"open", "lost", "closed"}]
  BY Zenon DEF ProcTypes, ClientTypes
<1>b. state = "Initial" => pc["life"] = "down"
  BY LifeAt, Zenon DEF LinkInv
<1>c. pc["user"] # "idle" => job["user"] \in {"lookup", "subscribe"}
  BY Zenon DEF LinkInv, Placed
<1> USE <1>z, <1>a, <1>b, TheProcs DEF StartQuiet
<1>s. ASSUME UNCHANGED <<state, pc, connected, net, mark, trigger>> PROVE StartQuiet'
  BY <1>s, Zenon DEF Undisturbed
<1>u. ASSUME UNCHANGED vars PROVE UNCHANGED <<state, pc, connected, net, mark, trigger>>
  BY <1>u, Zenon DEF vars, procVars, clientVars, recoveryVars
<1>1. ASSUME StartNode PROVE StartQuiet'
  BY <1>1 DEF StartNode, clientVars, recoveryVars
<1>2. ASSUME Launch PROVE StartQuiet'
  BY <1>2, Zenon DEF Launch, Work, Goto, Abort, AfterError, clientVars, recoveryVars
<1>3. ASSUME Flag PROVE StartQuiet'
  BY <1>3, Zenon DEF Flag, Goto, clientVars, recoveryVars
<1>4. ASSUME Names PROVE StartQuiet'
  BY <1>4 DEF Names, Work, Goto, clientVars, recoveryVars
<1>5. ASSUME StartNext PROVE StartQuiet'
  BY <1>5, Zenon DEF StartNext, Work, Goto, clientVars, recoveryVars
<1>6. ASSUME Lookup PROVE StartQuiet'
  BY <1>6, Zenon DEF Lookup, Operational, Work, Goto, clientVars, recoveryVars
<1>7. ASSUME NEW k \in Services, Subscribe(k) PROVE StartQuiet'
  BY <1>7 DEF Subscribe, Operational, Work, Goto, procVars, clientVars, recoveryVars
<1>8. ASSUME Cached("life") PROVE StartQuiet'
  BY <1>8 DEF Cached, Got, Goto, clientVars, recoveryVars
<1>9. ASSUME Guard("life") PROVE StartQuiet'
  BY <1>9 DEF Guard, Abort, Goto, AfterError, clientVars, recoveryVars
<1>10. ASSUME Lock("life") PROVE StartQuiet'
  BY <1>10 DEF Lock, Goto, Got, clientVars, CloseTransport, recoveryVars
<1>11. ASSUME Dial("life") PROVE StartQuiet'
  BY <1>11 DEF Dial, Goto, Abort, AfterError, recoveryVars
<1>12. ASSUME Store("life") PROVE StartQuiet'
  BY <1>12, Zenon DEF Store, Goto, recoveryVars
<1>13. ASSUME Hello("life") PROVE StartQuiet'
  BY <1>13 DEF Hello, Goto, clientVars, Drop, CloseTransport, Abort, AfterError,
     recoveryVars
<1>14. ASSUME Publish("life") PROVE StartQuiet'
  BY <1>14 DEF Publish, Goto, Got, clientVars, Drop, CloseTransport, Abort, AfterError,
     recoveryVars
<1>15. ASSUME Request("life") PROVE StartQuiet'
  BY <1>15, Zenon DEF Request, Goto, AfterRequest, Abort, AfterError, clientVars,
     recoveryVars
<1>16. ASSUME Cached("user") PROVE StartQuiet'
  BY <1>16, <1>c DEF Cached, Got, Goto, clientVars, recoveryVars
<1>17. ASSUME Request("user") PROVE StartQuiet'
  BY <1>17, Zenon DEF Request, Goto, AfterRequest, Abort, AfterError, clientVars,
     recoveryVars
<1> QED
  BY <1>s, <1>u, <1>1, <1>2, <1>3, <1>4, <1>5, <1>6, <1>7, <1>8, <1>9, <1>10, <1>11, <1>12,
     <1>13, <1>14, <1>15, <1>16, <1>17, StartSteps, Zenon

\* While the start is undisturbed the client that Start published stays the
\* only one that anybody uses.
LEMMA StartLinkedStep ==
  ASSUME setup \in Setups, ProcTypes, ClientTypes, NodeTypes, LinkInv, StartQuiet,
         StartLinked, [Next]_vars
  PROVE  StartLinked'
<1> SUFFICES ASSUME Undisturbed' PROVE StartLinked'
  BY Zenon DEF StartLinked
<1>z. Undisturbed
  BY UndisturbedBefore, Zenon
<1>a. /\ pc \in [Procs -> Steps] /\ cur \in [Procs -> Clients \cup {NoClient}]
      /\ job \in [Procs -> Jobs] /\ idx \in [Procs -> 0..N]
      /\ connected \in [Clients -> BOOLEAN]
      /\ net \in [Clients -> {"open", "lost", "closed"}]
      /\ published \in Clients \cup {NoClient} /\ NoClient \notin Clients
  BY LinkAssumption, Zenon DEF ProcTypes, ClientTypes, NodeTypes
<1>b. state = "Initial" => pc["life"] = "down"
  BY LifeAt, Zenon DEF LinkInv
<1>c. /\ pc["user"] # "idle" => job["user"] \in {"lookup", "subscribe"}
      /\ job["life"] # "lookup" /\ (pc["life"] = "request" => job["life"] # "connect")
      /\ pc["life"] \in Connecting \cup {"request", "launch"} => job["life"] # "unregister"
  BY <1>z, Zenon DEF LinkInv, Placed, Phased, Undisturbed
<1>d. /\ pc["recover"] \in {"down", "idle"}
      /\ pc["user"] \in {"idle", "cached", "guard", "request"}
  BY <1>z, Zenon DEF StartQuiet
<1>e. pc["life"] \in Locked => published = NoClient
  BY TheProcs DEF LinkInv, Exclusive, Procs, Nobody
<1>f. pc["life"] = "publish" => /\ cur["life"] \in Clients /\ published = NoClient
                                /\ connected[cur["life"]] => net[cur["life"]] = "open"
  <2>1. ASSUME pc["life"] = "publish" PROVE owner = "life" /\ cur["life"] \in Clients
    BY <2>1, TheProcs, Zenon DEF LinkInv, Exclusive, Separate, Private, Locked
  <2>2. ASSUME pc["life"] = "publish", connected[cur["life"]]
        PROVE  net[cur["life"]] # "closed"
    BY <2>1, <2>2, Zenon DEF LinkInv, Accounted
  <2> QED
    BY <2>1, <2>2, <1>a, <1>e, <1>z, Zenon DEF StartQuiet, Locked
<1>g. Publish("life") =>
        pc["life"] = "publish" /\ published = NoClient /\ cur["life"] \in Clients
  BY <1>f, Zenon DEF Publish
<1> USE <1>z, <1>a, TheProcs DEF StartLinked, Unlinked, Linked, Connecting, Usable
<1>s. ASSUME UNCHANGED <<state, pc, job, idx, cur, published, connected, net>>
      PROVE  StartLinked'
  BY <1>s, Zenon DEF Undisturbed
<1>u. ASSUME UNCHANGED vars
      PROVE  UNCHANGED <<state, pc, job, idx, cur, published, connected, net>>
  BY <1>u, Zenon DEF vars, procVars, clientVars
<1>1. ASSUME StartNode PROVE StartLinked'
  BY <1>1, <1>b, <1>c, <1>d DEF StartNode, clientVars
<1>2. ASSUME Launch PROVE StartLinked'
  <2>1. CASE Work("life", "cached", "register", idx["life"])
    BY <1>2, <2>1, <1>c, <1>d, Zenon DEF Launch, Work, Goto, clientVars
  <2>2. CASE Abort("life")
    BY <1>2, <2>2, <1>c, <1>d, Zenon DEF Launch, Abort, Goto, AfterError, Release,
       clientVars
  <2> QED
    BY <1>2, <2>1, <2>2, Zenon DEF Launch
<1>3. ASSUME Flag PROVE StartLinked'
  BY <1>3, <1>c, <1>d, Zenon DEF Flag, Goto, clientVars
<1>4. ASSUME Names PROVE StartLinked'
  BY <1>4, <1>c, <1>d DEF Names, Work, Goto, clientVars
<1>5. ASSUME StartNext PROVE StartLinked'
  <2>1. /\ Work("life", "launch", "connect", idx["life"] + 1)
        /\ UNCHANGED <<state, cur, published, connected, net>> /\ pc["life"] = "next"
    BY <1>5, Zenon DEF StartNext, Undisturbed, Work, clientVars
  <2> QED
    BY <2>1, Zenon DEF Work, Goto
<1>6. ASSUME Lookup PROVE StartLinked'
  BY <1>6, <1>c, <1>d, Zenon DEF Lookup, Work, Goto, clientVars
<1>7. ASSUME NEW k \in Services, Subscribe(k) PROVE StartLinked'
  BY <1>7, <1>c, <1>d DEF Subscribe, Work, Goto, procVars, clientVars
<1>8. ASSUME Cached("life") PROVE StartLinked'
  BY <1>8, <1>c, <1>d DEF Cached, Got, Goto, clientVars
<1>9. ASSUME Guard("life") PROVE StartLinked'
  BY <1>9, <1>c, <1>d DEF Guard, Abort, Goto, AfterError, Release, clientVars
<1>10. ASSUME Lock("life") PROVE StartLinked'
  BY <1>10, <1>c, <1>d DEF Lock, Goto, Got, clientVars, CloseTransport
<1>11. ASSUME Dial("life") PROVE StartLinked'
  BY <1>11, <1>c, <1>d DEF Dial, Goto, Abort, AfterError, Release
<1>12. ASSUME Store("life") PROVE StartLinked'
  BY <1>12, <1>c, <1>d, <1>e, Zenon DEF Store, Goto, Locked
<1>13. ASSUME Hello("life") PROVE StartLinked'
  BY <1>13, <1>c, <1>d DEF Hello, Goto, clientVars, Drop, CloseTransport, Abort, AfterError,
     Release
<1>14. ASSUME Publish("life") PROVE StartLinked'
  <2>1. CASE Drop("life")
    BY <1>14, <2>1, <1>c, <1>d, Zenon DEF Publish, Drop, Abort, Goto, AfterError, Release,
       CloseTransport
  <2>2. CASE /\ published' = cur["life"] /\ connected[cur["life"]]
             /\ Got("life", cur["life"])
             /\ UNCHANGED clientVars
    <3>1. pc["life"] = "publish" /\ published = NoClient /\ cur["life"] \in Clients
      BY <1>14, <1>g, Zenon
    <3>2. job["life"] = "connect" /\ \A p \in Procs : pc[p] # "request"
      BY <3>1, Zenon
    <3>3. /\ pc' = [pc EXCEPT !["life"] = "launch"] /\ job'["life"] = "connect"
          /\ published' # NoClient /\ connected'[published'] /\ net'[published'] = "open"
      BY <1>14, <2>2, <3>1, <3>2, <1>f, Zenon DEF Got, Goto, clientVars
    <3> QED
      BY <3>2, <3>3, Zenon
  <2> QED
    BY <1>14, <2>1, <2>2, Zenon DEF Publish, MayPublish
<1>15. ASSUME Request("life") PROVE StartLinked'
  <2>1. /\ UNCHANGED <<state, idx, job, published, connected, net>>
        /\ pc["life"] = "request"
        /\ cur' = [cur EXCEPT !["life"] = NoClient]
    BY <1>15, Zenon DEF Request, Release, Abort, clientVars
  <2>2. PICK l \in {"flag", "next", "halt"} : pc' = [pc EXCEPT !["life"] = l]
    BY <1>15, <1>c, Zenon DEF Request, Goto, AfterRequest, Abort, AfterError, Jobs,
       Connecting
  <2> QED
    BY <2>1, <2>2, <1>c, <1>d, Zenon
<1>16. ASSUME Cached("user") PROVE StartLinked'
  BY <1>16, <1>c, <1>d DEF Cached, Got, Goto, clientVars
<1>17. ASSUME Request("user") PROVE StartLinked'
  BY <1>17, <1>c, <1>d DEF Request, Goto, AfterRequest, Release, Abort, AfterError,
     clientVars
<1> QED
  BY <1>s, <1>u, <1>1, <1>2, <1>3, <1>4, <1>5, <1>6, <1>7, <1>8, <1>9, <1>10, <1>11, <1>12,
     <1>13, <1>14, <1>15, <1>16, <1>17, StartSteps, Zenon

\* The loop of Start over the services registers them one after the other.
LEMMA StartRegisteredStep ==
  ASSUME setup \in Setups, ProcTypes, ClientTypes, NodeTypes, LinkInv, StartQuiet,
         StartLinked, StartRegistered, [Next]_vars
  PROVE  StartRegistered'
<1> SUFFICES ASSUME Undisturbed' PROVE StartRegistered'
  BY Zenon DEF StartRegistered
<1>z. Undisturbed
  BY UndisturbedBefore, Zenon
<1>a. /\ pc \in [Procs -> Steps] /\ job \in [Procs -> Jobs] /\ idx \in [Procs -> 0..N]
      /\ N \in Nat
  BY ServiceCount DEF ProcTypes
<1>b. state = "Initial" => pc["life"] = "down" /\ job["life"] = "connect"
  BY LifeAt, Zenon DEF LinkInv, Phased
<1>c. pc["life"] \in {"lock", "publish", "cached", "request", "launch"} =>
        job["life"] # "unregister" /\ job["life"] # "lookup"
  BY <1>z, Zenon DEF LinkInv, Placed, Phased, Undisturbed, Connecting
<1>d. idx["life"] # 0 \/ pc["life"] = "done"
  BY <1>z, Zenon DEF LinkInv, Placed, Phased, Undisturbed, Undoing
<1>e. pc["life"] = "launch" => job["life"] # "subscribe"
  BY <1>z, Zenon DEF StartLinked, Linked, Unlinked, Connecting
<1> USE <1>z, <1>a, TheProcs DEF StartRegistered
<1>s. ASSUME UNCHANGED <<state, pc, job, idx, registered>> PROVE StartRegistered'
  BY <1>s, Zenon DEF Undisturbed
<1>u. ASSUME UNCHANGED vars PROVE UNCHANGED <<state, pc, job, idx, registered>>
  BY <1>u, Zenon DEF vars, procVars, serviceVars
<1>1. ASSUME StartNode PROVE StartRegistered'
  BY <1>1, <1>b, <1>c, <1>d, Zenon DEF StartNode, serviceVars
<1>2. ASSUME Launch PROVE StartRegistered'
  <2>1. CASE Work("life", "cached", "register", idx["life"])
    <3>1. registered' = registered /\ pc["life"] = "launch" /\ job["life"] # "subscribe"
      BY <1>2, <1>e, Zenon DEF Launch, Abort
    <3> QED
      BY <3>1, <2>1, Zenon DEF Work, Goto
  <2>2. CASE Abort("life")
    BY <1>2, <2>2, <1>c, <1>d, Zenon DEF Launch, Abort, Goto, AfterError
  <2> QED
    BY <1>2, <2>1, <2>2, Zenon DEF Launch
<1>3. ASSUME Flag PROVE StartRegistered'
  BY <1>3, <1>c, <1>d DEF Flag, Goto
<1>4. ASSUME Names PROVE StartRegistered'
  BY <1>4, <1>c, <1>d, Zenon DEF Names, Work, Goto, serviceVars
<1>5. ASSUME StartNext PROVE StartRegistered'
  <2>1. /\ Work("life", "launch", "connect", idx["life"] + 1)
        /\ UNCHANGED <<state, registered>> /\ pc["life"] = "next"
    BY <1>5, Zenon DEF StartNext, Undisturbed, serviceVars
  <2>2. registered = 1..idx["life"]
    BY <2>1, Zenon
  <2> QED
    BY <2>1, <2>2 DEF Work, Goto
<1>6. ASSUME Lookup PROVE StartRegistered'
  BY <1>6, <1>c, <1>d, Zenon DEF Lookup, Work, Goto, serviceVars
<1>7. ASSUME NEW k \in Services, Subscribe(k) PROVE StartRegistered'
  BY <1>7, <1>c, <1>d DEF Subscribe, Work, Goto, procVars
<1>8. ASSUME Cached("life") PROVE StartRegistered'
  BY <1>8, <1>c, <1>d, Zenon DEF Cached, Got, Goto, serviceVars
<1>9. ASSUME Guard("life") PROVE StartRegistered'
  BY <1>9, <1>c, <1>d, Zenon DEF Guard, Abort, Goto, AfterError, Release, serviceVars
<1>10. ASSUME Lock("life") PROVE StartRegistered'
  BY <1>10, <1>c, <1>d, Zenon DEF Lock, Goto, Got, serviceVars
<1>11. ASSUME Dial("life") PROVE StartRegistered'
  BY <1>11, <1>c, <1>d, Zenon DEF Dial, Goto, serviceVars, Abort, AfterError, Release
<1>12. ASSUME Store("life") PROVE StartRegistered'
  BY <1>12, <1>c, <1>d, Zenon DEF Store, Goto, serviceVars
<1>13. ASSUME Hello("life") PROVE StartRegistered'
  BY <1>13, <1>c, <1>d, Zenon DEF Hello, Goto, serviceVars, Drop, Abort, AfterError, Release
<1>14. ASSUME Publish("life") PROVE StartRegistered'
  BY <1>14, <1>c, <1>d, Zenon DEF Publish, Goto, Release, Got, serviceVars, Drop, Abort,
     AfterError
<1>15. ASSUME Request("life") PROVE StartRegistered'
  BY <1>15, <1>c, Zenon DEF Request, Goto, AfterRequest, Release, Abort, AfterError, Jobs
<1>16. ASSUME Cached("user") PROVE StartRegistered'
  BY <1>16, <1>c, <1>d, Zenon DEF Cached, Got, Goto, serviceVars
<1>17. ASSUME Request("user") PROVE StartRegistered'
  BY <1>17, <1>c, <1>d DEF Request, Goto, AfterRequest, Release, Abort, AfterError
<1> QED
  BY <1>s, <1>u, <1>1, <1>2, <1>3, <1>4, <1>5, <1>6, <1>7, <1>8, <1>9, <1>10, <1>11, <1>12,
     <1>13, <1>14, <1>15, <1>16, <1>17, StartSteps, Zenon

\* The link of an undisturbed start is the one it had a step earlier, or was
\* published by this step.
LEMMA LinkedBefore ==
  ASSUME setup \in Setups, ProcTypes, ClientTypes, NodeTypes, LinkInv, StartQuiet,
         StartLinked, StartRegistered, [Next]_vars, Undisturbed', Linked'
  PROVE  \/ Linked /\ published' = published
         \/ /\ pc["life"] = "publish" /\ pc'["life"] = "launch" /\ registered = {}
            /\ idx["life"] = 1 /\ UNCHANGED <<registered, idx>>
<1>z. Undisturbed
  BY UndisturbedBefore, Zenon
<1> DEFINE First == /\ pc["life"] = "publish" /\ pc'["life"] = "launch" /\ registered = {}
                    /\ idx["life"] = 1 /\ UNCHANGED <<registered, idx>>
<1> DEFINE G == (Linked /\ published' = published) \/ First
<1> SUFFICES G
  BY Zenon
<1>a. pc \in [Procs -> Steps] /\ job \in [Procs -> Jobs]
  BY Zenon DEF ProcTypes
<1>b. state = "Initial" => pc["life"] = "down" /\ job["life"] = "connect"
  BY LifeAt, Zenon DEF LinkInv, Phased
<1>c. pc["life"] = "halt" \/ Unlinked \/ Linked
  BY <1>z, Zenon DEF StartLinked
<1>d. /\ pc'["life"] \in {"cached", "request", "launch", "flag", "names", "next"}
      /\ pc'["life"] \in {"cached", "request"} => job'["life"] # "connect"
  BY Zenon DEF Linked
<1>e. Unlinked => registered = {} /\ idx["life"] = 1 /\ job["life"] = "connect"
  BY <1>z DEF StartRegistered, Unlinked, Connecting
<1> USE <1>a, <1>c, <1>d, TheProcs
<1>s. ASSUME UNCHANGED <<pc, job, published>> PROVE G
  BY <1>s, Zenon DEF Unlinked, Linked, Connecting
<1>u. ASSUME UNCHANGED vars PROVE UNCHANGED <<pc, job, published>>
  BY <1>u, Zenon DEF vars, procVars
<1>1. ASSUME StartNode PROVE G
  BY <1>1, <1>b, Zenon DEF StartNode, Linked
<1>2. ASSUME Launch PROVE G
  BY <1>2, Zenon DEF Unlinked, Linked, Connecting, Launch, Work, Goto, Abort, AfterError,
     Release
<1>3. ASSUME Flag PROVE G
  BY <1>3, Zenon DEF Unlinked, Linked, Connecting, Flag, Goto
<1>4. ASSUME Names PROVE G
  BY <1>4, Zenon DEF Unlinked, Linked, Connecting, Names, Work, Goto
<1>5. ASSUME StartNext PROVE G
  BY <1>5, Zenon DEF Unlinked, Linked, Connecting, StartNext, Work, Goto
<1>6. ASSUME Lookup PROVE G
  BY <1>6, Zenon DEF Unlinked, Linked, Connecting, Lookup, Work, Goto
<1>7. ASSUME NEW k \in Services, Subscribe(k) PROVE G
  BY <1>7, Zenon DEF Unlinked, Linked, Connecting, Subscribe, Work, Goto, procVars
<1>8. ASSUME Cached("life") PROVE G
  BY <1>8, Zenon DEF Unlinked, Linked, Connecting, Cached, Got, Goto
<1>9. ASSUME Guard("life") PROVE G
  BY <1>9, Zenon DEF Unlinked, Linked, Connecting, Guard, Abort, Goto, AfterError, Release
<1>10. ASSUME Lock("life") PROVE G
  BY <1>10, Zenon DEF Unlinked, Linked, Connecting, Lock, Goto, Got
<1>11. ASSUME Dial("life") PROVE G
  BY <1>11, Zenon DEF Unlinked, Linked, Connecting, Dial, Goto, Abort, AfterError, Release
<1>12. ASSUME Store("life") PROVE G
  BY <1>12, Zenon DEF Unlinked, Linked, Connecting, Store, Goto
<1>13. ASSUME Hello("life") PROVE G
  BY <1>13, Zenon DEF Unlinked, Linked, Connecting, Hello, Goto, Drop, Abort, AfterError,
     Release
<1>14. ASSUME Publish("life") PROVE G
  <2>1. pc["life"] = "publish"
    BY <1>14, Zenon DEF Publish
  <2>2. Unlinked
    BY <2>1, Zenon DEF Linked
  <2>3. CASE Drop("life")
    BY <2>2, <2>3, <1>e, Zenon DEF Drop, Abort, Goto, AfterError
  <2>4. CASE Got("life", cur["life"]) /\ UNCHANGED serviceVars
    BY <2>1, <2>2, <2>4, <1>e, Zenon DEF Got, Goto, serviceVars
  <2> QED
    BY <1>14, <2>3, <2>4, Zenon DEF Publish
<1>15. ASSUME Request("life") PROVE G
  BY <1>15, Zenon DEF Unlinked, Linked, Connecting, Request, Goto, AfterRequest, Release,
     Abort, AfterError
<1>16. ASSUME Cached("user") PROVE G
  BY <1>16, Zenon DEF Unlinked, Linked, Connecting, Cached, Got, Goto
<1>17. ASSUME Request("user") PROVE G
  BY <1>17, Zenon DEF Unlinked, Linked, Connecting, Request, Goto, AfterRequest, Release,
     Abort, AfterError
<1> QED
  BY <1>s, <1>u, <1>1, <1>2, <1>3, <1>4, <1>5, <1>6, <1>7, <1>8, <1>9, <1>10, <1>11, <1>12,
     <1>13, <1>14, <1>15, <1>16, <1>17, StartSteps, Zenon

\* While the start is undisturbed every registered service is registered over
\* the link.
LEMMA StartGrantedStep ==
  ASSUME setup \in Setups, ProcTypes, ClientTypes, NodeTypes, LinkInv, StartQuiet,
         ServiceTypes, StartLinked, StartRegistered, StartGranted, [Next]_vars
  PROVE  StartGranted'
<1> SUFFICES ASSUME Undisturbed', Linked' PROVE StartGranted'
  BY Zenon DEF StartGranted
<1>z. Undisturbed
  BY UndisturbedBefore, Zenon
<1>a. /\ pc \in [Procs -> Steps] /\ idx \in [Procs -> 0..N]
      /\ published \in Clients \cup {NoClient}
  BY Zenon DEF ProcTypes, NodeTypes
<1>b. ASSUME registered = {}, UNCHANGED registered,
             pc'["life"] = "launch"
      PROVE  StartGranted'
  BY <1>b DEF StartGranted
<1> SUFFICES ASSUME Linked, published' = published PROVE StartGranted'
  BY <1>b, LinkedBefore, Zenon
<1>c. /\ published \in Clients
      /\ registered \subseteq regs[published]
      /\ pc["life"] = "flag" => idx["life"] \in regs[published]
  BY <1>z, <1>a, Zenon DEF StartGranted, Linked, Usable
<1>d. /\ pc["life"] \in {"cached", "request", "launch", "flag", "names", "next"}
      /\ \A p \in Procs : pc[p] = "request" => cur[p] = published
      /\ regs \in [Clients -> SUBSET Services]
  BY <1>z, Zenon DEF StartLinked, Linked, ServiceTypes
<1>e. /\ pc["user"] = "request" => job["user"] \in {"lookup", "subscribe"}
      /\ pc["life"] = "request" => job["life"] # "unregister"
  BY <1>z, Zenon DEF LinkInv, Placed, Phased, Undisturbed
<1> USE <1>c, <1>a, TheProcs DEF StartGranted
<1>s. ASSUME UNCHANGED <<pc, idx, registered, regs>> PROVE StartGranted'
  BY <1>s, Zenon
<1>u. ASSUME UNCHANGED vars PROVE UNCHANGED <<pc, idx, registered, regs>>
  BY <1>u, Zenon DEF vars, procVars, serviceVars, mainVars
<1>1. ASSUME StartNode PROVE StartGranted'
  BY <1>1, Zenon DEF StartNode, serviceVars, mainVars
<1>2. ASSUME Launch PROVE StartGranted'
  BY <1>2, Zenon DEF Launch, Work, Goto, Abort, AfterError, Release, mainVars
<1>3. ASSUME Flag PROVE StartGranted'
  BY <1>3, Zenon DEF Flag, Goto, mainVars
<1>4. ASSUME Names PROVE StartGranted'
  BY <1>4, Zenon DEF Names, Work, Goto, serviceVars, mainVars
<1>5. ASSUME StartNext PROVE StartGranted'
  BY <1>5, Zenon DEF StartNext, Work, Goto, serviceVars, mainVars
<1>6. ASSUME Lookup PROVE StartGranted'
  BY <1>6, Zenon DEF Lookup, Work, Goto, serviceVars, mainVars
<1>7. ASSUME NEW k \in Services, Subscribe(k) PROVE StartGranted'
  BY <1>7, Zenon DEF Subscribe, Work, Goto, procVars, mainVars
<1>8. ASSUME Cached("life") PROVE StartGranted'
  BY <1>8, Zenon DEF Cached, Got, Goto, serviceVars, mainVars
<1>9. ASSUME Guard("life") PROVE StartGranted'
  BY <1>9, Zenon DEF Guard, Abort, Goto, AfterError, Release, serviceVars, mainVars
<1>10. ASSUME Lock("life") PROVE StartGranted'
  BY <1>10, Zenon DEF Lock, Goto, Got, serviceVars, mainVars
<1>11. ASSUME Dial("life") PROVE StartGranted'
  BY <1>11, <1>d, Zenon DEF Dial
<1>12. ASSUME Store("life") PROVE StartGranted'
  BY <1>12, Zenon DEF Store, Goto, serviceVars, mainVars
<1>13. ASSUME Hello("life") PROVE StartGranted'
  BY <1>13, Zenon DEF Hello, Goto, serviceVars, Drop, Abort, AfterError, Release, mainVars
<1>14. ASSUME Publish("life") PROVE StartGranted'
  BY <1>14, Zenon DEF Publish, Goto, Release, Got, serviceVars, Drop, Abort, AfterError,
     mainVars
<1>15. ASSUME Request("life") PROVE StartGranted'
  <2>1. CASE Abort("life") /\ UNCHANGED mainVars
    BY <2>1, <1>e, <1>15, Zenon DEF Request, Abort, Goto, AfterError, Release, mainVars
  <2>2. CASE /\ Grant(job["life"], published, idx["life"])
             /\ Goto("life", AfterRequest("life")) /\ Release("life") /\ UNCHANGED registered
    BY <2>2, <1>d, <1>e, <1>15, Zenon DEF Request, Grant, Goto, AfterRequest, Release
  <2> QED
    BY <1>15, <2>1, <2>2, <1>d, Zenon DEF Request
<1>16. ASSUME Cached("user") PROVE StartGranted'
  BY <1>16, Zenon DEF Cached, Got, Goto, serviceVars, mainVars
<1>17. ASSUME Request("user") PROVE StartGranted'
  <2>1. regs' = regs /\ registered' = registered
    <3>1. CASE UNCHANGED mainVars
      BY <1>17, <3>1, Zenon DEF Request, Abort, mainVars
    <3>2. CASE Grant(job["user"], cur["user"], idx["user"])
      BY <1>17, <3>2, <1>d, <1>e, Zenon DEF Request, Grant, Abort
    <3> QED
      BY <1>17, <3>1, <3>2, Zenon DEF Request
  <2>2. pc'["life"] = pc["life"] /\ idx'["life"] = idx["life"]
    BY <1>17, Zenon DEF Request, Abort, Goto, Release
  <2> QED
    BY <2>1, <2>2, Zenon
<1> QED
  BY <1>s, <1>u, <1>1, <1>2, <1>3, <1>4, <1>5, <1>6, <1>7, <1>8, <1>9, <1>10, <1>11, <1>12,
     <1>13, <1>14, <1>15, <1>16, <1>17, StartSteps, Zenon

\* While the start is undisturbed every service that Start is past is
\* subscribed over the link as it asked to be.
LEMMA StartSettledStep ==
  ASSUME setup \in Setups, ProcTypes, ClientTypes, NodeTypes, LinkInv, StartQuiet,
         ServiceTypes, StartLinked, StartRegistered, StartSettled, [Next]_vars
  PROVE  StartSettled'
<1> SUFFICES ASSUME Undisturbed', Linked' PROVE StartSettled'
  BY Zenon DEF StartSettled
<1>z. Undisturbed
  BY UndisturbedBefore, Zenon
<1>y. Services' = Services
  BY CountKept, Zenon
<1>a. /\ pc \in [Procs -> Steps] /\ job \in [Procs -> Jobs] /\ idx \in [Procs -> 0..N]
      /\ N \in Nat /\ published \in Clients \cup {NoClient}
      /\ subs \in [Clients -> SUBSET Services]
  BY ServiceCount, Zenon DEF ProcTypes, NodeTypes, ServiceTypes
<1>b. ASSUME idx["life"] = 1, UNCHANGED idx, pc'["life"] = "launch" PROVE StartSettled'
  BY <1>b, <1>y DEF StartSettled, Services
<1> SUFFICES ASSUME Linked, published' = published, NEW m \in Services,
                    m < idx'["life"] \/ (m = idx'["life"] /\ pc'["life"] = "next")
             PROVE  Settled(published, m)'
  BY <1>b, <1>y, LinkedBefore, Zenon DEF StartSettled
<1>c. /\ published \in Clients
      /\ m < idx["life"] \/ (m = idx["life"] /\ pc["life"] = "next") =>
           Settled(published, m)
  BY <1>z, <1>a, Zenon DEF StartSettled, Linked, Usable
<1>d. /\ pc["life"] \in {"cached", "request", "launch", "flag", "names", "next"}
      /\ \A p \in Procs : pc[p] = "request" => cur[p] = published
  BY <1>z, Zenon DEF StartLinked, Linked
<1>e. /\ pc["user"] = "request" => job["user"] \in {"lookup", "subscribe"}
      /\ pc["life"] = "request" => job["life"] \notin {"unregister", "lookup", "connect"}
  BY <1>z, Zenon DEF LinkInv, Placed, Phased, Undisturbed
<1>f. m < idx["life"] \/ (m = idx["life"] /\ pc["life"] = "next") => m \in registered
  <2>1. /\ idx["life"] \in 0..N
        /\ registered = 1..idx["life"] \/ registered = 1..(idx["life"] - 1)
    BY <1>z, <1>a, <1>d, TheProcs, Zenon DEF StartRegistered
  <2>2. pc["life"] = "next" => registered = 1..idx["life"]
    BY <1>z, Zenon DEF StartRegistered
  <2> QED
    BY <1>a, <2>1, <2>2 DEF Services
<1>g. pc'["life"] = pc["life"] /\ idx'["life"] = idx["life"] =>
        m < idx["life"] \/ (m = idx["life"] /\ pc["life"] = "next")
  BY Zenon
<1> USE <1>c, <1>a, TheProcs DEF Settled, Asking
<1>s. ASSUME UNCHANGED <<pc, job, idx, cur, desired, refused, subs>>
      PROVE  Settled(published, m)'
  BY <1>s, Zenon
<1>u. ASSUME UNCHANGED vars PROVE UNCHANGED <<pc, job, idx, cur, desired, refused, subs>>
  BY <1>u, Zenon DEF vars, procVars, serviceVars, mainVars
<1>1. ASSUME StartNode PROVE Settled(published, m)'
  BY <1>1, <1>d, <1>e DEF StartNode, serviceVars, mainVars
<1>2. ASSUME Launch PROVE Settled(published, m)'
  BY <1>2, <1>d, <1>e DEF Launch, Work, Goto, Abort, AfterError, Release, mainVars
<1>3. ASSUME Flag PROVE Settled(published, m)'
  BY <1>3, <1>d, <1>e, Zenon DEF Flag, Goto, mainVars
<1>4. ASSUME Names PROVE Settled(published, m)'
  BY <1>4, <1>d, <1>e DEF Names, Work, Goto, serviceVars, mainVars
<1>5. ASSUME StartNext PROVE Settled(published, m)'
  <2>1. /\ Work("life", "launch", "connect", idx["life"] + 1)
        /\ UNCHANGED <<desired, refused, subs>> /\ pc["life"] = "next"
    BY <1>5, Zenon DEF StartNext, Undisturbed, serviceVars, mainVars
  <2>2. m < idx["life"] \/ m = idx["life"]
    BY <2>1 DEF Work, Goto, Services
  <2> QED
    BY <2>1, <2>2, Zenon DEF Work, Goto
<1>6. ASSUME Lookup PROVE Settled(published, m)'
  BY <1>6, <1>d, <1>e, Zenon DEF Lookup, Work, Goto, serviceVars, mainVars
<1>7. ASSUME NEW k \in Services, Subscribe(k) PROVE Settled(published, m)'
  <2>1. m \in registered
    BY <1>f, <1>g, <1>7, Zenon DEF Subscribe, Work, Goto, procVars
  <2>2. CASE k \in registered
    BY <1>7, <1>g, <2>1, <2>2 DEF Subscribe, Work, Goto, mainVars
  <2>3. CASE k \notin registered
    BY <1>7, <1>g, <2>1, <2>3, Zenon DEF Subscribe, procVars, mainVars
  <2> QED
    BY <2>2, <2>3, Zenon
<1>8. ASSUME Cached("life") PROVE Settled(published, m)'
  BY <1>8, <1>d, <1>e, Zenon DEF Cached, Got, Goto, serviceVars, mainVars
<1>9. ASSUME Guard("life") PROVE Settled(published, m)'
  BY <1>9, <1>d, <1>e, Zenon DEF Guard, Abort, Goto, AfterError, Release, serviceVars,
     mainVars
<1>10. ASSUME Lock("life") PROVE Settled(published, m)'
  BY <1>10, <1>d, <1>e, Zenon DEF Lock, Goto, Got, serviceVars, mainVars
<1>11. ASSUME Dial("life") PROVE Settled(published, m)'
  BY <1>11, <1>d, Zenon DEF Dial
<1>12. ASSUME Store("life") PROVE Settled(published, m)'
  BY <1>12, <1>d, <1>e, Zenon DEF Store, Goto, serviceVars, mainVars
<1>13. ASSUME Hello("life") PROVE Settled(published, m)'
  BY <1>13, <1>d, <1>e, Zenon DEF Hello, Goto, serviceVars, Drop, Abort, AfterError,
     Release, mainVars
<1>14. ASSUME Publish("life") PROVE Settled(published, m)'
  BY <1>14, <1>d, <1>e, Zenon DEF Publish, Goto, Release, Got, serviceVars, Drop, Abort,
     AfterError, mainVars
<1>15. ASSUME Request("life") PROVE Settled(published, m)'
  BY <1>15, <1>d, <1>e DEF Request, Grant, Goto, AfterRequest, Release, Abort, AfterError,
     mainVars
<1>16. ASSUME Cached("user") PROVE Settled(published, m)'
  BY <1>16, <1>d, <1>e, Zenon DEF Cached, Got, Goto, serviceVars, mainVars
<1>17. ASSUME Request("user") PROVE Settled(published, m)'
  BY <1>17, <1>d, <1>e DEF Request, Grant, Goto, AfterRequest, Release, Abort, AfterError,
     mainVars
<1> QED
  BY <1>s, <1>u, <1>1, <1>2, <1>3, <1>4, <1>5, <1>6, <1>7, <1>8, <1>9, <1>10, <1>11, <1>12,
     <1>13, <1>14, <1>15, <1>16, <1>17, StartSteps, Zenon

\* A Node that was created has nothing to recover from and nothing registered.
LEMMA InitStart == Init => StartInv
<1> SUFFICES ASSUME Init PROVE StartInv
  OBVIOUS
<1>b. /\ pc["life"] = "down" /\ pc["recover"] = "down" /\ pc["user"] = "idle"
      /\ \A p \in Procs : job[p] = "connect" /\ idx[p] = 1 /\ cur[p] = NoClient
      /\ \A p \in Procs : pc[p] \in {"down", "idle"}
  BY TheProcs, Zenon DEF Init
<1>c. \A c \in Clients : ~ connected[c] /\ net[c] = "closed" /\ mark[c] = "no"
  BY Zenon DEF Init
<1>d. /\ state = "Initial" /\ ~ stopped /\ ~ early /\ ~ trigger /\ owner = Nobody
      /\ published = NoClient /\ registered = {} /\ desired = {}
  BY Zenon DEF Init
<1>1. StartQuiet
  BY <1>b, <1>c, <1>d, Zenon DEF StartQuiet
<1>2. ~ Linked
  <2>1. pc["life"] \notin {"cached", "request", "launch", "flag", "names", "next"}
    BY <1>b
  <2> QED
    BY <2>1, Zenon DEF Linked
<1>3. StartLinked
  BY <1>b, <1>d, TheProcs DEF StartLinked, Unlinked, Usable
<1>4. StartRegistered
  BY <1>b, <1>d, TheProcs DEF StartRegistered
<1> QED
  BY <1>1, <1>2, <1>3, <1>4, Zenon DEF StartInv, StartGranted, StartSettled

\* Every step keeps the invariant of the start.
LEMMA NextStart ==
  ASSUME TypeOK, LinkInv, StartInv, [Next]_vars
  PROVE  StartInv'
<1>a. setup \in Setups /\ ProcTypes /\ ClientTypes /\ ServiceTypes /\ NodeTypes
  BY Types, Zenon
<1>b. StartQuiet /\ StartLinked /\ StartRegistered /\ StartGranted /\ StartSettled
  BY Zenon DEF StartInv
<1>1. StartQuiet' /\ StartLinked'
  BY <1>a, <1>b, StartQuietStep, StartLinkedStep, Zenon
<1>2. StartRegistered'
  BY <1>a, <1>b, StartRegisteredStep, Zenon
<1>3. StartGranted' /\ StartSettled'
  BY <1>a, <1>b, StartGrantedStep, StartSettledStep, Zenon
<1> QED
  BY <1>1, <1>2, <1>3, Zenon DEF StartInv

-----------------------------------------------------------------------------
(* The theorem *)

\* The invariant of Start: as long as it is undisturbed, the services it is past
\* are registered and subscribed over the one client it published.
THEOREM StartInvariance == Spec => []StartInv
<1>1. TypeOK /\ LinkInv /\ StartInv /\ [Next]_vars => StartInv'
  BY NextStart
<1> QED
  BY <1>1, InitStart, LinkInvariance, PTL DEF Spec


\* A Node whose start was undisturbed runs.
Steady == state = "Running" /\ ~early

\* In a steady Node only the recovery loop connects, and all services are registered.
RunQuiet ==
  Steady => pc["user"] \in {"idle", "cached", "guard", "request"} /\ registered = Services

\* A steady Node has a link or is recovering.
RunArmed == Steady => Usable(published) \/ Recovering

\* The recovery loop has registered the services it is past, then subscribed them.
RunRestored ==
  LET c == cur["recover"] op == job["recover"] i == idx["recover"] IN
  /\ Steady /\ pc["recover"] = "restore" => op \in {"register", "subscribe"}
  /\ Steady /\ pc["recover"] \in {"restore", "publish"} =>
       \A k \in Services :
         /\ pc["recover"] = "publish" \/ op = "subscribe" \/ k < i => k \in regs[c]
         /\ pc["recover"] = "publish" \/ (op = "subscribe" /\ k < i) => Settled(c, k)

\* The link of a steady Node carries what its services registered and subscribed.
RunCarried ==
  Steady /\ Usable(published) =>
    \A k \in Services : k \in regs[published] /\ Settled(published, k)

RunInv == RunQuiet /\ RunArmed /\ RunRestored /\ RunCarried

-----------------------------------------------------------------------------
(* A steady Node *)

\* A Node runs steadily from the last step of an undisturbed Start on.
LEMMA SteadyBefore ==
  ASSUME NodeTypes, Phased, [Next]_vars, Steady'
  PROVE  Steady \/ (StartNext /\ state = "Starting")
<1>a. early \in BOOLEAN
  BY Zenon DEF NodeTypes
<1> USE <1>a DEF Steady
<1>s. ASSUME UNCHANGED <<state, early>> PROVE Steady \/ (StartNext /\ state = "Starting")
  BY <1>s, Zenon
<1>u. ASSUME \/ UNCHANGED vars \/ Launch \/ Flag \/ Names \/ Join \/ Undo \/ Unflag
             \/ CloseNetwork \/ CloseClient \/ Await \/ Attempt \/ Check \/ Restore
             \/ Backoff \/ Lookup
             \/ \E k \in Services : Subscribe(k)
             \/ \E p \in Procs :
                  \/ Cached(p) \/ Lock(p) \/ Dial(p) \/ Store(p) \/ Hello(p)
                  \/ Publish(p) \/ Request(p)
             \/ \E c \in Clients :
                  \/ ConnectionBroken(c) \/ RemoveClient(c) \/ StartMainRecovery(c)
                  \/ CloseMarked(c)
      PROVE  UNCHANGED <<state, early>>
  BY <1>u, Zenon DEF vars, faultVars, Launch, Flag, Names, Join, Undo, Unflag, CloseNetwork,
     CloseClient, Await, Attempt, Check, Restore, Backoff, Lookup, Subscribe, Cached, Lock,
     Dial, Store, Hello, Publish, Request, ConnectionBroken, RemoveClient,
     StartMainRecovery, CloseMarked
<1>1. ASSUME StartNode PROVE Steady \/ (StartNext /\ state = "Starting")
  BY <1>1 DEF StartNode, faultVars
<1>2. ASSUME StopNode PROVE Steady \/ (StartNext /\ state = "Starting")
  BY <1>2 DEF StopNode, faultVars
<1>3. ASSUME StartNext PROVE Steady \/ (StartNext /\ state = "Starting")
  BY <1>3, Zenon DEF StartNext, Phased
<1>4. ASSUME Halt PROVE Steady \/ (StartNext /\ state = "Starting")
  BY <1>4, Zenon DEF Halt, Phased
<1>5. ASSUME Finish PROVE Steady \/ (StartNext /\ state = "Starting")
  BY <1>5 DEF Finish, faultVars
<1>6. ASSUME NEW p \in Procs, Guard(p) PROVE Steady \/ (StartNext /\ state = "Starting")
  BY <1>6 DEF Guard
<1>7. ASSUME NEW c \in Clients, Break(c) PROVE Steady \/ (StartNext /\ state = "Starting")
  BY <1>7 DEF Break, Lost
<1>8. ASSUME NEW c \in Clients,
             HeartbeatFails(c)
      PROVE  Steady \/ (StartNext /\ state = "Starting")
  BY <1>8 DEF HeartbeatFails, Lost
<1> QED
  BY <1>s, <1>u, <1>1, <1>2, <1>3, <1>4, <1>5, <1>6, <1>7, <1>8, Zenon DEF Next, Life,
     Recovery, Connect, MarkDisconnected

\* When Start is done, the Node has a link that carries what Start registered
\* and subscribed.
LEMMA SteadyEntered ==
  ASSUME setup \in Setups, ProcTypes, ClientTypes, NodeTypes, LinkInv, StartInv,
         [Next]_vars,
         StartNext, state = "Starting", Steady'
  PROVE  RunInv'
<1>1. /\ pc["life"] = "next" /\ idx["life"] = N /\ Undisturbed
      /\ pc' = [pc EXCEPT !["life"] = "up"]
      /\ UNCHANGED <<job, idx, cur, published, connected, net, trigger, registered, desired,
                     refused, regs, subs>>
  <2>1. ~ (idx["life"] < N) /\ pc["life"] = "next" /\ ~stopped /\ early' = early
    BY Zenon DEF StartNext, Steady, LinkInv, Phased, faultVars
  <2>2. idx["life"] \in 0..N /\ N \in Nat
    BY ServiceCount, TheProcs DEF ProcTypes
  <2>3. idx["life"] = N /\ Undisturbed
    BY <2>1, <2>2 DEF Steady, Undisturbed
  <2> QED
    BY <2>1, <2>3, Zenon DEF StartNext, Goto, clientVars, recoveryVars, serviceVars,
       mainVars
<1>2. /\ Linked
      /\ pc["recover"] \in {"down", "idle"}
      /\ pc["user"] \in {"idle", "cached", "guard", "request"}
      /\ registered = 1..N
      /\ registered \subseteq regs[published]
      /\ \A k \in Services : k < N \/ k = N => Settled(published, k)
  <2>1. Linked
    BY <1>1, Zenon DEF StartInv, StartLinked, Unlinked, Connecting
  <2> QED
    BY <1>1, <2>1, Zenon DEF StartInv, StartQuiet, StartRegistered, StartGranted,
       StartSettled
<1>3. N \in Nat /\ N' = N /\ Services' = Services
  BY CountKept
<1>4. \A k \in Services : Settled(published, k) /\ k \in regs[published]
  BY <1>2, <1>3 DEF Services
<1>5. pc \in [Procs -> Steps]
  BY DEF ProcTypes
<1>6. pc'["recover"] = pc["recover"] /\ pc'["user"] = pc["user"]
  BY <1>1, <1>5, TheProcs
<1>7. RunQuiet'
  BY <1>1, <1>2, <1>3, <1>6, Zenon DEF RunQuiet, Services
<1>8. Usable(published)' /\ published' = published
  BY <1>1, <1>2, Zenon DEF Linked, Usable
<1>9. RunArmed'
  BY <1>8 DEF RunArmed
<1>10. RunRestored'
  BY <1>2, <1>6, Zenon DEF RunRestored
<1>11. RunCarried'
  BY <1>1, <1>3, <1>4, <1>6, <1>8, Zenon DEF RunCarried, Settled, Asking
<1> QED
  BY <1>7, <1>9, <1>10, <1>11 DEF RunInv

\* The steps that can follow while the Node goes on running.
LEMMA RunSteps ==
  ASSUME ProcTypes, LinkInv, RunQuiet, [Next]_vars, Steady, Steady'
  PROVE  \/ UNCHANGED vars \/ Await \/ Attempt \/ Check \/ Restore \/ Backoff
         \/ Lookup \/ \E k \in Services : Subscribe(k)
         \/ Lock("recover") \/ Dial("recover") \/ Store("recover") \/ Hello("recover")
         \/ Publish("recover")
         \/ Cached("user") \/ Guard("user") \/ Request("user")
         \/ \E c \in Clients :
              \/ Break(c) \/ ConnectionBroken(c) \/ HeartbeatFails(c) \/ RemoveClient(c)
              \/ StartMainRecovery(c) \/ CloseMarked(c)
<1>1. pc["life"] = "up"
  BY LifeAt, Zenon DEF LinkInv, Steady
<1>2. pc["user"] \in {"idle", "cached", "guard", "request"}
  BY Zenon DEF RunQuiet
<1>3. pc["recover"] \notin {"cached", "guard", "request"}
  BY Zenon DEF LinkInv, Placed, Connecting
<1>4. ~ (StartNode \/ StopNode)
  BY DEF StartNode, StopNode, Steady
<1>5. ~ Life
  BY <1>1, Zenon DEF Life, Launch, Flag, Names, StartNext, Halt, Join, Undo, Unflag,
     CloseNetwork, CloseClient, Finish
<1>6. ~ (Connect("life") \/ Request("life"))
  BY <1>1, Zenon DEF Connect, Cached, Guard, Lock, Dial, Store, Hello, Publish, Request
<1>7. ~ (Lock("user") \/ Dial("user") \/ Store("user") \/ Hello("user") \/ Publish("user"))
  BY <1>2, Zenon DEF Lock, Dial, Store, Hello, Publish
<1>8. ~ (Cached("recover") \/ Guard("recover") \/ Request("recover"))
  BY <1>3, Zenon DEF Cached, Guard, Request
<1> QED
  BY <1>4, <1>5, <1>6, <1>7, <1>8, Zenon DEF Next, Recovery, Connect, MarkDisconnected,
     Procs

\* While the Node runs, callers use the published client or fail; only the
\* recovery loop connects.
LEMMA RunQuietStep ==
  ASSUME setup \in Setups, ProcTypes, ClientTypes, NodeTypes, ServiceTypes, LinkInv,
         RunQuiet, [Next]_vars, Steady, Steady'
  PROVE  RunQuiet'
<1>a. pc \in [Procs -> Steps] /\ Services' = Services /\ registered = Services
  BY CountKept, Zenon DEF ProcTypes, RunQuiet
<1>b. pc["user"] \in {"idle", "cached", "guard", "request"}
  BY Zenon DEF RunQuiet
<1>c. pc["user"] # "idle" => job["user"] \in {"lookup", "subscribe"}
  BY Zenon DEF LinkInv, Placed
<1> USE <1>a, <1>b, TheProcs DEF RunQuiet
<1>s. ASSUME UNCHANGED <<pc, registered>> PROVE RunQuiet'
  BY <1>s
<1>u. ASSUME \/ UNCHANGED vars
             \/ \E c \in Clients :
                  \/ Break(c) \/ ConnectionBroken(c) \/ HeartbeatFails(c)
                  \/ RemoveClient(c) \/ StartMainRecovery(c) \/ CloseMarked(c)
      PROVE  UNCHANGED <<pc, registered>>
  BY <1>u, Zenon DEF vars, procVars, serviceVars, Break, ConnectionBroken, HeartbeatFails,
     RemoveClient, StartMainRecovery, CloseMarked
<1>1. ASSUME Await PROVE RunQuiet'
  BY <1>1, Zenon DEF Await, Recover, Goto, serviceVars
<1>2. ASSUME Attempt PROVE RunQuiet'
  BY <1>2, Zenon DEF Attempt, Recover, Goto, serviceVars
<1>3. ASSUME Check PROVE RunQuiet'
  BY <1>3, Zenon DEF Check, Work, Goto, serviceVars, Drop, Abort, AfterError
<1>4. ASSUME Restore PROVE RunQuiet'
  BY <1>4, Zenon DEF Restore, Drop, Abort, Goto, AfterError, Restored, Work, serviceVars
<1>5. ASSUME Backoff PROVE RunQuiet'
  BY <1>5, Zenon DEF Backoff, Recover, Goto, serviceVars
<1>6. ASSUME Lookup PROVE RunQuiet'
  BY <1>6, Zenon DEF Lookup, Work, Goto, serviceVars
<1>7. ASSUME NEW k \in Services, Subscribe(k) PROVE RunQuiet'
  BY <1>7, Zenon DEF Subscribe, Work, Goto, procVars
<1>8. ASSUME Lock("recover") PROVE RunQuiet'
  BY <1>8, Zenon DEF Lock, Goto, Got, serviceVars
<1>9. ASSUME Dial("recover") PROVE RunQuiet'
  BY <1>9, Zenon DEF Dial, Goto, serviceVars, Abort, AfterError
<1>10. ASSUME Store("recover") PROVE RunQuiet'
  BY <1>10, Zenon DEF Store, Goto, serviceVars
<1>11. ASSUME Hello("recover") PROVE RunQuiet'
  BY <1>11, Zenon DEF Hello, Goto, serviceVars, Drop, Abort, AfterError
<1>12. ASSUME Publish("recover") PROVE RunQuiet'
  BY <1>12, Zenon DEF Publish, Goto, Got, serviceVars, Drop, Abort, AfterError
<1>13. ASSUME Cached("user") PROVE RunQuiet'
  BY <1>13, <1>c, Zenon DEF Cached, Got, Goto, serviceVars
<1>14. ASSUME Guard("user") PROVE RunQuiet'
  BY <1>14, Zenon DEF Guard, Abort, Goto, AfterError, Steady
<1>15. ASSUME Request("user") PROVE RunQuiet'
  BY <1>15, Zenon DEF Request, Goto, AfterRequest, Abort, AfterError
<1> QED
  BY <1>s, <1>u, <1>1, <1>2, <1>3, <1>4, <1>5, <1>6, <1>7, <1>8, <1>9, <1>10, <1>11, <1>12,
     <1>13, <1>14, <1>15, RunSteps, Zenon

\* While the Node runs, its link is never lost unnoticed: a callback, the
\* trigger or the loop itself will act on it.
LEMMA RunArmedStep ==
  ASSUME setup \in Setups, ProcTypes, ClientTypes, NodeTypes, ServiceTypes, LinkInv,
         RunQuiet, RunArmed, [Next]_vars, Steady, Steady'
  PROVE  RunArmed'
<1>a. /\ pc \in [Procs -> Steps]
      /\ published \in Clients \cup {NoClient} /\ NoClient \notin Clients
      /\ connected \in [Clients -> BOOLEAN]
      /\ mark \in [Clients -> {"no", "swapped", "removed", "close"}]
  BY LinkAssumption, Zenon DEF ProcTypes, NodeTypes, ClientTypes
<1>b. /\ state = "Running" /\ ~stopped
      /\ Usable(published) \/ Recovering
  BY LifeAt, Zenon DEF LinkInv, Phased, Steady, RunArmed
<1>c. \A c \in Clients : connected[c] => mark[c] = "no"
  BY Zenon DEF LinkInv, Accounted
<1>d. pc["recover"] \in Private => cur["recover"] \in Clients /\ published = NoClient
  BY TheProcs, Zenon DEF LinkInv, Separate, Exclusive, Private, Locked, Procs, Nobody
<1> USE <1>a, <1>b, TheProcs DEF RunArmed, Usable, Recovering
<1>s. ASSUME UNCHANGED <<pc, published, connected, mark, trigger>> PROVE RunArmed'
  BY <1>s, Zenon
<1>u. ASSUME \/ UNCHANGED vars
             \/ \E c \in Clients : Break(c)
      PROVE  UNCHANGED <<pc, published, connected, mark, trigger>>
  BY <1>u, Zenon DEF vars, procVars, clientVars, recoveryVars, Break
<1>1. ASSUME Await PROVE RunArmed'
  BY <1>1, <1>c, Zenon DEF Await, Recover, Goto, clientVars
<1>2. ASSUME Attempt PROVE RunArmed'
  BY <1>2, <1>c, Zenon DEF Attempt, Recover, Goto, MayRecover, clientVars, recoveryVars
<1>3. ASSUME Check PROVE RunArmed'
  BY <1>3, <1>c, Zenon DEF Check, Work, Goto, clientVars, Drop, CloseTransport, Abort,
     AfterError, recoveryVars
<1>4. ASSUME Restore PROVE RunArmed'
  BY <1>4, <1>c, Zenon DEF Restore, Drop, CloseTransport, Abort, Goto, AfterError, Restored,
     Work, clientVars, recoveryVars
<1>5. ASSUME Backoff PROVE RunArmed'
  BY <1>5, <1>c, Zenon DEF Backoff, Recover, Goto, clientVars, recoveryVars
<1>6. ASSUME Lookup PROVE RunArmed'
  BY <1>6, <1>c, Zenon DEF Lookup, Work, Goto, clientVars, recoveryVars
<1>7. ASSUME NEW k \in Services, Subscribe(k) PROVE RunArmed'
  BY <1>7, <1>c, Zenon DEF Subscribe, Work, Goto, procVars, clientVars, recoveryVars
<1>8. ASSUME Lock("recover") PROVE RunArmed'
  BY <1>8, <1>c, Zenon DEF Lock, Goto, Got, clientVars, CloseTransport, recoveryVars
<1>9. ASSUME Dial("recover") PROVE RunArmed'
  BY <1>9, <1>c, Zenon DEF Dial, Goto, Abort, AfterError, recoveryVars
<1>10. ASSUME Store("recover") PROVE RunArmed'
  BY <1>10, <1>c, Zenon DEF Store, Goto, recoveryVars
<1>11. ASSUME Hello("recover") PROVE RunArmed'
  BY <1>11, <1>c, Zenon DEF Hello, Goto, clientVars, Drop, CloseTransport, Abort,
     AfterError, recoveryVars
<1>12. ASSUME Publish("recover") PROVE RunArmed'
  BY <1>12, <1>d DEF Publish, MayPublish, Goto, Drop, CloseTransport, Abort, AfterError,
     clientVars, Private, recoveryVars
<1>13. ASSUME Cached("user") PROVE RunArmed'
  BY <1>13, <1>c, Zenon DEF Cached, Got, Goto, clientVars, recoveryVars
<1>14. ASSUME Guard("user") PROVE RunArmed'
  BY <1>14, <1>c, Zenon DEF Guard, Abort, Goto, AfterError, clientVars, recoveryVars
<1>15. ASSUME Request("user") PROVE RunArmed'
  BY <1>15, <1>c, Zenon DEF Request, Goto, AfterRequest, Abort, AfterError, clientVars,
     recoveryVars
<1>16. ASSUME NEW c \in Clients, ConnectionBroken(c) PROVE RunArmed'
  BY <1>16, <1>c, Zenon DEF ConnectionBroken, Swap, procVars, recoveryVars
<1>17. ASSUME NEW c \in Clients, HeartbeatFails(c) PROVE RunArmed'
  BY <1>17, <1>c, Zenon DEF HeartbeatFails, Swap, procVars, recoveryVars
<1>18. ASSUME NEW c \in Clients, RemoveClient(c) PROVE RunArmed'
  BY <1>18, <1>c, Zenon DEF RemoveClient, procVars, recoveryVars
<1>19. ASSUME NEW c \in Clients, StartMainRecovery(c) PROVE RunArmed'
  BY <1>19, <1>c, Zenon DEF StartMainRecovery, MayTrigger, procVars
<1>20. ASSUME NEW c \in Clients, CloseMarked(c) PROVE RunArmed'
  BY <1>20, <1>c, Zenon DEF CloseMarked, procVars, recoveryVars
<1> QED
  BY <1>s, <1>u, <1>1, <1>2, <1>3, <1>4, <1>5, <1>6, <1>7, <1>8, <1>9, <1>10, <1>11, <1>12,
     <1>13, <1>14, <1>15, <1>16, <1>17, <1>18, <1>19, <1>20, RunSteps, Zenon

\* restoreMainNodeState replays the registrations and then the subscriptions in
\* order; what the application asks meanwhile is answered over the published
\* client, so it cannot undo what was replayed.
LEMMA RunRestoredStep ==
  ASSUME setup \in Setups, ProcTypes, ClientTypes, NodeTypes, ServiceTypes, LinkInv,
         RunQuiet, RunRestored, [Next]_vars, Steady, Steady'
  PROVE  RunRestored'
<1>a. /\ pc \in [Procs -> Steps] /\ job \in [Procs -> Jobs] /\ idx \in [Procs -> 0..N]
      /\ cur \in [Procs -> Clients \cup {NoClient}] /\ N \in Nat \ {0}
      /\ regs \in [Clients -> SUBSET Services] /\ subs \in [Clients -> SUBSET Services]
      /\ Services' = Services /\ Services = 1..N
  BY ServiceCount, CountKept, Zenon DEF ProcTypes, ServiceTypes, Services
<1>b. pc["user"] # "idle" => job["user"] \in {"lookup", "subscribe"}
  BY Zenon DEF LinkInv, Placed
<1>c. ASSUME pc["recover"] \in {"restore", "publish"}
      PROVE  /\ cur["recover"] \in Clients /\ cur["user"] # cur["recover"]
             /\ pc["user"] = "request" => ~ connected[cur["user"]]
  <2>1. /\ owner = "recover" /\ published = NoClient
        /\ cur["recover"] \in Clients /\ cur["user"] # cur["recover"]
        /\ pc["user"] = "request" => cur["user"] \in Clients
    BY <1>c, TheProcs, Zenon DEF LinkInv, Separate, Exclusive, Private, Locked, Procs,
       Nobody
  <2> QED
    BY <2>1, LinkAssumption, Zenon DEF LinkInv, Accounted, Held
<1>d. registered = Services /\ state = "Running"
  BY Zenon DEF RunQuiet, Steady
<1>e. pc["user"] \in {"idle", "cached", "guard", "request"}
  BY Zenon DEF RunQuiet
<1>f. desired \subseteq Services
  BY Zenon DEF ServiceTypes
<1>g. idx["recover"] # 0
  BY Zenon DEF LinkInv, Placed
<1> USE <1>a, TheProcs DEF RunRestored
<1>s. ASSUME UNCHANGED <<pc, job, idx, cur, desired, refused, regs, subs>>
      PROVE  RunRestored'
  BY <1>s, Zenon DEF Settled, Asking
<1>u. ASSUME \/ UNCHANGED vars
             \/ \E c \in Clients :
                  \/ Break(c) \/ ConnectionBroken(c) \/ HeartbeatFails(c)
                  \/ RemoveClient(c) \/ StartMainRecovery(c) \/ CloseMarked(c)
      PROVE  UNCHANGED <<pc, job, idx, cur, desired, refused, regs, subs>>
  BY <1>u, Zenon DEF vars, procVars, serviceVars, mainVars, Break, ConnectionBroken,
     HeartbeatFails, RemoveClient, StartMainRecovery, CloseMarked
<1>k. ASSUME /\ pc'["recover"] = pc["recover"] /\ job'["recover"] = job["recover"]
             /\ idx'["recover"] = idx["recover"] /\ cur'["recover"] = cur["recover"],
             UNCHANGED regs,
             \A c \in Clients : \A k \in Services : Settled(c, k) => Settled(c, k)'
      PROVE  RunRestored'
  <2>1. pc["recover"] \in {"restore", "publish"} => cur["recover"] \in Clients
    BY <1>c, Zenon
  <2> QED
    BY <1>k, <2>1, Zenon
<1>1. ASSUME Await PROVE RunRestored'
  BY <1>1, Zenon DEF Await, Recover, Goto
<1>2. ASSUME Attempt PROVE RunRestored'
  BY <1>2, Zenon DEF Attempt, Recover, Goto
<1>3. ASSUME Check PROVE RunRestored'
  BY <1>3 DEF Check, Work, Goto, Drop, Abort, AfterError
<1>4. ASSUME Restore PROVE RunRestored'
  <2>1. CASE Drop("recover")
    BY <2>1, Zenon DEF Drop, Abort, Goto, AfterError
  <2>2. CASE Restored /\ (\/ /\ UNCHANGED <<serviceVars, mainVars>>
                           /\ ~ Wanted(job["recover"], idx["recover"])
                        \/ /\ UNCHANGED serviceVars
                           /\ Grant(job["recover"], cur["recover"], idx["recover"]))
    <3> DEFINE c == cur["recover"]
               op == job["recover"]
               i == idx["recover"]
    <3>1. pc["recover"] = "restore" /\ op \in {"register", "subscribe"} /\ c \in Clients
      BY <1>4, <1>c, Zenon DEF Restore
    <3>2. /\ pc'["user"] = pc["user"] /\ job'["user"] = job["user"] /\ idx'["user"] = idx["user"]
          /\ cur'["recover"] = c
          /\ \/ /\ i < N /\ pc'["recover"] = "restore"
                /\ job'["recover"] = op /\ idx'["recover"] = i + 1
             \/ /\ i = N /\ op = "register" /\ pc'["recover"] = "restore"
                /\ job'["recover"] = "subscribe" /\ idx'["recover"] = 1
             \/ i = N /\ op = "subscribe" /\ pc'["recover"] = "publish"
      BY <2>2, <3>1 DEF Restored, Work, Goto
    <3>3. /\ \A k \in Services : k \in regs[c] => k \in regs'[c]
          /\ op = "register" /\ i \in Services => i \in regs'[c]
      BY <2>2, <3>1, <1>d DEF Grant, Wanted, mainVars
    <3>4. /\ UNCHANGED <<desired, refused>>
          /\ \A k \in Services : k \in subs[c] => k \in subs'[c]
          /\ op = "subscribe" /\ i \in desired => i \in subs'[c]
      <4>1. CASE Grant(op, c, i) /\ UNCHANGED serviceVars
        BY <3>1, <4>1 DEF Grant, serviceVars
      <4>2. CASE ~ Wanted(op, i) /\ UNCHANGED <<serviceVars, mainVars>>
        BY <4>2, <1>d, <1>f, Zenon DEF Wanted, mainVars, serviceVars
      <4> QED
        BY <2>2, <4>1, <4>2, Zenon
    <3>5. \A k \in Services :
            Settled(c, k) \/ (op = "subscribe" /\ k = i) => Settled(c, k)'
      BY <3>2, <3>4 DEF Settled, Asking
    <3>6. /\ op = "subscribe" => \A k \in Services : k \in regs[c]
          /\ \A k \in Services : k < i => k \in regs[c]
          /\ op = "subscribe" => \A k \in Services : k < i => Settled(c, k)
      BY <3>1, Zenon
    <3>7. CASE /\ i < N /\ pc'["recover"] = "restore"
               /\ job'["recover"] = op /\ idx'["recover"] = i + 1
      <4>1. i \in Services /\ \A k \in Services : k < i + 1 => k < i \/ k = i
        BY <3>7, <1>g
      <4> QED
        BY <3>1, <3>2, <3>3, <3>5, <3>6, <3>7, <4>1, Zenon
    <3>8. CASE /\ i = N /\ op = "register" /\ pc'["recover"] = "restore"
               /\ job'["recover"] = "subscribe" /\ idx'["recover"] = 1
      <4>1. i \in Services /\ \A k \in Services : (k < i \/ k = i) /\ ~ (k < 1)
        BY <3>8, <1>g
      <4> QED
        BY <3>1, <3>2, <3>3, <3>6, <3>8, <4>1, Zenon
    <3>9. CASE i = N /\ op = "subscribe" /\ pc'["recover"] = "publish"
      <4>1. \A k \in Services : k < i \/ k = i
        BY <3>9
      <4> QED
        BY <3>1, <3>2, <3>3, <3>5, <3>6, <3>9, <4>1, Zenon
    <3> QED
      BY <3>2, <3>7, <3>8, <3>9, Zenon
  <2> QED
    BY <1>4, <2>1, <2>2, <1>d, Zenon DEF Restore
<1>5. ASSUME Backoff PROVE RunRestored'
  BY <1>5, Zenon DEF Backoff, Recover, Goto
<1>6. ASSUME Lookup PROVE RunRestored'
  BY <1>6, Zenon DEF Lookup, Work, Goto, serviceVars, mainVars, Settled, Asking
<1>7. ASSUME NEW k \in Services, Subscribe(k) PROVE RunRestored'
  <2>1. /\ UNCHANGED <<refused, regs, subs>>
        /\ desired' = desired \cup {k} /\ pc["user"] = "idle"
        /\ Work("user", "cached", "subscribe", k)
    BY <1>7, <1>d, Zenon DEF Subscribe, mainVars
  <2>2. Asking(k)'
    BY <2>1, Zenon DEF Work, Goto, Asking
  <2>3. \A c \in Clients : \A j \in Services : Settled(c, j) => Settled(c, j)'
    BY <2>1, <2>2, Zenon DEF Settled, Asking
  <2>4. /\ pc'["recover"] = pc["recover"] /\ job'["recover"] = job["recover"]
        /\ idx'["recover"] = idx["recover"] /\ cur'["recover"] = cur["recover"]
    BY <2>1, Zenon DEF Work, Goto
  <2> QED
    BY <2>1, <2>3, <2>4, <1>k, Zenon
<1>8. ASSUME Lock("recover") PROVE RunRestored'
  BY <1>8, Zenon DEF Lock, Goto, Got
<1>9. ASSUME Dial("recover") PROVE RunRestored'
  BY <1>9, Zenon DEF Dial, Goto, Abort, AfterError
<1>10. ASSUME Store("recover") PROVE RunRestored'
  BY <1>10, Zenon DEF Store, Goto
<1>11. ASSUME Hello("recover") PROVE RunRestored'
  BY <1>11, Zenon DEF Hello, Goto, Drop, Abort, AfterError
<1>12. ASSUME Publish("recover") PROVE RunRestored'
  BY <1>12, Zenon DEF Publish, Goto, Drop, Abort, AfterError
<1>13. ASSUME Cached("user") PROVE RunRestored'
  <2>1. UNCHANGED <<job, idx, desired, refused, regs, subs>>
    BY <1>13, Zenon DEF Cached, Got, serviceVars, mainVars
  <2>2. /\ pc'["recover"] = pc["recover"] /\ cur'["recover"] = cur["recover"]
        /\ pc'["user"] # "idle"
    BY <1>13 DEF Cached, Got, Goto
  <2>3. \A c \in Clients : \A j \in Services : Settled(c, j) => Settled(c, j)'
    BY <2>1, <2>2, Zenon DEF Settled, Asking
  <2> QED
    BY <2>1, <2>2, <2>3, <1>k, Zenon
<1>14. ASSUME Guard("user") PROVE RunRestored'
  BY <1>14, <1>b, <1>d DEF Guard, Abort, Goto, AfterError, Release, mainVars, Settled,
     Asking
<1>15. ASSUME Request("user") PROVE RunRestored'
  <2>1. CASE pc["recover"] \in {"restore", "publish"}
    <3>1. Abort("user") /\ UNCHANGED mainVars
      BY <1>15, <1>c, <2>1, Zenon DEF Request, Grantable, Reaches
    <3> QED
      BY <1>15, <3>1, <1>b DEF Abort, Goto, AfterError, Release, mainVars, Settled, Asking
  <2>2. CASE pc["recover"] \notin {"restore", "publish"}
    BY <1>15, <2>2, Zenon DEF Request, Goto, Abort
  <2> QED
    BY <2>1, <2>2, Zenon
<1> QED
  BY <1>s, <1>u, <1>1, <1>2, <1>3, <1>4, <1>5, <1>6, <1>7, <1>8, <1>9, <1>10, <1>11, <1>12,
     <1>13, <1>14, <1>15, RunSteps, Zenon

\* A client published by the recovery loop carries everything, and it goes on
\* doing so until its connection is lost.
LEMMA RunCarriedStep ==
  ASSUME setup \in Setups, ProcTypes, ClientTypes, NodeTypes, ServiceTypes, LinkInv,
         RunQuiet, RunRestored, RunCarried, [Next]_vars, Steady, Steady'
  PROVE  RunCarried'
<1>a. /\ pc \in [Procs -> Steps] /\ job \in [Procs -> Jobs] /\ idx \in [Procs -> 0..N]
      /\ cur \in [Procs -> Clients \cup {NoClient}]
      /\ published \in Clients \cup {NoClient} /\ connected \in [Clients -> BOOLEAN]
      /\ regs \in [Clients -> SUBSET Services] /\ subs \in [Clients -> SUBSET Services]
      /\ Services' = Services
  BY CountKept, Zenon DEF ProcTypes, ServiceTypes, ClientTypes, NodeTypes
<1>b. pc["user"] # "idle" => job["user"] \in {"lookup", "subscribe"}
  BY Zenon DEF LinkInv, Placed
<1>c. pc["recover"] \in Locked => published = NoClient
  BY TheProcs DEF LinkInv, Exclusive, Locked, Procs, Nobody
<1>d. registered = Services /\ state = "Running"
  BY Zenon DEF RunQuiet, Steady
<1>e. pc["user"] = "request" /\ published # NoClient =>
        /\ cur["user"] \in Clients
        /\ connected[cur["user"]] => cur["user"] = published
  <2>1. ASSUME pc["user"] = "request", published # NoClient
        PROVE  cur["user"] \in Clients /\ owner = Nobody
    BY <2>1, TheProcs, Zenon DEF LinkInv, Separate, Exclusive
  <2>2. Nobody \notin Procs
    BY DEF Nobody, Procs
  <2> QED
    BY <2>1, <2>2, Zenon DEF LinkInv, Accounted, Held
<1> USE <1>a, TheProcs DEF RunCarried, Usable
<1>s. ASSUME UNCHANGED <<pc, job, idx, published, connected, desired, refused, regs, subs>>
      PROVE  RunCarried'
  BY <1>s, Zenon DEF Settled, Asking
<1>u. ASSUME \/ UNCHANGED vars
             \/ \E c \in Clients : Break(c) \/ StartMainRecovery(c)
      PROVE  UNCHANGED <<pc, job, idx, published, connected, desired, refused, regs, subs>>
  BY <1>u, Zenon DEF vars, procVars, clientVars, serviceVars, mainVars, Break,
     StartMainRecovery
<1>k. ASSUME UNCHANGED <<published, connected, desired, refused, regs, subs>>,
             \A k \in Services : Asking(k) => Asking(k)'
      PROVE  RunCarried'
  BY <1>k, Zenon DEF Settled
<1>1. ASSUME Await PROVE RunCarried'
  BY <1>1, Zenon DEF Await, Recover, Goto, serviceVars, mainVars, clientVars, Settled,
     Asking
<1>2. ASSUME Attempt PROVE RunCarried'
  BY <1>2, Zenon DEF Attempt, Recover, Goto, serviceVars, mainVars, clientVars, Settled,
     Asking
<1>3. ASSUME Check PROVE RunCarried'
  BY <1>3, <1>c, Zenon DEF Check, Locked
<1>4. ASSUME Restore PROVE RunCarried'
  BY <1>4, <1>c, Zenon DEF Restore, Locked
<1>5. ASSUME Backoff PROVE RunCarried'
  <2>1. UNCHANGED <<job, idx, published, connected, desired, refused, regs, subs>>
    BY <1>5, Zenon DEF Backoff, serviceVars, mainVars, clientVars
  <2>2. pc'["user"] = pc["user"]
    BY <1>5, Zenon DEF Backoff, Recover, Goto
  <2> QED
    BY <2>1, <2>2, <1>k, Zenon DEF Asking
<1>6. ASSUME Lookup PROVE RunCarried'
  BY <1>6, Zenon DEF Lookup, Work, Goto, serviceVars, mainVars, clientVars, Settled, Asking
<1>7. ASSUME NEW k \in Services, Subscribe(k) PROVE RunCarried'
  <2>1. /\ UNCHANGED <<published, connected, refused, regs, subs>>
        /\ desired' = desired \cup {k} /\ pc["user"] = "idle"
        /\ Work("user", "cached", "subscribe", k)
    BY <1>7, <1>d, Zenon DEF Subscribe, mainVars, clientVars
  <2>2. Asking(k)'
    BY <2>1, Zenon DEF Work, Goto, Asking
  <2> QED
    BY <2>1, <2>2, Zenon DEF Settled, Asking
<1>8. ASSUME Lock("recover") PROVE RunCarried'
  BY <1>8, Zenon DEF Lock, Goto, Got, serviceVars, mainVars, clientVars, Settled, Asking
<1>9. ASSUME Dial("recover") PROVE RunCarried'
  BY <1>9, <1>c, Zenon DEF Dial, Locked
<1>10. ASSUME Store("recover") PROVE RunCarried'
  BY <1>10, <1>c, Zenon DEF Store, Locked
<1>11. ASSUME Hello("recover") PROVE RunCarried'
  BY <1>11, <1>c, Zenon DEF Hello, Locked
<1>12. ASSUME Publish("recover") PROVE RunCarried'
  <2>1. CASE Drop("recover") /\ UNCHANGED published
    BY <1>12, <2>1, <1>c, Zenon DEF Publish, Locked
  <2>2. CASE published' = cur["recover"] /\ Goto("recover", "idle") /\ Release("recover")
             /\ UNCHANGED serviceVars
    <3>1. \A k \in Services : k \in regs[cur["recover"]] /\ Settled(cur["recover"], k)
      BY <1>12, Zenon DEF Publish, RunRestored
    <3>2. UNCHANGED <<desired, refused, regs, subs>>
      BY <1>12, <2>2, Zenon DEF Publish, mainVars, serviceVars
    <3>3. \A k \in Services : Asking(k) => Asking(k)'
      BY <2>2, Zenon DEF Goto, Release, Asking
    <3> QED
      BY <2>2, <3>1, <3>2, <3>3, Zenon DEF Settled
  <2> QED
    BY <1>12, <2>1, <2>2, Zenon DEF Publish
<1>13. ASSUME Cached("user") PROVE RunCarried'
  BY <1>13, <1>b, Zenon DEF Cached, Got, Goto, serviceVars, mainVars, clientVars, Settled,
     Asking
<1>14. ASSUME Guard("user") PROVE RunCarried'
  BY <1>14, <1>b, <1>d DEF Guard, Abort, Goto, AfterError, Release, mainVars, clientVars,
     Settled, Asking
<1>15. ASSUME Request("user") PROVE RunCarried'
  <2> DEFINE c == cur["user"]
             op == job["user"]
             j == idx["user"]
  <2>1. /\ UNCHANGED <<published, connected, desired>> /\ pc["user"] = "request"
        /\ op \in {"lookup", "subscribe"}
    BY <1>15, <1>b, Zenon DEF Request, Abort, clientVars
  <2>2. \A k \in Services : k # j \/ op # "subscribe" => ~ Asking(k)
    BY Zenon DEF Asking
  <2>3. CASE Abort("user") /\ UNCHANGED <<regs, subs>>
    <3>1. \A k \in Services : k \in refused \/ Asking(k) => k \in refused'
      BY <2>1, <2>2, <2>3 DEF Abort
    <3> QED
      BY <2>1, <2>3, <3>1, Zenon DEF Settled
  <2>4. CASE /\ Grantable(op, c, j) /\ Grant(op, c, j)
             /\ refused' = IF op = "subscribe" THEN refused \ {j} ELSE refused
    <3>1. ASSUME published # NoClient
          PROVE  /\ regs'[published] = regs[published]
                 /\ \A k \in subs[published] : k \in subs'[published]
                 /\ op = "subscribe" => j \in subs'[published]
      <4>1. c = published
        BY <2>1, <2>4, <3>1, <1>e, Zenon DEF Grantable, Reaches
      <4> QED
        BY <2>1, <2>4, <3>1, <4>1 DEF Grant
    <3>2. \A k \in Services : k \in refused => k \in refused' \/ (op = "subscribe" /\ k = j)
      BY <2>4, Zenon
    <3> QED
      BY <2>1, <2>2, <3>1, <3>2, Zenon DEF Settled
  <2> QED
    BY <1>15, <2>3, <2>4, Zenon DEF Request, mainVars
<1>16. ASSUME NEW c \in Clients, ConnectionBroken(c) PROVE RunCarried'
  BY <1>16, Zenon DEF ConnectionBroken, Swap, procVars, serviceVars, mainVars, Settled,
     Asking
<1>17. ASSUME NEW c \in Clients, HeartbeatFails(c) PROVE RunCarried'
  BY <1>17, Zenon DEF HeartbeatFails, Swap, procVars, serviceVars, mainVars, Settled, Asking
<1>18. ASSUME NEW c \in Clients, RemoveClient(c) PROVE RunCarried'
  BY <1>18, Zenon DEF RemoveClient, procVars, serviceVars, mainVars, Settled, Asking
<1>19. ASSUME NEW c \in Clients, CloseMarked(c) PROVE RunCarried'
  BY <1>19, Zenon DEF CloseMarked, procVars, serviceVars, mainVars, Settled, Asking
<1> QED
  BY <1>s, <1>u, <1>1, <1>2, <1>3, <1>4, <1>5, <1>6, <1>7, <1>8, <1>9, <1>10, <1>11, <1>12,
     <1>13, <1>14, <1>15, <1>16, <1>17, <1>18, <1>19, RunSteps, Zenon

\* Every step keeps the invariant of the running Node.
LEMMA NextRun ==
  ASSUME TypeOK, LinkInv, StartInv, RunInv, [Next]_vars
  PROVE  RunInv'
<1>a. setup \in Setups /\ ProcTypes /\ ClientTypes /\ ServiceTypes /\ NodeTypes /\ Phased
  BY Types, Zenon DEF LinkInv
<1>1. CASE ~ Steady'
  BY <1>1, Zenon DEF RunInv, RunQuiet, RunArmed, RunRestored, RunCarried
<1>2. CASE Steady' /\ Steady
  <2>a. RunQuiet /\ RunArmed /\ RunRestored /\ RunCarried
    BY Zenon DEF RunInv
  <2>1. RunQuiet' /\ RunArmed'
    BY <1>a, <1>2, <2>a, RunQuietStep, RunArmedStep, Zenon
  <2>2. RunRestored' /\ RunCarried'
    BY <1>a, <1>2, <2>a, RunRestoredStep, RunCarriedStep, Zenon
  <2> QED
    BY <2>1, <2>2, Zenon DEF RunInv
<1>3. CASE Steady' /\ StartNext /\ state = "Starting"
  BY <1>a, <1>3, SteadyEntered, Zenon
<1> QED
  BY <1>a, <1>1, <1>2, <1>3, SteadyBefore, Zenon

-----------------------------------------------------------------------------
(* The theorems *)

\* The invariant of the running Node: a lost link is being recovered, and the
\* recovery loop has replayed all that it is past.
THEOREM RunInvariance == Spec => []RunInv
<1>1. Init => RunInv
  BY Zenon DEF Init, RunInv, RunQuiet, RunArmed, RunRestored, RunCarried, Steady
<1>2. TypeOK /\ LinkInv /\ StartInv /\ RunInv /\ [Next]_vars => RunInv'
  BY NextRun
<1> QED
  BY <1>1, <1>2, LinkInvariance, StartInvariance, PTL DEF Spec

\* A Node that runs without a usable client to the main Node is recovering:
\* the trigger is set, the loop is at work, or a callback is about to set it.
THEOREM AlwaysRecovering == Spec => []RecoveryArmed
<1>1. RunInv => RecoveryArmed
  BY Zenon DEF RunInv, RunArmed, Steady, RecoveryArmed
<1> QED
  BY <1>1, RunInvariance, PTL

\* The usable client of a Node that runs carries every registration of its
\* services, and every subscription they asked for that was not refused:
\* restoreMainNodeState loses none, whatever the application asks meanwhile.
THEOREM NothingForgotten == Spec => []StateRestored
<1>1. TypeOK /\ RunInv => StateRestored
  <2> SUFFICES ASSUME TypeOK, RunInv, Steady, Usable(published) PROVE StateRestored
    BY Zenon DEF StateRestored, Steady
  <2>1. /\ desired \subseteq Services /\ registered \subseteq Services
        /\ \A k \in Services : k \in regs[published] /\ Settled(published, k)
    BY Types, Zenon DEF ServiceTypes, RunInv, RunCarried
  <2> QED
    BY <2>1, Zenon DEF StateRestored, Settled, Asking
<1> QED
  BY <1>1, RunInvariance, LinkInvariance, PTL

=============================================================================
