--------------------------- MODULE MainLinkProofs ---------------------------
(***************************************************************************)
(* Proofs about the link of a Node to the main Node, first part: the       *)
(* goroutines keep to their steps, clientCreateMu excludes, and every      *)
(* client that counts as connected is accounted for. From this follow that *)
(* there is one connection and that the published client is live.          *)
(***************************************************************************)
EXTENDS MainLink, TLAPS

\* The steps of connecting, those taken with clientCreateMu held, and those at
\* which a goroutine holds a connection that nobody else knows of.
Connecting == {"cached", "guard", "lock", "dial", "store", "hello", "publish"}
Locked == {"dial", "store", "hello", "publish", "check", "restore", "close"}
Private == {"store", "hello", "publish", "check", "restore"}

\* Steps of Stop and of the rollback once the recovery loop was told to end.
Undoing == {"join", "undo", "unflag", "network", "close", "finish"}

\* Which goroutine takes which step, for what and for which service.
Placed ==
  /\ pc["user"] \in Connecting \cup {"idle", "request"}
  /\ pc["user"] # "idle" => job["user"] \in {"lookup", "subscribe"}
  /\ pc["recover"] \in (Connecting \ {"cached", "guard"}) \cup
                        {"down", "idle", "attempt", "check", "restore", "backoff", "ended"}
  /\ pc["life"] \in Connecting \cup Undoing \cup
                     {"down", "launch", "request", "flag", "names", "next", "up", "halt",
                      "done"}
  /\ job["life"] # "lookup" /\ (pc["life"] = "request" => job["life"] # "connect")
  /\ idx["user"] # 0 /\ idx["recover"] # 0
  /\ idx["life"] = 0 => pc["life"] \in {"undo", "network", "close", "finish", "done"}

\* What Start, Stop and the rollback have done when they take a step.
Phased ==
  /\ pc["life"] = "down" => /\ pc["recover"] = "down" /\ job["life"] = "connect"
                            /\ state \in {"Initial", "Stopped"} /\ ~stopped
  /\ pc["life"] \in {"launch", "flag", "names", "next"} =>
       job["life"] # "unregister" /\ state = "Starting" /\ ~stopped
  /\ pc["life"] \in Connecting \cup {"request"} =>
       IF job["life"] = "unregister" THEN state \in {"Starting", "Stopping"} /\ stopped
       ELSE state = "Starting" /\ ~stopped
  /\ pc["life"] = "up" => state = "Running" /\ ~stopped
  /\ pc["life"] = "halt" => state \in {"Starting", "Stopping"} /\ ~stopped
  /\ pc["life"] \in Undoing => state \in {"Starting", "Stopping"} /\ stopped
  /\ pc["life"] = "done" => state = "Stopped"

\* Who holds clientCreateMu, and that no client is published meanwhile.
Exclusive ==
  /\ \A p \in Procs : pc[p] \in Locked <=> owner = p
  /\ owner # Nobody => published = NoClient

\* A connection being made belongs to one goroutine, and was not reported lost
\* before it counted as connected.
Separate ==
  \A p \in Procs :
    /\ pc[p] \in Private \cup {"request"} => cur[p] \in Clients
    /\ pc[p] \in Private => \A q \in Procs \ {p} : cur[q] # cur[p]
    /\ pc[p] = "store" => mark[cur[p]] = "no"

\* The holder of clientCreateMu has built client c, or is about to close it.
Held(c) == owner \in Procs /\ pc[owner] \notin {"dial", "store"} /\ cur[owner] = c

\* A connected client is published or in the hands of the holder of
\* clientCreateMu; its connection is there unless it was lost before
\* RegisterNode was sent.
Accounted ==
  \A c \in Clients : connected[c] =>
    /\ mark[c] = "no"
    /\ c = published \/ Held(c)
    /\ net[c] = "closed" => Held(c) /\ pc[owner] = "hello"

\* A step that leaves clientCreateMu and the clients alone: whoever holds the
\* lock stays where it is, and the others get at most the published client.
Aside ==
  /\ UNCHANGED <<owner, published, connected, net, mark>>
  /\ \A q \in Procs :
       /\ pc[q] \in Locked \/ pc'[q] \in Locked => pc'[q] = pc[q] /\ cur'[q] = cur[q]
       /\ \/ cur'[q] = cur[q] /\ (pc'[q] = "request" => pc[q] = "request")
          \/ cur'[q] = NoClient /\ pc'[q] # "request"
          \/ cur'[q] = published /\ Usable(published)

\* The published client is connected or about to be removed.
Tended == published # NoClient => connected[published] \/ mark[published] = "swapped"

LinkInv == Placed /\ Phased /\ Exclusive /\ Separate /\ Accounted /\ Tended

-----------------------------------------------------------------------------
(* Types *)

Jobs == {"connect", "register", "subscribe", "unregister", "lookup"}

ProcTypes ==
  /\ pc \in [Procs -> Steps]
  /\ job \in [Procs -> Jobs]
  /\ idx \in [Procs -> 0..N]
  /\ cur \in [Procs -> Clients \cup {NoClient}]

ClientTypes ==
  /\ connected \in [Clients -> BOOLEAN]
  /\ net \in [Clients -> {"open", "lost", "closed"}]
  /\ mark \in [Clients -> {"no", "swapped", "removed", "close"}]
  /\ closing \in [Clients -> BOOLEAN]

ServiceTypes ==
  /\ registered \subseteq Services /\ desired \subseteq Services /\ refused \subseteq Services
  /\ regs \in [Clients -> SUBSET Services]
  /\ subs \in [Clients -> SUBSET Services]

NodeTypes ==
  /\ early \in BOOLEAN
  /\ state \in LifeStates
  /\ owner \in Procs \cup {Nobody}
  /\ published \in Clients \cup {NoClient}
  /\ trigger \in BOOLEAN /\ stopped \in BOOLEAN
  /\ faults \in 0..MaxFaults

\* TypeOK by the parts of the Node it is about: its goroutines, its clients,
\* the services and the Node itself.
LEMMA Types ==
  TypeOK <=> setup \in Setups /\ ProcTypes /\ ClientTypes /\ ServiceTypes /\ NodeTypes
  BY Zenon DEF TypeOK, ProcTypes, ClientTypes, ServiceTypes, NodeTypes, Jobs

\* The goroutines: Start and Stop, the recovery loop, and a caller of the Node.
LEMMA TheProcs == "life" \in Procs /\ "recover" \in Procs /\ "user" \in Procs
  BY DEF Procs

\* A Node hosts at least one service.
LEMMA ServiceCount ==
  ASSUME setup \in Setups PROVE N \in Nat \ {0}
  BY LinkAssumption DEF N

\* No step changes the setup of the Node.
LEMMA SetupKept ==
  ASSUME [Next]_vars
  PROVE  setup' = setup
<1>s. ASSUME UNCHANGED <<setup>> PROVE setup' = setup
  BY <1>s, Zenon
<1>u. ASSUME \/ UNCHANGED vars \/ StartNode \/ StopNode \/ Launch \/ Flag \/ Names
             \/ StartNext \/ Halt \/ Join \/ Undo \/ Unflag \/ CloseNetwork
             \/ CloseClient \/ Finish \/ Await \/ Attempt \/ Check \/ Restore
             \/ Backoff \/ Lookup
             \/ \E k \in Services : Subscribe(k)
             \/ \E p \in Procs :
                  \/ Cached(p) \/ Guard(p) \/ Lock(p) \/ Dial(p) \/ Store(p)
                  \/ Hello(p) \/ Publish(p) \/ Request(p)
             \/ \E c \in Clients :
                  \/ Break(c) \/ ConnectionBroken(c) \/ HeartbeatFails(c)
                  \/ RemoveClient(c) \/ StartMainRecovery(c) \/ CloseMarked(c)
      PROVE  UNCHANGED <<setup>>
  BY <1>u, Zenon DEF vars, faultVars, StartNode, StopNode, Launch, Flag, Names, StartNext,
     Halt, Join, Undo, Unflag, CloseNetwork, CloseClient, Finish, Await, Attempt, Check,
     Restore, Backoff, Lookup, Subscribe, Cached, Guard, Lock, Dial, Store, Hello, Publish,
     Request, Break, ConnectionBroken, HeartbeatFails, RemoveClient, StartMainRecovery,
     CloseMarked
<1> QED
  BY <1>s, <1>u, Zenon DEF Next, Life, Recovery, Connect, MarkDisconnected

\* The hosted services stay the same.
LEMMA CountKept ==
  ASSUME setup \in Setups, [Next]_vars
  PROVE  setup' \in Setups /\ N \in Nat \ {0} /\ N' = N /\ Services' = Services
  BY SetupKept, ServiceCount DEF N, Services

\* Every step leaves the goroutines well formed: the loops of Start, of the
\* rollback and of restoreMainNodeState stay within the hosted services.
LEMMA ProcTypesStep ==
  ASSUME setup \in Setups, ProcTypes, NodeTypes, ServiceTypes, Placed, [Next]_vars
  PROVE  ProcTypes'
<1>a. N \in Nat \ {0} /\ N' = N
  BY CountKept, Zenon
<1>b. /\ idx["user"] # 0 /\ idx["recover"] # 0
      /\ idx["life"] = 0 => pc["life"] \in {"undo", "network", "close", "finish", "done"}
  BY Zenon DEF Placed
<1>c. published \in Clients \cup {NoClient}
  BY Zenon DEF NodeTypes
<1> USE <1>a, TheProcs DEF ProcTypes
<1>s. ASSUME UNCHANGED <<pc, job, idx, cur>> PROVE ProcTypes'
  BY <1>s, Zenon DEF Steps, Jobs
<1>u. ASSUME \/ UNCHANGED vars
             \/ \E c \in Clients :
                  \/ Break(c) \/ ConnectionBroken(c) \/ HeartbeatFails(c)
                  \/ RemoveClient(c) \/ StartMainRecovery(c) \/ CloseMarked(c)
      PROVE  UNCHANGED <<pc, job, idx, cur>>
  BY <1>u, Zenon DEF vars, procVars, Break, ConnectionBroken, HeartbeatFails, RemoveClient,
     StartMainRecovery, CloseMarked
<1>1. ASSUME StartNode PROVE ProcTypes'
  BY <1>1, <1>b, <1>c DEF Steps, Jobs, StartNode
<1>2. ASSUME StopNode PROVE ProcTypes'
  BY <1>2, <1>b, <1>c DEF Steps, Jobs, StopNode, Goto
<1>3. ASSUME Launch PROVE ProcTypes'
  BY <1>3, <1>b, <1>c DEF Steps, Jobs, Launch, Work, Goto, Abort, AfterError, Release
<1>4. ASSUME Flag PROVE ProcTypes'
  BY <1>4, <1>b, <1>c, Zenon DEF Steps, Jobs, Flag, Goto
<1>5. ASSUME Names PROVE ProcTypes'
  BY <1>5, <1>b, <1>c DEF Steps, Jobs, Names, Work, Goto
<1>6. ASSUME StartNext PROVE ProcTypes'
  BY <1>6, <1>b, <1>c DEF Steps, Jobs, StartNext, Work, Goto
<1>7. ASSUME Halt PROVE ProcTypes'
  BY <1>7, <1>b, <1>c, Zenon DEF Steps, Jobs, Halt, Goto
<1>8. ASSUME Join PROVE ProcTypes'
  BY <1>8, <1>b, <1>c DEF Steps, Jobs, Join, Work, Goto
<1>9. ASSUME Undo PROVE ProcTypes'
  BY <1>9, <1>b, <1>c DEF Steps, Jobs, Undo, AllUndone, Goto, Work
<1>10. ASSUME Unflag PROVE ProcTypes'
  BY <1>10, <1>b, <1>c DEF Steps, Jobs, Unflag, Work, Goto
<1>11. ASSUME CloseNetwork PROVE ProcTypes'
  BY <1>11, <1>b, <1>c, Zenon DEF Steps, Jobs, CloseNetwork, Goto
<1>12. ASSUME CloseClient PROVE ProcTypes'
  BY <1>12, <1>b, <1>c, Zenon DEF Steps, Jobs, CloseClient, Goto
<1>13. ASSUME Finish PROVE ProcTypes'
  BY <1>13, <1>b, <1>c, Zenon DEF Steps, Jobs, Finish, Goto
<1>14. ASSUME Await PROVE ProcTypes'
  BY <1>14, <1>b, <1>c DEF Steps, Jobs, Await, Recover, Goto
<1>15. ASSUME Attempt PROVE ProcTypes'
  BY <1>15, <1>b, <1>c, Zenon DEF Steps, Jobs, Attempt, Recover, Goto
<1>16. ASSUME Check PROVE ProcTypes'
  BY <1>16, <1>b, <1>c DEF Steps, Jobs, Check, Work, Goto, Drop, Abort, AfterError, Release
<1>17. ASSUME Restore PROVE ProcTypes'
  BY <1>17, <1>b, <1>c DEF Steps, Jobs, Restore, Drop, Abort, Goto, AfterError, Release,
     Restored, Work
<1>18. ASSUME Backoff PROVE ProcTypes'
  BY <1>18, <1>b, <1>c DEF Steps, Jobs, Backoff, Recover, Goto
<1>19. ASSUME Lookup PROVE ProcTypes'
  BY <1>19, <1>b, <1>c DEF Steps, Jobs, Lookup, Work, Goto
<1>20. ASSUME NEW k \in Services, Subscribe(k) PROVE ProcTypes'
  <2>1. CASE k \in registered
    <3>1. /\ pc' = [pc EXCEPT !["user"] = "cached"]
          /\ job' = [job EXCEPT !["user"] = "subscribe"]
          /\ idx' = [idx EXCEPT !["user"] = k] /\ cur' = cur
      BY <1>20, <2>1, Zenon DEF Subscribe, Work, Goto
    <3> QED
      BY <3>1 DEF Services, Steps, Jobs
  <2>2. CASE k \notin registered
    BY <1>20, <2>2, Zenon DEF Subscribe, procVars
  <2> QED
    BY <2>1, <2>2, Zenon
<1>21. ASSUME NEW p \in Procs, Cached(p) PROVE ProcTypes'
  BY <1>21, <1>b, <1>c DEF Steps, Jobs, Cached, Got, Goto
<1>22. ASSUME NEW p \in Procs, Guard(p) PROVE ProcTypes'
  BY <1>22, <1>b, <1>c DEF Steps, Jobs, Guard, Abort, Goto, AfterError, Release
<1>23. ASSUME NEW p \in Procs, Lock(p) PROVE ProcTypes'
  BY <1>23, <1>b, <1>c DEF Steps, Jobs, Lock, Goto, Got
<1>24. ASSUME NEW p \in Procs, Dial(p) PROVE ProcTypes'
  BY <1>24, <1>b, <1>c DEF Steps, Jobs, Dial, Goto, Abort, AfterError, Release
<1>25. ASSUME NEW p \in Procs, Store(p) PROVE ProcTypes'
  BY <1>25, <1>b, <1>c, Zenon DEF Steps, Jobs, Store, Goto
<1>26. ASSUME NEW p \in Procs, Hello(p) PROVE ProcTypes'
  BY <1>26, <1>b, <1>c DEF Steps, Jobs, Hello, Goto, Drop, Abort, AfterError, Release
<1>27. ASSUME NEW p \in Procs, Publish(p) PROVE ProcTypes'
  BY <1>27, <1>b, <1>c DEF Steps, Jobs, Publish, Goto, Release, Got, Drop, Abort, AfterError
<1>28. ASSUME NEW p \in Procs, Request(p) PROVE ProcTypes'
  BY <1>28, <1>b, <1>c DEF Steps, Jobs, Request, Goto, AfterRequest, Release, Abort,
     AfterError
<1> QED
  BY <1>s, <1>u, <1>1, <1>2, <1>3, <1>4, <1>5, <1>6, <1>7, <1>8, <1>9, <1>10, <1>11, <1>12,
     <1>13, <1>14, <1>15, <1>16, <1>17, <1>18, <1>19, <1>20, <1>21, <1>22, <1>23, <1>24,
     <1>25, <1>26, <1>27, <1>28, Zenon DEF Next, Life, Recovery, Connect, MarkDisconnected

\* Closing a client keeps its flags well formed.
LEMMA ClosedType ==
  ASSUME ClientTypes, NEW c, CloseTransport(c) PROVE ClientTypes'
<1>1. connected' \in [Clients -> BOOLEAN]
  BY Zenon DEF ClientTypes, CloseTransport
<1>2. net' \in [Clients -> {"open", "lost", "closed"}]
  BY Zenon DEF ClientTypes, CloseTransport
<1> QED
  BY <1>1, <1>2, Zenon DEF ClientTypes, CloseTransport

\* Every step leaves the clients well formed; a client that was never dialled
\* is never touched.
LEMMA ClientTypesStep ==
  ASSUME ClientTypes, ProcTypes, Separate, [Next]_vars
  PROVE  ClientTypes'
<1> USE DEF ClientTypes
<1>s. ASSUME UNCHANGED <<connected, net, mark, closing>> PROVE ClientTypes'
  BY <1>s, Zenon
<1>u. ASSUME \/ UNCHANGED vars \/ StartNode \/ StopNode \/ Launch \/ Flag \/ Names
             \/ StartNext \/ Halt \/ Join \/ Undo \/ Unflag \/ CloseNetwork \/ Finish
             \/ Await \/ Attempt \/ Backoff \/ Lookup
             \/ \E k \in Services : Subscribe(k)
             \/ \E p \in Procs : Cached(p) \/ Guard(p) \/ Request(p)
      PROVE  UNCHANGED <<connected, net, mark, closing>>
  BY <1>u, Zenon DEF vars, clientVars, StartNode, StopNode, Launch, Flag, Names, StartNext,
     Halt, Join, Undo, Unflag, CloseNetwork, Finish, Await, Attempt, Backoff, Lookup,
     Subscribe, Cached, Guard, Request
<1>1. ASSUME CloseClient PROVE ClientTypes'
  BY <1>1, ClosedType, <1>s, Zenon DEF CloseClient
<1>2. ASSUME Check PROVE ClientTypes'
  BY <1>2, ClosedType, <1>s, Zenon DEF Check, Drop, clientVars
<1>3. ASSUME Restore PROVE ClientTypes'
  BY <1>3, ClosedType, <1>s, Zenon DEF Restore, Drop, clientVars
<1>4. ASSUME NEW p \in Procs, Lock(p) PROVE ClientTypes'
  BY <1>4, ClosedType, <1>s, Zenon DEF Lock, clientVars
<1>5. ASSUME NEW p \in Procs, Dial(p) PROVE ClientTypes'
  BY <1>5, Zenon DEF Dial
<1>6. ASSUME NEW p \in Procs, Store(p) PROVE ClientTypes'
  BY <1>6, Zenon DEF Store
<1>7. ASSUME NEW p \in Procs, Hello(p) PROVE ClientTypes'
  BY <1>7, ClosedType, <1>s, Zenon DEF Hello, Drop, clientVars
<1>8. ASSUME NEW p \in Procs, Publish(p) PROVE ClientTypes'
  BY <1>8, ClosedType, <1>s, Zenon DEF Publish, Drop, clientVars
<1>9. ASSUME NEW c \in Clients, Break(c) PROVE ClientTypes'
  BY <1>9, Zenon DEF Break
<1>10. ASSUME NEW c \in Clients, ConnectionBroken(c) PROVE ClientTypes'
  BY <1>10, Zenon DEF ConnectionBroken, Swap
<1>11. ASSUME NEW c \in Clients, HeartbeatFails(c) PROVE ClientTypes'
  BY <1>11, Zenon DEF HeartbeatFails, Swap
<1>12. ASSUME NEW c \in Clients, RemoveClient(c) PROVE ClientTypes'
  BY <1>12, Zenon DEF RemoveClient
<1>13. ASSUME NEW c \in Clients, StartMainRecovery(c) PROVE ClientTypes'
  BY <1>13, Zenon DEF StartMainRecovery
<1>14. ASSUME NEW c \in Clients, CloseMarked(c) PROVE ClientTypes'
  BY <1>14, Zenon DEF CloseMarked
<1> QED
  BY <1>s, <1>u, <1>1, <1>2, <1>3, <1>4, <1>5, <1>6, <1>7, <1>8, <1>9, <1>10, <1>11, <1>12,
     <1>13, <1>14, Zenon DEF Next, Life, Recovery, Connect, MarkDisconnected

\* Every step leaves the registrations and subscriptions well formed.
LEMMA ServiceTypesStep ==
  ASSUME setup \in Setups, ServiceTypes, ClientTypes, ProcTypes, Placed, Separate,
         [Next]_vars
  PROVE  ServiceTypes'
<1>a. N \in Nat \ {0} /\ Services' = Services
  BY CountKept, Zenon
<1>b. \A p \in Procs : idx[p] # 0 => idx[p] \in Services
  BY <1>a DEF Services, ProcTypes
<1>c. /\ idx["user"] # 0 /\ idx["recover"] # 0
      /\ pc["life"] \in {"request", "restore", "launch", "flag", "unflag"} =>
           idx["life"] # 0
  BY Zenon DEF Placed, Connecting, Undoing
<1>d. \A p \in Procs :
        pc[p] \in {"request", "restore", "launch", "flag", "unflag"} => idx[p] \in Services
  BY <1>b, <1>c, Zenon DEF Procs
<1>e. \A p \in Procs : pc[p] \in {"request", "restore"} => cur[p] \in Clients
  BY Zenon DEF Separate, Private
<1> USE <1>a, TheProcs DEF ServiceTypes
<1>s. ASSUME UNCHANGED <<setup, registered, desired, refused, regs, subs>>
      PROVE  ServiceTypes'
  BY <1>s, Zenon
<1>u. ASSUME \/ UNCHANGED vars \/ StartNode \/ StopNode \/ Names \/ StartNext \/ Halt
             \/ Join \/ Undo \/ CloseNetwork \/ CloseClient \/ Finish \/ Await
             \/ Attempt \/ Backoff \/ Lookup
             \/ \E p \in Procs : Cached(p) \/ Lock(p) \/ Store(p)
             \/ \E c \in Clients :
                  \/ Break(c) \/ ConnectionBroken(c) \/ HeartbeatFails(c)
                  \/ RemoveClient(c) \/ StartMainRecovery(c) \/ CloseMarked(c)
      PROVE  UNCHANGED <<setup, registered, desired, refused, regs, subs>>
  BY <1>u, Zenon DEF vars, serviceVars, mainVars, faultVars, StartNode, StopNode, Names,
     StartNext, Halt, Join, Undo, CloseNetwork, CloseClient, Finish, Await, Attempt,
     Backoff, Lookup, Cached, Lock, Store, Break, ConnectionBroken, HeartbeatFails,
     RemoveClient, StartMainRecovery, CloseMarked
<1>1. ASSUME Launch PROVE ServiceTypes'
  BY <1>1, <1>b, <1>c, <1>d, <1>e, Zenon DEF Launch, Abort, mainVars, faultVars
<1>2. ASSUME Flag PROVE ServiceTypes'
  BY <1>2, <1>b, <1>c, <1>d, <1>e, Zenon DEF Flag, mainVars, faultVars
<1>3. ASSUME Unflag PROVE ServiceTypes'
  BY <1>3, <1>b, <1>c, <1>d, <1>e, Zenon DEF Unflag, mainVars, faultVars
<1>4. ASSUME Check PROVE ServiceTypes'
  BY <1>4, <1>b, <1>c, <1>d, <1>e, Zenon DEF Check, serviceVars, Drop, Abort, mainVars,
     faultVars
<1>5. ASSUME Restore PROVE ServiceTypes'
  BY <1>5, <1>b, <1>c, <1>d, <1>e DEF Restore, Drop, Abort, mainVars, serviceVars, Grant,
     faultVars
<1>6. ASSUME NEW k \in Services, Subscribe(k) PROVE ServiceTypes'
  BY <1>6, <1>b, <1>c, <1>d, <1>e, Zenon DEF Subscribe, mainVars, faultVars
<1>7. ASSUME NEW p \in Procs, Guard(p) PROVE ServiceTypes'
  BY <1>7, <1>b, <1>c, <1>d, <1>e DEF Guard, Abort, serviceVars, mainVars
<1>8. ASSUME NEW p \in Procs, Dial(p) PROVE ServiceTypes'
  BY <1>8, <1>b, <1>c, <1>d, <1>e DEF Dial, serviceVars, Abort, mainVars, faultVars
<1>9. ASSUME NEW p \in Procs, Hello(p) PROVE ServiceTypes'
  BY <1>9, <1>b, <1>c, <1>d, <1>e, Zenon DEF Hello, serviceVars, Drop, Abort, mainVars,
     faultVars
<1>10. ASSUME NEW p \in Procs, Publish(p) PROVE ServiceTypes'
  BY <1>10, <1>b, <1>c, <1>d, <1>e DEF Publish, serviceVars, Drop, Abort, mainVars,
     faultVars
<1>11. ASSUME NEW p \in Procs, Request(p) PROVE ServiceTypes'
  BY <1>11, <1>b, <1>c, <1>d, <1>e DEF Request, Grant, Abort, mainVars, faultVars
<1> QED
  BY <1>s, <1>u, <1>1, <1>2, <1>3, <1>4, <1>5, <1>6, <1>7, <1>8, <1>9, <1>10, <1>11, Zenon
     DEF Next, Life, Recovery, Connect, MarkDisconnected

\* Every step leaves the state of the Node, clientCreateMu and the published
\* client well formed.
LEMMA NodeTypesStep ==
  ASSUME NodeTypes, ProcTypes, [Next]_vars
  PROVE  NodeTypes'
<1>a. MaxFaults \in Nat
  BY LinkAssumption
<1>b. \A p \in Procs : cur[p] \in Clients \cup {NoClient}
  BY Zenon DEF ProcTypes
<1> USE <1>a, TheProcs DEF NodeTypes
<1>s. ASSUME UNCHANGED <<state, owner, published, trigger, stopped, faults, early>>
      PROVE  NodeTypes'
  BY <1>s, Zenon DEF LifeStates
<1>u. ASSUME \/ UNCHANGED vars \/ Flag \/ Names \/ Join \/ Undo \/ Unflag \/ Attempt
             \/ Backoff \/ Lookup
             \/ \E k \in Services : Subscribe(k)
             \/ \E p \in Procs : Cached(p) \/ Store(p)
             \/ \E c \in Clients : ConnectionBroken(c) \/ CloseMarked(c)
      PROVE  UNCHANGED <<state, owner, published, trigger, stopped, faults, early>>
  BY <1>u, Zenon DEF vars, recoveryVars, faultVars, Flag, Names, Join, Undo, Unflag,
     Attempt, Backoff, Lookup, Subscribe, Cached, Store, ConnectionBroken, CloseMarked
<1>1. ASSUME StartNode PROVE NodeTypes'
  BY <1>1, <1>b DEF LifeStates, StartNode, Fault, recoveryVars, faultVars
<1>2. ASSUME StopNode PROVE NodeTypes'
  BY <1>2, <1>b, Zenon DEF LifeStates, StopNode, recoveryVars, faultVars
<1>3. ASSUME Launch PROVE NodeTypes'
  BY <1>3, <1>b DEF LifeStates, Launch, Fault, recoveryVars, faultVars
<1>4. ASSUME StartNext PROVE NodeTypes'
  BY <1>4, <1>b DEF LifeStates, StartNext, recoveryVars, faultVars
<1>5. ASSUME Halt PROVE NodeTypes'
  BY <1>5, <1>b, Zenon DEF LifeStates, Halt
<1>6. ASSUME CloseNetwork PROVE NodeTypes'
  BY <1>6, <1>b, Zenon DEF LifeStates, CloseNetwork, recoveryVars, faultVars
<1>7. ASSUME CloseClient PROVE NodeTypes'
  BY <1>7, <1>b, Zenon DEF LifeStates, CloseClient, Unlock, recoveryVars, faultVars
<1>8. ASSUME Finish PROVE NodeTypes'
  BY <1>8, <1>b, Zenon DEF LifeStates, Finish, recoveryVars, faultVars
<1>9. ASSUME Await PROVE NodeTypes'
  BY <1>9, <1>b, Zenon DEF LifeStates, Await, faultVars
<1>10. ASSUME Check PROVE NodeTypes'
  BY <1>10, <1>b, Zenon DEF LifeStates, Check, Drop, Unlock, recoveryVars, faultVars
<1>11. ASSUME Restore PROVE NodeTypes'
  BY <1>11, <1>b DEF LifeStates, Restore, Drop, Unlock, RequestFails, Fault, recoveryVars,
     faultVars
<1>12. ASSUME NEW p \in Procs, Guard(p) PROVE NodeTypes'
  BY <1>12, <1>b, Zenon DEF LifeStates, Guard, recoveryVars
<1>13. ASSUME NEW p \in Procs, Lock(p) PROVE NodeTypes'
  BY <1>13, <1>b, Zenon DEF LifeStates, Lock, recoveryVars, faultVars
<1>14. ASSUME NEW p \in Procs, Dial(p) PROVE NodeTypes'
  BY <1>14, <1>b DEF LifeStates, Dial, Fault, Unlock, recoveryVars, faultVars
<1>15. ASSUME NEW p \in Procs, Hello(p) PROVE NodeTypes'
  BY <1>15, <1>b DEF LifeStates, Hello, Fault, Drop, Unlock, recoveryVars, faultVars
<1>16. ASSUME NEW p \in Procs, Publish(p) PROVE NodeTypes'
  BY <1>16, <1>b, Zenon DEF LifeStates, Publish, Unlock, Drop, recoveryVars, faultVars
<1>17. ASSUME NEW p \in Procs, Request(p) PROVE NodeTypes'
  BY <1>17, <1>b DEF LifeStates, Request, RequestFails, Fault, recoveryVars, faultVars
<1>18. ASSUME NEW c \in Clients, Break(c) PROVE NodeTypes'
  BY <1>18, <1>b DEF LifeStates, Break, Lost, Fault, recoveryVars
<1>19. ASSUME NEW c \in Clients, HeartbeatFails(c) PROVE NodeTypes'
  <2>1. early' \in BOOLEAN
    BY <1>19, Zenon DEF HeartbeatFails, Lost
  <2>2. faults' \in 0..MaxFaults
    BY <1>19 DEF HeartbeatFails, Lost, Fault
  <2> QED
    BY <1>19, <2>1, <2>2, Zenon DEF HeartbeatFails, recoveryVars
<1>20. ASSUME NEW c \in Clients, RemoveClient(c) PROVE NodeTypes'
  BY <1>20, <1>b, Zenon DEF LifeStates, RemoveClient, recoveryVars, faultVars
<1>21. ASSUME NEW c \in Clients, StartMainRecovery(c) PROVE NodeTypes'
  BY <1>21, <1>b, Zenon DEF LifeStates, StartMainRecovery, faultVars
<1> QED
  BY <1>s, <1>u, <1>1, <1>2, <1>3, <1>4, <1>5, <1>6, <1>7, <1>8, <1>9, <1>10, <1>11, <1>12,
     <1>13, <1>14, <1>15, <1>16, <1>17, <1>18, <1>19, <1>20, <1>21, Zenon DEF Next, Life,
     Recovery, Connect, MarkDisconnected

-----------------------------------------------------------------------------
(* The link *)

\* The goroutine of Start and Stop is at one step, which no other goroutine
\* takes.
LEMMA LifeAt ==
  ASSUME Placed, Phased
  PROVE  /\ state = "Initial" => pc["life"] = "down"
         /\ state = "Running" => pc["life"] = "up"
  BY Zenon DEF Placed, Phased, Connecting, Undoing

\* Every goroutine keeps to its own steps: the callers of createMainClient go
\* on, after an error too, to the step that their own function continues with.
LEMMA PlacedStep ==
  ASSUME setup \in Setups, ProcTypes, ServiceTypes, Placed, Phased, [Next]_vars
  PROVE  Placed'
<1>a. N \in Nat \ {0}
  BY CountKept, Zenon
<1>b. state \in {"Initial", "Running"} => idx["life"] # 0
  BY LifeAt, Zenon DEF Placed
<1> USE <1>a, TheProcs DEF ProcTypes, Placed, Connecting, Undoing
<1>s. ASSUME UNCHANGED <<pc, job, idx>> PROVE Placed'
  BY <1>s
<1>u. ASSUME \/ UNCHANGED vars
             \/ \E c \in Clients :
                  \/ Break(c) \/ ConnectionBroken(c) \/ HeartbeatFails(c)
                  \/ RemoveClient(c) \/ StartMainRecovery(c) \/ CloseMarked(c)
      PROVE  UNCHANGED <<pc, job, idx>>
  BY <1>u, Zenon DEF vars, procVars, Break, ConnectionBroken, HeartbeatFails, RemoveClient,
     StartMainRecovery, CloseMarked
<1>1. ASSUME StartNode PROVE Placed'
  BY <1>1, <1>b DEF StartNode
<1>2. ASSUME StopNode PROVE Placed'
  BY <1>2, <1>b DEF StopNode, Goto
<1>3. ASSUME Launch PROVE Placed'
  BY <1>3 DEF Launch, Work, Goto, Abort, AfterError, Release
<1>4. ASSUME Flag PROVE Placed'
  BY <1>4, Zenon DEF Flag, Goto
<1>5. ASSUME Names PROVE Placed'
  BY <1>5 DEF Names, Work, Goto
<1>6. ASSUME StartNext PROVE Placed'
  BY <1>6 DEF StartNext, Work, Goto
<1>7. ASSUME Halt PROVE Placed'
  BY <1>7, Zenon DEF Halt, Goto
<1>8. ASSUME Join PROVE Placed'
  BY <1>8, Zenon DEF Join, Work, Goto
<1>9. ASSUME Undo PROVE Placed'
  BY <1>9 DEF Undo, AllUndone, Goto, Work
<1>10. ASSUME Unflag PROVE Placed'
  BY <1>10, Zenon DEF Unflag, Work, Goto
<1>11. ASSUME CloseNetwork PROVE Placed'
  BY <1>11, Zenon DEF CloseNetwork, Goto
<1>12. ASSUME CloseClient PROVE Placed'
  BY <1>12, Zenon DEF CloseClient, Goto
<1>13. ASSUME Finish PROVE Placed'
  BY <1>13, Zenon DEF Finish, Goto
<1>14. ASSUME Await PROVE Placed'
  BY <1>14 DEF Await, Recover, Goto
<1>15. ASSUME Attempt PROVE Placed'
  BY <1>15, Zenon DEF Attempt, Recover, Goto
<1>16. ASSUME Check PROVE Placed'
  BY <1>16 DEF Check, Work, Goto, Drop, Abort, AfterError, Release
<1>17. ASSUME Restore PROVE Placed'
  BY <1>17 DEF Restore, Drop, Abort, Goto, AfterError, Release, Restored, Work
<1>18. ASSUME Backoff PROVE Placed'
  BY <1>18 DEF Backoff, Recover, Goto
<1>19. ASSUME Lookup PROVE Placed'
  BY <1>19 DEF Lookup, Work, Goto
<1>20. ASSUME NEW k \in Services, Subscribe(k) PROVE Placed'
  <2>1. CASE k \in registered
    <3>1. /\ pc' = [pc EXCEPT !["user"] = "cached"]
          /\ job' = [job EXCEPT !["user"] = "subscribe"]
          /\ idx' = [idx EXCEPT !["user"] = k] /\ k # 0
      BY <1>20, <2>1, <1>a DEF Subscribe, Work, Goto, Services
    <3> QED
      BY <3>1
  <2>2. CASE k \notin registered
    BY <1>20, <2>2, <1>s, Zenon DEF Subscribe, procVars
  <2> QED
    BY <2>1, <2>2, Zenon
<1>21. ASSUME NEW p \in Procs, Cached(p) PROVE Placed'
  BY <1>21 DEF Cached, Got, Goto
<1>22. ASSUME NEW p \in Procs, Guard(p) PROVE Placed'
  BY <1>22 DEF Guard, Abort, Goto, AfterError, Release
<1>23. ASSUME NEW p \in Procs, Lock(p) PROVE Placed'
  BY <1>23 DEF Lock, Goto, Got
<1>24. ASSUME NEW p \in Procs, Dial(p) PROVE Placed'
  BY <1>24 DEF Dial, Goto, Abort, AfterError, Release
<1>25. ASSUME NEW p \in Procs, Store(p) PROVE Placed'
  BY <1>25, Zenon DEF Store, Goto
<1>26. ASSUME NEW p \in Procs, Hello(p) PROVE Placed'
  BY <1>26 DEF Hello, Goto, Drop, Abort, AfterError, Release
<1>27. ASSUME NEW p \in Procs, Publish(p) PROVE Placed'
  BY <1>27 DEF Publish, Goto, Release, Got, Drop, Abort, AfterError
<1>28. ASSUME NEW p \in Procs, Request(p) PROVE Placed'
  BY <1>28 DEF Request, Goto, AfterRequest, Release, Abort, AfterError
<1> QED
  BY <1>s, <1>u, <1>1, <1>2, <1>3, <1>4, <1>5, <1>6, <1>7, <1>8, <1>9, <1>10, <1>11, <1>12,
     <1>13, <1>14, <1>15, <1>16, <1>17, <1>18, <1>19, <1>20, <1>21, <1>22, <1>23, <1>24,
     <1>25, <1>26, <1>27, <1>28, Zenon DEF Next, Life, Recovery, Connect, MarkDisconnected

\* The Node is in the state that Start, Stop or the rollback put it in, and the
\* recovery loop is told to end before anything is undone.
LEMMA PhasedStep ==
  ASSUME ProcTypes, Placed, Phased, [Next]_vars
  PROVE  Phased'
<1> USE TheProcs DEF ProcTypes, Phased, Connecting, Undoing
<1>s. ASSUME UNCHANGED <<state, pc, job, stopped>> PROVE Phased'
  BY <1>s, Zenon
<1>u. ASSUME \/ UNCHANGED vars
             \/ \E c \in Clients :
                  \/ Break(c) \/ ConnectionBroken(c) \/ HeartbeatFails(c)
                  \/ RemoveClient(c) \/ StartMainRecovery(c) \/ CloseMarked(c)
      PROVE  UNCHANGED <<state, pc, job, stopped>>
  BY <1>u, Zenon DEF vars, procVars, recoveryVars, Break, ConnectionBroken, HeartbeatFails,
     RemoveClient, StartMainRecovery, CloseMarked
<1>1. ASSUME StartNode PROVE Phased'
  BY <1>1, LifeAt DEF StartNode, recoveryVars
<1>2. ASSUME StopNode PROVE Phased'
  BY <1>2, LifeAt DEF StopNode, Goto, recoveryVars
<1>3. ASSUME Launch PROVE Phased'
  BY <1>3, Zenon DEF Launch, Work, Goto, Abort, AfterError, Release, recoveryVars
<1>4. ASSUME Flag PROVE Phased'
  BY <1>4, Zenon DEF Flag, Goto, recoveryVars
<1>5. ASSUME Names PROVE Phased'
  BY <1>5 DEF Names, Work, Goto, recoveryVars
<1>6. ASSUME StartNext PROVE Phased'
  BY <1>6 DEF StartNext, Work, Goto, recoveryVars
<1>7. ASSUME Halt PROVE Phased'
  BY <1>7, Zenon DEF Halt, Goto
<1>8. ASSUME Join PROVE Phased'
  BY <1>8, Zenon DEF Join, Work, Goto, recoveryVars
<1>9. ASSUME Undo PROVE Phased'
  BY <1>9 DEF Undo, AllUndone, Goto, Work, recoveryVars
<1>10. ASSUME Unflag PROVE Phased'
  BY <1>10, Zenon DEF Unflag, Work, Goto, recoveryVars
<1>11. ASSUME CloseNetwork PROVE Phased'
  BY <1>11, Zenon DEF CloseNetwork, Goto, recoveryVars
<1>12. ASSUME CloseClient PROVE Phased'
  BY <1>12, Zenon DEF CloseClient, Goto, recoveryVars
<1>13. ASSUME Finish PROVE Phased'
  BY <1>13, Zenon DEF Finish, Goto, recoveryVars
<1>14. ASSUME Await PROVE Phased'
  BY <1>14, Zenon DEF Await, Recover, Goto
<1>15. ASSUME Attempt PROVE Phased'
  BY <1>15, Zenon DEF Attempt, Recover, Goto, recoveryVars
<1>16. ASSUME Check PROVE Phased'
  BY <1>16 DEF Check, Work, Goto, Drop, Abort, AfterError, Release, recoveryVars
<1>17. ASSUME Restore PROVE Phased'
  BY <1>17 DEF Restore, Drop, Abort, Goto, AfterError, Release, Restored, Work, recoveryVars
<1>18. ASSUME Backoff PROVE Phased'
  BY <1>18, Zenon DEF Backoff, Recover, Goto, recoveryVars
<1>19. ASSUME Lookup PROVE Phased'
  BY <1>19, Zenon DEF Lookup, Work, Goto, recoveryVars
<1>20. ASSUME NEW k \in Services, Subscribe(k) PROVE Phased'
  BY <1>20 DEF Subscribe, Work, Goto, procVars, recoveryVars
<1>21. ASSUME NEW p \in Procs, Cached(p) PROVE Phased'
  BY <1>21 DEF Cached, Got, Goto, recoveryVars
<1>22. ASSUME NEW p \in Procs, Guard(p) PROVE Phased'
  BY <1>22 DEF Guard, Abort, Goto, AfterError, Release, recoveryVars
<1>23. ASSUME NEW p \in Procs, Lock(p) PROVE Phased'
  BY <1>23 DEF Lock, Goto, Got, recoveryVars
<1>24. ASSUME NEW p \in Procs, Dial(p) PROVE Phased'
  BY <1>24 DEF Dial, Goto, Abort, AfterError, Release, recoveryVars
<1>25. ASSUME NEW p \in Procs, Store(p) PROVE Phased'
  BY <1>25, Zenon DEF Store, Goto, recoveryVars
<1>26. ASSUME NEW p \in Procs, Hello(p) PROVE Phased'
  BY <1>26 DEF Hello, Goto, Drop, Abort, AfterError, Release, recoveryVars
<1>27. ASSUME NEW p \in Procs, Publish(p) PROVE Phased'
  BY <1>27 DEF Publish, Goto, Release, Got, Drop, Abort, AfterError, recoveryVars
<1>28. ASSUME NEW p \in Procs, Request(p) PROVE Phased'
  <2>1. /\ job["life"] \in Jobs /\ job["life"] # "lookup"
        /\ pc["life"] = "request" => job["life"] # "connect"
    BY Zenon DEF Placed
  <2> QED
    BY <1>28, <2>1 DEF Jobs, Request, Goto, AfterRequest, Release, Abort, AfterError,
       recoveryVars
<1> QED
  BY <1>s, <1>u, <1>1, <1>2, <1>3, <1>4, <1>5, <1>6, <1>7, <1>8, <1>9, <1>10, <1>11, <1>12,
     <1>13, <1>14, <1>15, <1>16, <1>17, <1>18, <1>19, <1>20, <1>21, <1>22, <1>23, <1>24,
     <1>25, <1>26, <1>27, <1>28, Zenon DEF Next, Life, Recovery, Connect, MarkDisconnected

\* The steps of Start, Stop, the recovery loop and the callers outside of
\* clientCreateMu.
LEMMA AsideSteps ==
  ASSUME ProcTypes, Placed, Phased,
         \/ StartNode \/ StopNode \/ Launch \/ Flag \/ Names \/ StartNext \/ Halt \/ Join
         \/ Undo \/ Unflag \/ Finish \/ Await \/ Attempt \/ Backoff
         \/ Lookup \/ (\E k \in Services : Subscribe(k))
         \/ \E p \in Procs : Cached(p) \/ Guard(p) \/ Request(p)
  PROVE  Aside
<1>a. pc \in [Procs -> Steps] /\ cur \in [Procs -> Clients \cup {NoClient}]
  BY Zenon DEF ProcTypes
<1>b. /\ state = "Initial" => pc["life"] = "down" /\ pc["recover"] = "down"
      /\ state = "Running" => pc["life"] = "up"
  BY LifeAt, Zenon DEF Phased
<1> USE <1>a, TheProcs DEF Aside, Locked, clientVars
<1>1. ASSUME StartNode PROVE Aside
  BY <1>1, <1>b, Zenon DEF StartNode
<1>2. ASSUME StopNode PROVE Aside
  BY <1>2, <1>b, Zenon DEF StopNode, Goto
<1>3. ASSUME Launch PROVE Aside
  BY <1>3 DEF Launch, Work, Goto, Abort, AfterError, Release
<1>4. ASSUME Flag PROVE Aside
  BY <1>4, Zenon DEF Flag, Goto
<1>5. ASSUME Names PROVE Aside
  BY <1>5, Zenon DEF Names, Work, Goto
<1>6. ASSUME StartNext PROVE Aside
  BY <1>6, Zenon DEF StartNext, Work, Goto
<1>7. ASSUME Halt PROVE Aside
  BY <1>7, Zenon DEF Halt, Goto
<1>8. ASSUME Join PROVE Aside
  BY <1>8, Zenon DEF Join, Work, Goto
<1>9. ASSUME Undo PROVE Aside
  BY <1>9, Zenon DEF Undo, Goto, Work
<1>10. ASSUME Unflag PROVE Aside
  BY <1>10, Zenon DEF Unflag, Work, Goto
<1>11. ASSUME Finish PROVE Aside
  BY <1>11, Zenon DEF Finish, Goto
<1>12. ASSUME Await PROVE Aside
  BY <1>12, Zenon DEF Await, Recover, Goto
<1>13. ASSUME Attempt PROVE Aside
  BY <1>13, Zenon DEF Attempt, Recover, Goto
<1>14. ASSUME Backoff PROVE Aside
  BY <1>14, Zenon DEF Backoff, Recover, Goto
<1>15. ASSUME Lookup PROVE Aside
  BY <1>15, Zenon DEF Lookup, Work, Goto
<1>16. ASSUME NEW k \in Services, Subscribe(k) PROVE Aside
  BY <1>16 DEF Subscribe, Work, Goto, procVars
<1>17. ASSUME NEW p \in Procs, Cached(p) PROVE Aside
  BY <1>17 DEF Cached, Usable, Got, Goto
<1>18. ASSUME NEW p \in Procs, Guard(p) PROVE Aside
  <2>1. CASE Abort(p)
    BY <1>18, <2>1 DEF Guard, Abort, Goto, AfterError, Release
  <2>2. CASE Goto(p, "lock") /\ UNCHANGED cur
    BY <1>18, <2>2, Zenon DEF Guard, Goto
  <2> QED
    BY <1>18, <2>1, <2>2, Zenon DEF Guard
<1>19. ASSUME NEW p \in Procs, Request(p) PROVE Aside
  BY <1>19 DEF Request, Goto, AfterRequest, Release, Abort, AfterError
<1> QED
  BY <1>1, <1>2, <1>3, <1>4, <1>5, <1>6, <1>7, <1>8, <1>9, <1>10, <1>11, <1>12,
     <1>13, <1>14, <1>15, <1>16, <1>17, <1>18, <1>19, Zenon

\* clientCreateMu excludes: whoever takes it finds or makes nothing published,
\* and publishing releases it.
LEMMA ExclusiveStep ==
  ASSUME ProcTypes, NodeTypes, Placed, Phased, Exclusive, [Next]_vars
  PROVE  Exclusive'
<1>a. pc \in [Procs -> Steps] /\ Nobody \notin Procs
  BY Zenon DEF ProcTypes, Procs, Nobody
<1> USE <1>a, TheProcs DEF Exclusive, Locked
<1>s. ASSUME UNCHANGED <<pc, owner, published>> PROVE Exclusive'
  BY <1>s, Zenon
<1>u. ASSUME \/ UNCHANGED vars
             \/ \E c \in Clients :
                  \/ Break(c) \/ ConnectionBroken(c) \/ HeartbeatFails(c)
                  \/ StartMainRecovery(c) \/ CloseMarked(c)
      PROVE  UNCHANGED <<pc, owner, published>>
  BY <1>u, Zenon DEF vars, procVars, Break, ConnectionBroken, HeartbeatFails,
     StartMainRecovery, CloseMarked
<1>x. ASSUME \/ StartNode \/ StopNode \/ Launch \/ Flag \/ Names \/ StartNext \/ Halt \/ Join
             \/ Undo \/ Unflag \/ Finish \/ Await \/ Attempt \/ Backoff
             \/ Lookup \/ (\E k \in Services : Subscribe(k))
             \/ \E p \in Procs : Cached(p) \/ Guard(p) \/ Request(p)
      PROVE  Exclusive'
  <2>1. Aside
    BY <1>x, AsideSteps, Zenon
  <2> QED
    BY <2>1, Zenon DEF Aside
<1>1. ASSUME CloseNetwork PROVE Exclusive'
  BY <1>1, Zenon DEF CloseNetwork, MayLock, Goto
<1>2. ASSUME CloseClient PROVE Exclusive'
  BY <1>2, Zenon DEF CloseClient, Unlock, Goto
<1>3. ASSUME Check PROVE Exclusive'
  BY <1>3 DEF Check, Work, Goto, Drop, Unlock, Abort, AfterError
<1>4. ASSUME Restore PROVE Exclusive'
  BY <1>4 DEF Restore, Drop, Unlock, Abort, Goto, AfterError, Restored, Work
<1>5. ASSUME NEW p \in Procs, Lock(p) PROVE Exclusive'
  BY <1>5 DEF Lock, MayLock, Goto, Got
<1>6. ASSUME NEW p \in Procs, Dial(p) PROVE Exclusive'
  BY <1>6 DEF Dial, Goto, Unlock, Abort, AfterError
<1>7. ASSUME NEW p \in Procs, Store(p) PROVE Exclusive'
  BY <1>7, Zenon DEF Store, Goto
<1>8. ASSUME NEW p \in Procs, Hello(p) PROVE Exclusive'
  BY <1>8 DEF Hello, Goto, Drop, Unlock, Abort, AfterError
<1>9. ASSUME NEW p \in Procs, Publish(p) PROVE Exclusive'
  BY <1>9 DEF Publish, Unlock, Goto, Got, Drop, Abort, AfterError
<1>10. ASSUME NEW c \in Clients, RemoveClient(c) PROVE Exclusive'
  BY <1>10, Zenon DEF RemoveClient, procVars
<1> QED
  BY <1>s, <1>u, <1>x, <1>1, <1>2, <1>3, <1>4, <1>5, <1>6, <1>7, <1>8, <1>9, <1>10, Zenon
     DEF Next, Life, Recovery, Connect, MarkDisconnected

\* A client that is being built stays with the goroutine that dialled it until
\* it is published.
LEMMA SeparateStep ==
  ASSUME ProcTypes, ClientTypes, NodeTypes, Placed, Phased, Exclusive, Separate,
         Accounted, [Next]_vars
  PROVE  Separate'
<1>a. /\ pc \in [Procs -> Steps] /\ cur \in [Procs -> Clients \cup {NoClient}]
      /\ mark \in [Clients -> {"no", "swapped", "removed", "close"}]
      /\ published \in Clients \cup {NoClient}
      /\ NoClient \notin Clients
  BY LinkAssumption, Zenon DEF ProcTypes, ClientTypes, NodeTypes
<1>b. \A p \in Procs : pc[p] \in Private => owner = p /\ owner # Nobody /\ published = NoClient
  BY DEF Exclusive, Private, Locked, Procs, Nobody
<1>c. \A p \in Procs : pc[p] = "store" => ~connected[cur[p]]
  BY <1>a, <1>b DEF Accounted, Separate, Private, Held
<1> USE <1>a, TheProcs DEF Separate, Private
<1>e. ASSUME NEW p \in Procs, Abort(p), UNCHANGED mark PROVE Separate'
  <2>1. /\ pc'[p] \notin Private \cup {"request"} /\ cur'[p] = NoClient
        /\ \A q \in Procs \ {p} : pc'[q] = pc[q] /\ cur'[q] = cur[q]
    BY <1>e DEF Abort, Goto, AfterError, Release
  <2> QED
    BY <1>e, <2>1
<1>s. ASSUME UNCHANGED <<pc, cur, mark>> PROVE Separate'
  BY <1>s, Zenon
<1>u. ASSUME \/ UNCHANGED vars
             \/ \E c \in Clients : Break(c)
      PROVE  UNCHANGED <<pc, cur, mark>>
  BY <1>u, Zenon DEF vars, procVars, clientVars, Break
<1>x. ASSUME \/ StartNode \/ StopNode \/ Launch \/ Flag \/ Names \/ StartNext \/ Halt \/ Join
             \/ Undo \/ Unflag \/ Finish \/ Await \/ Attempt \/ Backoff
             \/ Lookup \/ (\E k \in Services : Subscribe(k))
             \/ \E p \in Procs : Cached(p) \/ Guard(p) \/ Request(p)
      PROVE  Separate'
  <2>1. Aside
    BY <1>x, AsideSteps, Zenon
  <2> QED
    BY <2>1, <1>b DEF Aside, Locked, Usable
<1>1. ASSUME CloseNetwork PROVE Separate'
  BY <1>1, <1>b, Zenon DEF CloseNetwork, MayLock, Goto, clientVars
<1>2. ASSUME CloseClient PROVE Separate'
  BY <1>2, <1>b DEF CloseClient, CloseTransport, Goto
<1>3. ASSUME Check PROVE Separate'
  <2>1. CASE Work("recover", "restore", "register", 1) /\ UNCHANGED clientVars
    BY <1>3, <2>1, <1>b, Zenon DEF Check, Work, Goto, clientVars
  <2> QED
    BY <1>3, <2>1, <1>e, Zenon DEF Check, Drop, CloseTransport
<1>4. ASSUME Restore PROVE Separate'
  <2>1. CASE Restored /\ UNCHANGED clientVars
    BY <1>4, <2>1, <1>b DEF Restore, Restored, Work, Goto, clientVars
  <2> QED
    BY <1>4, <2>1, <1>e, Zenon DEF Restore, Drop, CloseTransport
<1>5. ASSUME NEW p \in Procs, Lock(p) PROVE Separate'
  <2>1. /\ owner = Nobody /\ UNCHANGED mark
        /\ pc'[p] \in {"idle", "launch", "dial"} \/ (pc'[p] = "request" /\ cur'[p] \in Clients)
        /\ \A q \in Procs \ {p} : pc'[q] = pc[q] /\ cur'[q] = cur[q]
    BY <1>5 DEF Lock, MayLock, Usable, Goto, Got, clientVars, CloseTransport
  <2> QED
    BY <2>1, <1>b, Zenon
<1>6. ASSUME NEW p \in Procs, Dial(p) PROVE Separate'
  <2>1. ASSUME NEW c \in Clients, Forgotten(c), cur' = [cur EXCEPT ![p] = c], Goto(p, "store"),
               UNCHANGED mark
        PROVE  Separate'
    <3>1. /\ pc'[p] = "store" /\ cur'[p] = c /\ mark'[c] = "no"
          /\ \A q \in Procs \ {p} : pc'[q] = pc[q] /\ cur'[q] = cur[q] /\ cur[q] # c
      BY <2>1, Zenon DEF Forgotten, Goto
    <3> QED
      BY <2>1, <3>1
  <2> QED
    BY <1>6, <2>1, <1>e, Zenon DEF Dial
<1>7. ASSUME NEW p \in Procs, Store(p) PROVE Separate'
  BY <1>7, <1>b, Zenon DEF Store, Goto
<1>8. ASSUME NEW p \in Procs, Hello(p) PROVE Separate'
  <2>1. CASE /\ UNCHANGED <<cur, clientVars>>
             /\ Goto(p, IF p = "recover" THEN "check" ELSE "publish")
    BY <1>8, <2>1 DEF Hello, Goto, clientVars
  <2> QED
    BY <1>8, <2>1, <1>e, Zenon DEF Hello, Drop, CloseTransport
<1>9. ASSUME NEW p \in Procs, Publish(p) PROVE Separate'
  <2>1. CASE /\ UNCHANGED clientVars
             /\ IF p = "recover" THEN Goto(p, "idle") /\ Release(p) ELSE Got(p, cur[p])
    BY <1>9, <2>1, <1>b DEF Publish, Goto, Release, Got, clientVars
  <2> QED
    BY <1>9, <2>1, <1>e, Zenon DEF Publish, Drop, CloseTransport
<1>10. ASSUME NEW c \in Clients, ConnectionBroken(c) PROVE Separate'
  BY <1>10, <1>c DEF ConnectionBroken, Swap, procVars
<1>11. ASSUME NEW c \in Clients, HeartbeatFails(c) PROVE Separate'
  BY <1>11, <1>b, Zenon DEF HeartbeatFails, Swap, procVars
<1>12. ASSUME NEW c \in Clients, RemoveClient(c) PROVE Separate'
  BY <1>12, <1>b, Zenon DEF RemoveClient, procVars
<1>13. ASSUME NEW c \in Clients, StartMainRecovery(c) PROVE Separate'
  BY <1>13, <1>b, Zenon DEF StartMainRecovery, procVars
<1>14. ASSUME NEW c \in Clients, CloseMarked(c) PROVE Separate'
  BY <1>14, <1>b, Zenon DEF CloseMarked, procVars
<1> QED
  BY <1>s, <1>u, <1>x, <1>1, <1>2, <1>3, <1>4, <1>5, <1>6, <1>7, <1>8, <1>9, <1>10, <1>11,
     <1>12, <1>13, <1>14, Zenon DEF Next, Life, Recovery, Connect, MarkDisconnected

\* Giving a new client up disconnects it and leaves the other clients as they
\* are.
LEMMA DropDisconnects ==
  ASSUME ProcTypes, ClientTypes, Exclusive, Accounted, NEW p \in Procs, Drop(p),
         pc[p] \in Locked
  PROVE  \A c \in Clients : ~ connected'[c]
<1>1. owner = p /\ published = NoClient /\ NoClient \notin Clients
  BY LinkAssumption DEF Exclusive, Procs, Nobody
<1>2. \A c \in Clients : connected[c] => c = cur[p]
  BY <1>1, Zenon DEF Accounted, Held
<1> QED
  BY <1>2, Zenon DEF Drop, CloseTransport

\* A client that counts as connected is published or still with the holder of
\* clientCreateMu, in every interleaving of the callbacks with the goroutines.
LEMMA AccountedStep ==
  ASSUME ProcTypes, ClientTypes, NodeTypes, Placed, Phased, Exclusive, Separate,
         Accounted, [Next]_vars
  PROVE  Accounted'
<1>a. /\ pc \in [Procs -> Steps] /\ cur \in [Procs -> Clients \cup {NoClient}]
      /\ published \in Clients \cup {NoClient}
      /\ NoClient \notin Clients /\ Nobody \notin Procs
  BY LinkAssumption, Zenon DEF ProcTypes, NodeTypes, Procs, Nobody
<1>t. /\ connected \in [Clients -> BOOLEAN]
      /\ net \in [Clients -> {"open", "lost", "closed"}]
      /\ mark \in [Clients -> {"no", "swapped", "removed", "close"}]
  BY Zenon DEF ClientTypes
<1>b. /\ \A p \in Procs : pc[p] \in Locked <=> owner = p
      /\ owner # Nobody => published = NoClient
  BY DEF Exclusive
<1>e. \A p \in Procs : pc[p] = "store" => cur[p] \in Clients /\ mark[cur[p]] = "no"
  BY Zenon DEF Separate, Private
<1>f. ASSUME NEW p \in Procs, pc[p] \in Locked, NEW d \in Clients, connected[d]
      PROVE  pc[p] \notin {"dial", "store"} /\ d = cur[p] /\ mark[d] = "no"
  BY <1>f, <1>a, <1>b, Zenon DEF Accounted, Held
<1>g. ASSUME \A d \in Clients : ~ connected'[d] PROVE Accounted'
  BY <1>g, Zenon DEF Accounted
<1>h. ASSUME CloseClient PROVE Accounted'
  <2>1. /\ pc["life"] \in Locked
        /\ \A d \in Clients : connected'[d] => connected[d] /\ d # cur["life"]
    BY <1>h, Zenon DEF CloseClient, CloseTransport, Locked
  <2> QED
    BY <2>1, <1>f, <1>g, TheProcs, Zenon
<1>i. ASSUME NEW p \in Procs, Dial(p) PROVE Accounted'
  <2>1. pc[p] \in Locked /\ pc[p] = "dial" /\ UNCHANGED connected
    BY <1>i, Zenon DEF Dial, Locked
  <2> QED
    BY <2>1, <1>f, <1>g, Zenon
<1>j. ASSUME NEW p \in Procs, Store(p) PROVE Accounted'
  <2>1. /\ pc[p] = "store" /\ pc[p] \in Locked /\ pc'[p] = "hello" /\ owner' = p
        /\ connected' = [connected EXCEPT ![cur[p]] = TRUE] /\ UNCHANGED <<cur, mark>>
    BY <1>j, <1>a, <1>b DEF Store, Goto, Locked
  <2>2. \A d \in Clients : connected'[d] => d = cur[p]
    BY <2>1, <1>f, <1>t, Zenon
  <2> QED
    BY <2>1, <2>2, <1>e DEF Accounted, Held
<1>k. ASSUME NEW p \in Procs, pc[p] \in Locked, Drop(p) PROVE Accounted'
  BY <1>k, <1>g, DropDisconnects, Zenon
<1>l. ASSUME NEW p \in Procs, Lock(p) PROVE Accounted'
  <2>1. owner = Nobody /\ \A d \in Clients : connected[d] => d = published
    BY <1>l, <1>a, Zenon DEF Lock, MayLock, Accounted, Held
  <2>2. CASE Usable(published)
    BY <1>l, <1>a, <2>1, <2>2, Zenon DEF Lock, clientVars, Accounted, Held
  <2>3. CASE ~ Usable(published)
    BY <1>l, <1>g, <2>1, <2>3, Zenon DEF Lock, CloseTransport
  <2> QED
    BY <2>2, <2>3, Zenon
<1>m. ASSUME NEW p \in Procs, Hello(p) PROVE Accounted'
  <2>1. CASE Drop(p)
    BY <1>k, <1>m, <2>1, Zenon DEF Hello, Locked
  <2>2. CASE /\ Greeted(cur[p]) /\ UNCHANGED <<cur, owner, clientVars>>
             /\ Goto(p, IF p = "recover" THEN "check" ELSE "publish")
    <3>1. pc[p] \in Locked /\ net[cur[p]] # "closed"
      BY <1>m, <2>2 DEF Hello, Greeted, Reaches, Locked
    <3>2. \A d \in Clients : connected[d] => d = cur[p] /\ mark[d] = "no"
      BY <1>f, <3>1, Zenon
    <3>3. owner = p /\ pc'[p] \notin {"dial", "store"}
      BY <1>a, <1>b, <2>2, <3>1, Zenon DEF Goto
    <3> QED
      BY <2>2, <3>1, <3>2, <3>3, Zenon DEF Accounted, Held, clientVars
  <2> QED
    BY <1>m, <2>1, <2>2, Zenon DEF Hello
<1>x. ASSUME \/ StartNode \/ StopNode \/ Launch \/ Flag \/ Names \/ StartNext \/ Halt \/ Join
             \/ Undo \/ Unflag \/ Finish \/ Await \/ Attempt \/ Backoff
             \/ Lookup \/ (\E k \in Services : Subscribe(k))
             \/ \E p \in Procs : Cached(p) \/ Guard(p) \/ Request(p)
      PROVE  Accounted'
  <2>1. Aside
    BY <1>x, AsideSteps, Zenon
  <2> QED
    BY <2>1, <1>b, Zenon DEF Aside, Accounted, Held
<1> USE <1>a, <1>b, TheProcs DEF Accounted, Held, Locked
<1>s. ASSUME UNCHANGED <<pc, cur, owner, published, connected, net, mark>> PROVE Accounted'
  BY <1>s, Zenon
<1>u. ASSUME UNCHANGED vars
      PROVE  UNCHANGED <<pc, cur, owner, published, connected, net, mark>>
  BY <1>u, Zenon DEF vars, procVars, clientVars
<1>1. ASSUME CloseNetwork PROVE Accounted'
  BY <1>1 DEF CloseNetwork, MayLock, Goto, clientVars
<1>2. ASSUME Check PROVE Accounted'
  <2>1. CASE Drop("recover")
    BY <1>2, <2>1, <1>k, Zenon DEF Check, Locked
  <2>2. CASE Work("recover", "restore", "register", 1) /\ UNCHANGED <<owner, clientVars>>
    BY <1>2, <2>2, Zenon DEF Check, Work, Goto, clientVars
  <2> QED
    BY <1>2, <2>1, <2>2, Zenon DEF Check
<1>3. ASSUME Restore PROVE Accounted'
  <2>1. CASE Drop("recover")
    BY <1>3, <2>1, <1>k, Zenon DEF Restore, Locked
  <2>2. CASE Restored /\ UNCHANGED <<owner, clientVars>>
    BY <1>3, <2>2 DEF Restore, Restored, Work, Goto, clientVars
  <2> QED
    BY <1>3, <2>1, <2>2, Zenon DEF Restore
<1>4. ASSUME NEW p \in Procs, Publish(p) PROVE Accounted'
  <2>1. CASE Drop(p)
    BY <1>4, <2>1, <1>k, Zenon DEF Publish, Locked
  <2>2. CASE /\ published' = cur[p] /\ Unlock /\ UNCHANGED clientVars
    BY <1>4, <2>2 DEF Publish, Unlock, clientVars
  <2> QED
    BY <1>4, <2>1, <2>2, Zenon DEF Publish
<1>5. ASSUME NEW c \in Clients, Break(c) PROVE Accounted'
  BY <1>5 DEF Break, procVars
<1>6. ASSUME NEW c \in Clients, ConnectionBroken(c) PROVE Accounted'
  BY <1>6, <1>t DEF ConnectionBroken, Swap, procVars
<1>7. ASSUME NEW c \in Clients, HeartbeatFails(c) PROVE Accounted'
  BY <1>7, <1>t DEF HeartbeatFails, Swap, procVars
<1>8. ASSUME NEW c \in Clients, RemoveClient(c) PROVE Accounted'
  BY <1>8 DEF RemoveClient, procVars
<1>9. ASSUME NEW c \in Clients, StartMainRecovery(c) PROVE Accounted'
  BY <1>9 DEF StartMainRecovery, procVars
<1>10. ASSUME NEW c \in Clients, CloseMarked(c) PROVE Accounted'
  BY <1>10 DEF CloseMarked, procVars
<1> QED
  BY <1>s, <1>u, <1>h, <1>i, <1>j, <1>l, <1>m, <1>x, <1>1, <1>2, <1>3, <1>4, <1>5, <1>6,
     <1>7, <1>8, <1>9, <1>10, Zenon DEF Next, Life, Recovery, Connect, MarkDisconnected

\* A published client whose connection is lost is marked for removal in the
\* same step.
LEMMA TendedStep ==
  ASSUME ProcTypes, ClientTypes, NodeTypes, Exclusive, Separate, Accounted, Tended,
         [Next]_vars
  PROVE  Tended'
<1>a. /\ published \in Clients \cup {NoClient}
      /\ NoClient \notin Clients /\ Nobody \notin Procs
  BY LinkAssumption, Zenon DEF ProcTypes, NodeTypes, Procs, Nobody
<1>t. /\ connected \in [Clients -> BOOLEAN]
      /\ mark \in [Clients -> {"no", "swapped", "removed", "close"}]
  BY Zenon DEF ClientTypes
<1>b. /\ \A p \in Procs : pc[p] \in Locked => published = NoClient
      /\ \A p \in Procs : pc[p] \in Locked => owner = p
  BY <1>a DEF Exclusive
<1>c. \A p \in Procs : pc[p] = "publish" => cur[p] \in Clients
  BY Zenon DEF Separate, Private
<1>d. \A c \in Clients : connected[c] => mark[c] = "no"
  BY Zenon DEF Accounted
<1> USE <1>a, <1>b, TheProcs DEF Tended, Locked
<1>s. ASSUME UNCHANGED <<published, connected, mark>> PROVE Tended'
  BY <1>s, Zenon
<1>u. ASSUME \/ UNCHANGED vars \/ StartNode \/ StopNode \/ Launch \/ Flag \/ Names
             \/ StartNext \/ Halt \/ Join \/ Undo \/ Unflag \/ Finish \/ Await
             \/ Attempt \/ Backoff \/ Lookup
             \/ \E k \in Services : Subscribe(k)
             \/ \E p \in Procs : Cached(p) \/ Guard(p) \/ Dial(p) \/ Request(p)
             \/ \E c \in Clients : Break(c)
      PROVE  UNCHANGED <<published, connected, mark>>
  BY <1>u, Zenon DEF vars, clientVars, StartNode, StopNode, Launch, Flag, Names, StartNext,
     Halt, Join, Undo, Unflag, Finish, Await, Attempt, Backoff, Lookup, Subscribe, Cached,
     Guard, Dial, Request, Break
<1>1. ASSUME CloseNetwork PROVE Tended'
  BY <1>1, <1>t, <1>d, Zenon DEF CloseNetwork, clientVars
<1>2. ASSUME CloseClient PROVE Tended'
  BY <1>2, <1>t, <1>d, Zenon DEF CloseClient, CloseTransport
<1>3. ASSUME Check PROVE Tended'
  BY <1>3, <1>t, <1>d, Zenon DEF Check, clientVars, Drop, CloseTransport
<1>4. ASSUME Restore PROVE Tended'
  BY <1>4, <1>t, <1>d, Zenon DEF Restore, Drop, CloseTransport, clientVars
<1>5. ASSUME NEW p \in Procs, Lock(p) PROVE Tended'
  BY <1>5, <1>t, <1>d, Zenon DEF Lock, clientVars, CloseTransport
<1>6. ASSUME NEW p \in Procs, Store(p) PROVE Tended'
  BY <1>6, <1>t, <1>d, Zenon DEF Store
<1>7. ASSUME NEW p \in Procs, Hello(p) PROVE Tended'
  BY <1>7, <1>t, <1>d, Zenon DEF Hello, clientVars, Drop, CloseTransport
<1>8. ASSUME NEW p \in Procs, Publish(p) PROVE Tended'
  BY <1>8, <1>c, Zenon DEF Publish, MayPublish, clientVars, Drop, CloseTransport
<1>9. ASSUME NEW c \in Clients, ConnectionBroken(c) PROVE Tended'
  BY <1>9, <1>t, <1>d DEF ConnectionBroken, Swap
<1>10. ASSUME NEW c \in Clients, HeartbeatFails(c) PROVE Tended'
  BY <1>10, <1>t, <1>d, Zenon DEF HeartbeatFails, Swap
<1>11. ASSUME NEW c \in Clients, RemoveClient(c) PROVE Tended'
  BY <1>11, <1>t, <1>d, Zenon DEF RemoveClient
<1>12. ASSUME NEW c \in Clients, StartMainRecovery(c) PROVE Tended'
  BY <1>12, <1>t, <1>d, Zenon DEF StartMainRecovery
<1>13. ASSUME NEW c \in Clients, CloseMarked(c) PROVE Tended'
  BY <1>13, <1>t, <1>d, Zenon DEF CloseMarked
<1> QED
  BY <1>s, <1>u, <1>1, <1>2, <1>3, <1>4, <1>5, <1>6, <1>7, <1>8, <1>9, <1>10, <1>11, <1>12,
     <1>13, Zenon DEF Next, Life, Recovery, Connect, MarkDisconnected

\* When the Node has been created, nothing is connected and no goroutine is under way.
LEMMA InitLink == Init => TypeOK /\ LinkInv
<1> SUFFICES ASSUME Init PROVE TypeOK /\ LinkInv
  OBVIOUS
<1>a. N \in Nat \ {0} /\ NoClient \notin Clients
  BY ServiceCount, LinkAssumption, Zenon DEF Init
<1>b. /\ pc["life"] = "down" /\ pc["recover"] = "down" /\ pc["user"] = "idle"
      /\ \A p \in Procs : job[p] = "connect" /\ idx[p] = 1 /\ cur[p] = NoClient
      /\ \A p \in Procs : pc[p] \in {"down", "idle"}
  BY TheProcs, Zenon DEF Init
<1>c. \A c \in Clients : ~ connected[c] /\ net[c] = "closed" /\ mark[c] = "no"
  BY Zenon DEF Init
<1>d. /\ state = "Initial" /\ ~ stopped /\ ~ early /\ ~ trigger /\ owner = Nobody
      /\ published = NoClient /\ registered = {} /\ desired = {}
  BY Zenon DEF Init
<1>1. TypeOK
  <2>1. ProcTypes
    BY <1>a DEF Init, ProcTypes, Jobs, Steps, Procs
  <2>2. ClientTypes
    BY Zenon DEF Init, ClientTypes
  <2>3. ServiceTypes
    BY Zenon DEF Init, ServiceTypes
  <2>4. NodeTypes
    <3>1. faults \in 0..MaxFaults
      BY LinkAssumption DEF Init
    <3> QED
      BY <3>1, Zenon DEF Init, NodeTypes, LifeStates
  <2> QED
    BY <2>1, <2>2, <2>3, <2>4, Types, Zenon DEF Init
<1>2. LinkInv
  <2>1. Placed
    BY <1>b, TheProcs DEF Placed, Connecting, Undoing
  <2>2. Phased
    BY <1>b, <1>d, TheProcs, Zenon DEF Phased, Connecting, Undoing
  <2>3. Exclusive
    BY <1>b, <1>d, Zenon DEF Exclusive, Locked, Nobody, Procs
  <2>4. Separate
    BY <1>b DEF Separate, Private
  <2> QED
    BY <2>1, <2>2, <2>3, <2>4, <1>c, <1>d, Zenon DEF LinkInv, Accounted, Tended
<1> QED
  BY <1>1, <1>2

\* Every step of every goroutine and callback keeps the invariant of the link.
LEMMA NextLink ==
  ASSUME TypeOK, LinkInv, [Next]_vars
  PROVE  TypeOK' /\ LinkInv'
<1>a. setup \in Setups /\ ProcTypes /\ ClientTypes /\ ServiceTypes /\ NodeTypes
  BY Types, Zenon
<1>b. Placed /\ Phased /\ Exclusive /\ Separate /\ Accounted /\ Tended
  BY Zenon DEF LinkInv
<1>1. TypeOK'
  <2>1. setup' \in Setups
    BY <1>a, CountKept, Zenon
  <2>2. ProcTypes'
    BY <1>a, <1>b, ProcTypesStep, Zenon
  <2>3. ClientTypes'
    BY <1>a, <1>b, ClientTypesStep, Zenon
  <2>4. ServiceTypes'
    BY <1>a, <1>b, ServiceTypesStep, Zenon
  <2>5. NodeTypes'
    BY <1>a, NodeTypesStep, Zenon
  <2> QED
    BY <2>1, <2>2, <2>3, <2>4, <2>5, Zenon
       DEF TypeOK, ProcTypes, ClientTypes, ServiceTypes, NodeTypes, Jobs
<1>2. LinkInv'
  <2>1. Placed' /\ Phased'
    BY <1>a, <1>b, PlacedStep, PhasedStep, Zenon
  <2>2. Exclusive' /\ Separate'
    BY <1>a, <1>b, ExclusiveStep, SeparateStep, Zenon
  <2>3. Accounted' /\ Tended'
    BY <1>a, <1>b, AccountedStep, TendedStep, Zenon
  <2> QED
    BY <2>1, <2>2, <2>3, Zenon DEF LinkInv
<1> QED
  BY <1>1, <1>2

-----------------------------------------------------------------------------
(* The theorems *)

\* The inductive invariant of the link: what each goroutine does at which step,
\* who holds clientCreateMu, and whose each connected client is.
THEOREM LinkInvariance == Spec => [](TypeOK /\ LinkInv)
<1>1. TypeOK /\ LinkInv /\ [Next]_vars => (TypeOK /\ LinkInv)'
  BY NextLink
<1> QED
  BY <1>1, InitLink, PTL DEF Spec

\* The state of the Node, of its goroutines and of its clients stays well formed.
THEOREM TypeCorrect == Spec => []TypeOK
  BY LinkInvariance, PTL

\* A Node never has two connections to the main Node that count as connected:
\* clientCreateMu and the recovery loop keep createMainClient from making a
\* second one, whoever asks for it.
THEOREM OneLink == Spec => []OneConnection
<1>1. TypeOK /\ LinkInv => OneConnection
  <2> SUFFICES ASSUME TypeOK, LinkInv, NEW c \in Clients, NEW d \in Clients,
                      connected[c], connected[d]
               PROVE  c = d
    BY Zenon DEF OneConnection
  <2>1. /\ c = published \/ Held(c)
        /\ d = published \/ Held(d)
    BY Zenon DEF LinkInv, Accounted
  <2>2. owner \in Procs => published = NoClient
    BY DEF LinkInv, Exclusive, Nobody, Procs
  <2> QED
    BY <2>1, <2>2, LinkAssumption DEF Held
<1> QED
  BY <1>1, LinkInvariance, PTL

\* The client that getMainClient hands out is connected or about to be removed
\* by its disconnect callback, and a connected one has a connection.
THEOREM PublishedLives == Spec => []PublishedIsLive
<1>1. TypeOK /\ LinkInv => PublishedIsLive
  <2> SUFFICES ASSUME TypeOK, LinkInv, published # NoClient PROVE PublishedIsLive
    BY Zenon DEF PublishedIsLive
  <2>1. published \in Clients /\ net \in [Clients -> {"open", "lost", "closed"}]
    BY Types, Zenon DEF NodeTypes, ClientTypes
  <2>2. owner \notin Procs
    BY DEF LinkInv, Exclusive, Nobody, Procs
  <2>3. connected[published] => net[published] # "closed"
    BY <2>1, <2>2, Zenon DEF LinkInv, Accounted, Held
  <2>4. connected[published] \/ mark[published] = "swapped"
    BY Zenon DEF LinkInv, Tended
  <2> QED
    BY <2>1, <2>3, <2>4 DEF PublishedIsLive
<1> QED
  BY <1>1, LinkInvariance, PTL

=============================================================================
