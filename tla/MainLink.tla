------------------------------ MODULE MainLink ------------------------------
(***************************************************************************)
(* The life of a Node that is not the main Node and its link to the main   *)
(* Node: Start, Stop and rollbackStart, getRPCClient, the recovery loop,   *)
(* an application goroutine that looks services up or subscribes, and the  *)
(* disconnect handling of RPCClient (network callback and heartbeat).      *)
(*                                                                         *)
(* Three goroutines hold clients: "life" runs Start and then Stop (Stop    *)
(* refuses a Node that is still starting), "recover" runs the recovery     *)
(* loop and "user" is the application.  pc[p] names what p does next; the  *)
(* three share the steps of connecting.  markDisconnected runs in a        *)
(* goroutine of its own for every client and is followed in mark[c].       *)
(*                                                                         *)
(* The main Node is external: it grants a request over an open connection  *)
(* or the request fails.  Failures while the connection is open, and       *)
(* breaks, are counted, so that at most MaxFaults of them happen.          *)
(***************************************************************************)
EXTENDS Integers, FiniteSets

CONSTANTS
  Clients,    \* identities of RPCClient objects, reused once forgotten
  Setups,     \* the Nodes explored: how many services, what the application
              \* does, in which lifecycle states a connection may break, and
              \* in which one may break or anything else may fail
  MaxFaults   \* bound on breaks and failed requests

NoClient == "no client"
Nobody == "nobody"

LifeStates == {"Initial", "Starting", "Running", "Stopping", "Stopped"}

ASSUME LinkAssumption ==
  /\ MaxFaults \in Nat
  /\ NoClient \notin Clients
  /\ \A u \in Setups : /\ u.services \in Nat \ {0}
                      /\ u.jobs \subseteq {"lookup", "subscribe"}
                      /\ u.breakIn \subseteq LifeStates
                      /\ u.failIn \subseteq LifeStates

Procs == {"life", "recover", "user"}

VARIABLES
  setup,       \* which of the Setups this is
  state,       \* Node.state
  pc, job,     \* the step each goroutine takes next, and what it is for
  idx,         \* the service it works on
  cur,         \* the client it holds
  owner,       \* the holder of clientCreateMu
  published,   \* rpcClients[mainNodeID]
  connected,   \* RPCClient.connected
  net,         \* the connection: open, lost (not yet reported), closed
  mark,        \* how far markDisconnected has got with a client
  closing,     \* whether Close called it, which closes the transport after
  trigger,     \* mainRecoveryTrigger holds a notification
  stopped,     \* mainRecoveryStop is closed
  registered,  \* the services whose serviceRuntime.registered is set
  desired,     \* the services with an entry in serviceRuntime.subscriptions
  refused,     \* history: services whose last Subscribe returned an error
  regs, subs,  \* what the main Node granted over each client's connection
  faults,      \* breaks and failures so far
  early        \* history: while the Node was starting the link was lost, or
               \* the application set out to connect by itself (of interest
               \* until the Node stops)

\* the Node's services, in serviceOrder
N == setup.services
Services == 1..N

procVars == <<pc, job, idx, cur>>
clientVars == <<connected, net, mark, closing>>
recoveryVars == <<trigger, stopped>>
serviceVars == <<registered, desired, refused>>
mainVars == <<regs, subs>>
faultVars == <<setup, early>>
vars == <<state, procVars, owner, published, clientVars, recoveryVars,
          serviceVars, mainVars, faults, faultVars>>

Init ==
  /\ setup \in Setups
  /\ state = "Initial"
  /\ pc = [p \in Procs |-> IF p = "user" THEN "idle" ELSE "down"]
  /\ job = [p \in Procs |-> "connect"]
  /\ idx = [p \in Procs |-> 1]
  /\ cur = [p \in Procs |-> NoClient]
  /\ owner = Nobody
  /\ published = NoClient
  /\ connected = [c \in Clients |-> FALSE]
  /\ net = [c \in Clients |-> "closed"]
  /\ mark = [c \in Clients |-> "no"]
  /\ closing = [c \in Clients |-> FALSE]
  /\ trigger = FALSE /\ stopped = FALSE
  /\ registered = {} /\ desired = {} /\ refused = {}
  /\ regs = [c \in Clients |-> {}]
  /\ subs = [c \in Clients |-> {}]
  /\ faults = 0 /\ early = FALSE

-----------------------------------------------------------------------------
(* Steps shared by the goroutines *)

Goto(p, l) == pc' = [pc EXCEPT ![p] = l]

Fault == state \in setup.failIn /\ faults < MaxFaults /\ faults' = faults + 1

Usable(c) == c # NoClient /\ connected[c]

\* a request over c can be answered
Reaches(c) == connected[c] /\ net[c] = "open"

\* closeTransport
CloseTransport(c) ==
  /\ connected' = [d \in Clients |-> connected[d] /\ d # c]
  /\ net' = [d \in Clients |-> IF d = c THEN "closed" ELSE net[d]]
  /\ UNCHANGED <<mark, closing>>

\* Mutant of AfterError: a failed attempt ends the recovery.
AfterErrorGivesUp(p) ==
  IF p = "life" THEN (IF job[p] = "unregister" THEN "unflag" ELSE "halt") ELSE "idle"

\* Where an error takes goroutine p: recoverMainNode backs off, a call of the
\* application returns the error, unregistering goes on, Start rolls back.
AfterError(p) ==
  IF p = "recover" THEN "backoff"
  ELSE IF p = "user" THEN "idle"
  ELSE IF job[p] = "unregister" THEN "unflag" ELSE "halt"

\* p lets go of its client; what it worked on matters only to Start and Stop
Release(p) ==
  /\ cur' = [cur EXCEPT ![p] = NoClient]
  /\ job' = IF p = "life" THEN job ELSE [job EXCEPT ![p] = "connect"]
  /\ idx' = IF p = "life" THEN idx ELSE [idx EXCEPT ![p] = 1]

Abort(p) ==
  /\ Goto(p, AfterError(p))
  /\ Release(p)
  /\ refused' = IF p = "user" /\ job[p] = "subscribe" THEN refused \cup {idx[p]} ELSE refused
  /\ UNCHANGED <<registered, desired>>

\* getRPCClient returns c to Start, Stop or the application
Got(p, c) ==
  /\ cur' = [cur EXCEPT ![p] = c]
  /\ Goto(p, IF job[p] = "connect" THEN "launch" ELSE "request")
  /\ UNCHANGED <<job, idx>>

\* Mutant of Unlock: an early return keeps clientCreateMu.
UnlockForgotten == owner' = owner

Unlock == owner' = Nobody

-----------------------------------------------------------------------------
(* getRPCClient, connectRPCClient and newRPCClient *)

\* cachedRPCClient
Cached(p) ==
  /\ pc[p] = "cached"
  /\ IF Usable(published) THEN Got(p, published)
     ELSE Goto(p, "guard") /\ UNCHANGED <<job, idx, cur>>
  /\ UNCHANGED <<state, owner, published, clientVars, recoveryVars, serviceVars,
                 mainVars, faults, faultVars>>

\* while the Node runs only the recovery loop connects to the main Node
Guard(p) ==
  /\ pc[p] = "guard"
  /\ IF state = "Running" THEN Abort(p)
     ELSE Goto(p, "lock") /\ UNCHANGED <<job, idx, cur, serviceVars>>
  /\ early' = (early \/ (p = "user" /\ state = "Starting"))
  /\ UNCHANGED <<state, owner, published, clientVars, recoveryVars, mainVars, faults, setup>>

\* Mutant of MayLock: clientCreateMu is not taken.
MayLockAlways == TRUE

MayLock == owner = Nobody

\* A usable client found under the locks is used (and ends a recovery);
\* otherwise a stale one is dropped and its transport closed.
Lock(p) ==
  /\ pc[p] = "lock" /\ MayLock
  /\ IF Usable(published)
     THEN /\ IF p = "recover" THEN Goto(p, "idle") /\ UNCHANGED <<job, idx, cur>>
             ELSE Got(p, published)
          /\ UNCHANGED <<owner, published, clientVars>>
     ELSE /\ owner' = p
          /\ published' = NoClient
          /\ CloseTransport(published)
          /\ Goto(p, "dial")
          /\ UNCHANGED <<job, idx, cur>>
  /\ UNCHANGED <<state, recoveryVars, serviceVars, mainVars, faults, faultVars>>

Forgotten(c) ==
  /\ net[c] = "closed" /\ ~connected[c] /\ mark[c] = "no"
  /\ published # c /\ \A p \in Procs : cur[p] # c

\* ConnectSync
Dial(p) ==
  /\ pc[p] = "dial"
  /\ \/ \E c \in Clients :
          /\ Forgotten(c)
          /\ net' = [net EXCEPT ![c] = "open"]
          /\ regs' = [regs EXCEPT ![c] = {}]
          /\ subs' = [subs EXCEPT ![c] = {}]
          /\ cur' = [cur EXCEPT ![p] = c]
          /\ Goto(p, "store")
          /\ UNCHANGED <<job, idx, owner, serviceVars, faults>>
     \/ /\ Fault /\ Unlock /\ Abort(p)
        /\ UNCHANGED <<net, mainVars>>
  /\ UNCHANGED <<state, published, connected, mark, closing, recoveryVars, faultVars>>

\* connected.Store(true): the connection may have been reported lost before
Store(p) ==
  /\ pc[p] = "store"
  /\ connected' = [connected EXCEPT ![cur[p]] = TRUE]
  /\ Goto(p, "hello")
  /\ UNCHANGED <<state, job, idx, cur, owner, published, net, mark, closing,
                 recoveryVars, serviceVars, mainVars, faults, faultVars>>

\* an error after the connection was made: it is closed and the lock released
Drop(p) == Unlock /\ CloseTransport(cur[p]) /\ Abort(p)

\* RegisterNode can be answered over c
Greeted(c) == Reaches(c)

\* requestSync(opRegisterNode)
Hello(p) ==
  /\ pc[p] = "hello"
  /\ \/ /\ Greeted(cur[p])
        /\ Goto(p, IF p = "recover" THEN "check" ELSE "publish")
        /\ UNCHANGED <<job, idx, cur, owner, clientVars, serviceVars, faults>>
     \/ /\ IF Reaches(cur[p]) THEN Fault ELSE UNCHANGED faults
        /\ Drop(p)
  /\ UNCHANGED <<state, published, recoveryVars, mainVars, faultVars>>

\* Mutant of MayPublish: connected is not checked again under clientsMu.
MayPublishBlindly(c) == TRUE

MayPublish(c) == connected[c]

\* the client enters rpcClients unless it was disconnected meanwhile
Publish(p) ==
  /\ pc[p] = "publish"
  /\ IF MayPublish(cur[p])
     THEN /\ published' = cur[p]
          /\ Unlock
          /\ IF p = "recover"
             THEN Goto(p, "idle") /\ Release(p)
             ELSE Got(p, cur[p])
          /\ UNCHANGED <<clientVars, serviceVars>>
     ELSE Drop(p) /\ UNCHANGED published
  /\ UNCHANGED <<state, recoveryVars, mainVars, faults, faultVars>>

Connect(p) ==
  \/ Cached(p) \/ Guard(p) \/ Lock(p) \/ Dial(p) \/ Store(p) \/ Hello(p) \/ Publish(p)

-----------------------------------------------------------------------------
(* Requests to the main Node *)

\* the main Node grants op for service k over c
Grant(op, c, k) ==
  /\ regs' = [regs EXCEPT ![c] = IF op = "register" THEN @ \cup {k}
                                 ELSE IF op = "unregister" THEN @ \ {k} ELSE @]
  /\ subs' = [subs EXCEPT ![c] = IF op = "subscribe" THEN @ \cup {k}
                                 ELSE IF op = "unregister" THEN @ \ {k} ELSE @]

\* a subscriber has to be registered (addServiceSubscription)
Grantable(op, c, k) == Reaches(c) /\ (op = "subscribe" => k \in regs[c])

RequestFails(op, c, k) == IF Grantable(op, c, k) THEN Fault ELSE UNCHANGED faults

AfterRequest(p) ==
  IF p = "user" THEN "idle"
  ELSE IF job[p] = "register" THEN "flag"
  ELSE IF job[p] = "subscribe" THEN "next" ELSE "unflag"

\* registerServiceWithClient, requestServiceSubscriptionWithClient,
\* unregisterService and lookupServiceFromMain
Request(p) ==
  LET op == job[p] c == cur[p] k == idx[p] IN
  /\ pc[p] = "request"
  /\ \/ /\ Grantable(op, c, k)
        /\ Grant(op, c, k)
        /\ Goto(p, AfterRequest(p))
        /\ Release(p)
        /\ refused' = IF p = "user" /\ op = "subscribe" THEN refused \ {k} ELSE refused
        /\ UNCHANGED <<registered, desired, faults>>
     \/ /\ RequestFails(op, c, k)
        /\ Abort(p)
        /\ UNCHANGED mainVars
  /\ UNCHANGED <<state, owner, published, clientVars, recoveryVars, faultVars>>

-----------------------------------------------------------------------------
(* Start, Stop and rollbackStart *)

Work(p, l, j, i) ==
  /\ Goto(p, l)
  /\ job' = [job EXCEPT ![p] = j]
  /\ idx' = [idx EXCEPT ![p] = i]
  /\ UNCHANGED cur

\* Start up to mainClient: the recovery loop is started, and the RPC server
StartNode ==
  /\ state = "Initial" /\ state' = "Starting"
  /\ \/ pc' = [pc EXCEPT !["life"] = "cached", !["recover"] = "idle"] /\ UNCHANGED faults
     \/ pc' = [pc EXCEPT !["life"] = "halt", !["recover"] = "idle"] /\ Fault
  /\ UNCHANGED <<job, idx, cur, owner, published, clientVars, recoveryVars,
                 serviceVars, mainVars, faultVars>>

\* startService: the service's Start may subscribe, or fail
Launch ==
  /\ pc["life"] = "launch"
  /\ \/ /\ Work("life", "cached", "register", idx["life"])
        /\ desired' \in {desired, desired \cup {idx["life"]}}
        /\ UNCHANGED <<registered, refused, faults>>
     \/ Fault /\ Abort("life")
  /\ UNCHANGED <<state, owner, published, clientVars, recoveryVars, mainVars, faultVars>>

\* registered.Store(true)
Flag ==
  /\ pc["life"] = "flag"
  /\ registered' = registered \cup {idx["life"]}
  /\ Goto("life", "names")
  /\ UNCHANGED <<state, job, idx, cur, owner, published, clientVars, recoveryVars,
                 desired, refused, mainVars, faults, faultVars>>

\* subscribeRuntime sends what was subscribed by now
Names ==
  /\ pc["life"] = "names"
  /\ IF idx["life"] \in desired THEN Work("life", "cached", "subscribe", idx["life"])
     ELSE Goto("life", "next") /\ UNCHANGED <<job, idx, cur>>
  /\ UNCHANGED <<state, owner, published, clientVars, recoveryVars, serviceVars,
                 mainVars, faults, faultVars>>

\* the next service, or the Node runs
StartNext ==
  /\ pc["life"] = "next"
  /\ IF idx["life"] < N
     THEN Work("life", "launch", "connect", idx["life"] + 1) /\ UNCHANGED state
     ELSE state' = "Running" /\ Goto("life", "up") /\ UNCHANGED <<job, idx, cur>>
  /\ UNCHANGED <<owner, published, clientVars, recoveryVars, serviceVars, mainVars,
                 faults, faultVars>>

StopNode ==
  /\ \/ state = "Initial" /\ state' = "Stopped" /\ UNCHANGED pc
     \/ state = "Running" /\ state' = "Stopping" /\ Goto("life", "halt")
  /\ UNCHANGED <<job, idx, cur, owner, published, clientVars, recoveryVars,
                 serviceVars, mainVars, faults, faultVars>>

\* stopMainRecovery closes the channel ...
Halt ==
  /\ pc["life"] = "halt"
  /\ stopped' = TRUE
  /\ early' = FALSE
  /\ Goto("life", "join")
  /\ UNCHANGED <<state, job, idx, cur, owner, published, clientVars, trigger,
                 serviceVars, mainVars, faults, setup>>

\* ... and waits for the recovery loop
Join ==
  /\ pc["life"] = "join" /\ pc["recover"] = "ended"
  /\ Work("life", "undo", "connect", N)
  /\ UNCHANGED <<state, owner, published, clientVars, recoveryVars, serviceVars,
                 mainVars, faults, faultVars>>

\* Mutant of AllUndone: the loop runs one index too far.
AllUndonePast(i) == i < 0

AllUndone(i) == i = 0

\* services are unregistered in reverse order
Undo ==
  LET i == idx["life"] IN
  /\ pc["life"] = "undo"
  /\ IF AllUndone(i) THEN Goto("life", "network") /\ UNCHANGED <<job, idx, cur>>
     ELSE IF i \in registered THEN Work("life", "cached", "unregister", i)
     ELSE Work("life", "undo", "connect", i - 1)
  /\ UNCHANGED <<state, owner, published, clientVars, recoveryVars, serviceVars,
                 mainVars, faults, faultVars>>

\* registered.Store(false), whatever the answer was
Unflag ==
  /\ pc["life"] = "unflag"
  /\ registered' = registered \ {idx["life"]}
  /\ Work("life", "undo", "connect", idx["life"] - 1)
  /\ UNCHANGED <<state, owner, published, clientVars, recoveryVars, desired, refused,
                 mainVars, faults, faultVars>>

\* closeNetwork takes the clients ...
CloseNetwork ==
  /\ pc["life"] = "network" /\ MayLock
  /\ owner' = "life"
  /\ cur' = [cur EXCEPT !["life"] = published]
  /\ published' = NoClient
  /\ Goto("life", "close")
  /\ UNCHANGED <<state, job, idx, clientVars, recoveryVars, serviceVars, mainVars,
                 faults, faultVars>>

\* ... and closes them.  Close finds nothing to remove, and nothing to
\* recover in a Node that is not running.
CloseClient ==
  /\ pc["life"] = "close"
  /\ CloseTransport(cur["life"])
  /\ cur' = [cur EXCEPT !["life"] = NoClient]
  /\ Unlock
  /\ Goto("life", "finish")
  /\ UNCHANGED <<state, job, idx, published, recoveryVars, serviceVars, mainVars,
                 faults, faultVars>>

\* stopControlLoop, stopService of every service
Finish ==
  /\ pc["life"] = "finish"
  /\ state' = "Stopped"
  /\ Goto("life", "done")
  /\ UNCHANGED <<job, idx, cur, owner, published, clientVars, recoveryVars,
                 serviceVars, mainVars, faults, faultVars>>

Life ==
  \/ Launch \/ Flag \/ Names \/ StartNext \/ Halt \/ Join \/ Undo \/ Unflag
  \/ CloseNetwork \/ CloseClient \/ Finish

-----------------------------------------------------------------------------
(* The recovery loop *)

Recover(l) == Goto("recover", l)

\* select between a notification and the stop channel
Await ==
  /\ pc["recover"] = "idle"
  /\ \/ trigger /\ trigger' = FALSE /\ Recover("attempt")
     \/ stopped /\ Recover("ended") /\ UNCHANGED trigger
  /\ UNCHANGED <<state, job, idx, cur, owner, published, clientVars, stopped,
                 serviceVars, mainVars, faults, faultVars>>

MayRecover == state = "Running" /\ ~stopped

Attempt ==
  /\ pc["recover"] = "attempt"
  /\ Recover(IF MayRecover THEN "lock" ELSE "idle")
  /\ UNCHANGED <<state, job, idx, cur, owner, published, clientVars, recoveryVars,
                 serviceVars, mainVars, faults, faultVars>>

\* the Node may have been stopped while the connection was made
Check ==
  /\ pc["recover"] = "check"
  /\ IF MayRecover
     THEN Work("recover", "restore", "register", 1) /\ UNCHANGED <<owner, clientVars,
                 serviceVars>>
     ELSE Drop("recover")
  /\ UNCHANGED <<state, published, recoveryVars, mainVars, faults, faultVars>>

\* Mutant of Wanted: subscriptions are not replayed.
WantedRegistrations(op, k) == op = "register" /\ k \in registered

\* what restoreMainNodeState sends for service k in each of its loops
Wanted(op, k) == k \in registered /\ (op = "subscribe" => k \in desired)

\* the next service, the second loop, or the end of restoreMainNodeState
Restored ==
  LET op == job["recover"] k == idx["recover"] IN
  IF k < N THEN Work("recover", "restore", op, k + 1)
  ELSE IF op = "register" THEN Work("recover", "restore", "subscribe", 1)
  ELSE Work("recover", "publish", op, 1)

\* restoreMainNodeState: all registrations, then all subscriptions
Restore ==
  LET op == job["recover"] c == cur["recover"] k == idx["recover"] IN
  /\ pc["recover"] = "restore"
  /\ \/ /\ state # "Running"
        /\ Drop("recover") /\ UNCHANGED <<mainVars, faults>>
     \/ /\ state = "Running" /\ ~Wanted(op, k)
        /\ Restored /\ UNCHANGED <<owner, clientVars, serviceVars, mainVars, faults>>
     \/ /\ state = "Running" /\ Wanted(op, k) /\ Grantable(op, c, k)
        /\ Grant(op, c, k)
        /\ Restored /\ UNCHANGED <<owner, clientVars, serviceVars, faults>>
     \/ /\ state = "Running" /\ Wanted(op, k) /\ RequestFails(op, c, k)
        /\ Drop("recover") /\ UNCHANGED mainVars
  /\ UNCHANGED <<state, published, recoveryVars, faultVars>>

\* the delay before the next attempt, cut short by stopMainRecovery
Backoff ==
  /\ pc["recover"] = "backoff"
  /\ Recover("attempt") \/ (stopped /\ Recover("idle"))
  /\ UNCHANGED <<state, job, idx, cur, owner, published, clientVars, recoveryVars,
                 serviceVars, mainVars, faults, faultVars>>

Recovery == Await \/ Attempt \/ Check \/ Restore \/ Backoff

-----------------------------------------------------------------------------
(* The application: lookups, and Subscribe while the Node starts or runs *)

Operational == state \in {"Starting", "Running"}

Lookup ==
  /\ "lookup" \in setup.jobs /\ pc["user"] = "idle" /\ Operational
  /\ Work("user", "cached", "lookup", 1)
  /\ UNCHANGED <<state, owner, published, clientVars, recoveryVars, serviceVars,
                 mainVars, faults, faultVars>>

\* subscribeService: before the service is registered the wish is only
\* recorded, for subscribeRuntime to send
Subscribe(k) ==
  /\ "subscribe" \in setup.jobs /\ pc["user"] = "idle" /\ Operational
  /\ desired' = desired \cup {k}
  /\ IF k \in registered
     THEN Work("user", "cached", "subscribe", k) /\ UNCHANGED refused
     ELSE refused' = refused \ {k} /\ UNCHANGED procVars
  /\ UNCHANGED <<state, owner, published, clientVars, recoveryVars, registered,
                 mainVars, faults, faultVars>>

-----------------------------------------------------------------------------
(* Disconnection of a client *)

\* a link fails that was in order
Lost ==
  /\ state \in setup.breakIn /\ Fault
  /\ early' = (early \/ state = "Starting")

\* the network loses an open connection
Break(c) ==
  /\ net[c] = "open" /\ Lost
  /\ net' = [net EXCEPT ![c] = "lost"]
  /\ UNCHANGED <<state, procVars, owner, published, connected, mark, closing,
                 recoveryVars, serviceVars, mainVars, setup>>

\* connected.Swap(false) lets one caller of markDisconnected through
Swap(c, close) ==
  /\ connected' = [connected EXCEPT ![c] = FALSE]
  /\ mark' = [mark EXCEPT ![c] = "swapped"]
  /\ closing' = [closing EXCEPT ![c] = close]

\* OnConnectionBroken
ConnectionBroken(c) ==
  /\ net[c] = "lost"
  /\ net' = [net EXCEPT ![c] = "closed"]
  /\ IF connected[c] THEN Swap(c, FALSE) ELSE UNCHANGED <<connected, mark, closing>>
  /\ UNCHANGED <<state, procVars, owner, published, recoveryVars, serviceVars,
                 mainVars, faults, faultVars>>

\* handleHeartbeatResult with an error: the heartbeat of a published client
\* times out and calls Close
HeartbeatFails(c) ==
  /\ published = c /\ connected[c] /\ state # "Stopped"
  /\ IF net[c] = "open" THEN Lost ELSE UNCHANGED <<faults, early>>
  /\ Swap(c, TRUE)
  /\ UNCHANGED <<state, procVars, owner, published, net, recoveryVars, serviceVars,
                 mainVars, setup>>

\* removeRPCClient
RemoveClient(c) ==
  /\ mark[c] = "swapped"
  /\ mark' = [mark EXCEPT ![c] = "removed"]
  /\ published' = IF published = c THEN NoClient ELSE published
  /\ UNCHANGED <<state, procVars, owner, connected, net, closing, recoveryVars,
                 serviceVars, mainVars, faults, faultVars>>

\* Mutant of MayTrigger: the test of mainRecoveryStopped is inverted.
MayTriggerStopped == state = "Running" /\ stopped

MayTrigger == state = "Running" /\ ~stopped

\* startMainRecovery
StartMainRecovery(c) ==
  /\ mark[c] = "removed"
  /\ trigger' = (trigger \/ MayTrigger)
  /\ mark' = [mark EXCEPT ![c] = IF closing[c] THEN "close" ELSE "no"]
  /\ UNCHANGED <<state, procVars, owner, published, connected, net, closing, stopped,
                 serviceVars, mainVars, faults, faultVars>>

\* the end of Close
CloseMarked(c) ==
  /\ mark[c] = "close"
  /\ mark' = [mark EXCEPT ![c] = "no"]
  /\ connected' = [connected EXCEPT ![c] = FALSE]
  /\ net' = [net EXCEPT ![c] = "closed"]
  /\ closing' = [closing EXCEPT ![c] = FALSE]
  /\ UNCHANGED <<state, procVars, owner, published, recoveryVars, serviceVars,
                 mainVars, faults, faultVars>>

MarkDisconnected(c) == RemoveClient(c) \/ StartMainRecovery(c) \/ CloseMarked(c)

Next ==
  \/ StartNode \/ StopNode \/ Life \/ Recovery
  \/ Lookup \/ \E k \in Services : Subscribe(k)
  \/ \E p \in Procs : Connect(p) \/ Request(p)
  \/ \E c \in Clients :
       \/ Break(c) \/ ConnectionBroken(c) \/ HeartbeatFails(c) \/ MarkDisconnected(c)

Spec == Init /\ [][Next]_vars

\* Every goroutine keeps running, requests time out and the network reports
\* a lost connection.  Nobody has to call Start, Stop or Subscribe.
Fairness ==
  /\ WF_vars(Life \/ Connect("life") \/ Request("life"))
  /\ WF_vars(Recovery \/ Connect("recover"))
  /\ WF_vars(Connect("user") \/ Request("user"))
  /\ \A c \in Clients : WF_vars(ConnectionBroken(c) \/ MarkDisconnected(c))

FairSpec == Spec /\ Fairness

-----------------------------------------------------------------------------
(* What is checked *)

Steps == {"down", "idle", "cached", "guard", "lock", "dial", "store", "hello", "publish",
          "request", "launch", "flag", "names", "next", "up", "halt", "join", "undo",
          "unflag", "network", "close", "finish", "done", "attempt", "check", "restore",
          "backoff", "ended"}

TypeOK ==
  /\ setup \in Setups /\ early \in BOOLEAN
  /\ state \in LifeStates
  /\ pc \in [Procs -> Steps]
  /\ job \in [Procs -> {"connect", "register", "subscribe", "unregister", "lookup"}]
  /\ idx \in [Procs -> 0..N]
  /\ cur \in [Procs -> Clients \cup {NoClient}]
  /\ owner \in Procs \cup {Nobody}
  /\ published \in Clients \cup {NoClient}
  /\ connected \in [Clients -> BOOLEAN]
  /\ net \in [Clients -> {"open", "lost", "closed"}]
  /\ mark \in [Clients -> {"no", "swapped", "removed", "close"}]
  /\ closing \in [Clients -> BOOLEAN]
  /\ trigger \in BOOLEAN /\ stopped \in BOOLEAN
  /\ registered \subseteq Services /\ desired \subseteq Services /\ refused \subseteq Services
  /\ regs \in [Clients -> SUBSET Services]
  /\ subs \in [Clients -> SUBSET Services]
  /\ faults \in 0..MaxFaults

\* At most one client is connected: Start, Stop, the recovery loop and the
\* application never build two links to the main Node at once, whose second
\* RegisterNode the main Node would refuse (node.go:1014-1045,
\* main_recovery.go:65-90).
OneConnection == \A c, d \in Clients : connected[c] /\ connected[d] => c = d

\* A published client is connected, or the goroutine that disconnected it is
\* about to remove it (node.go:1036-1043, rpc_client.go:237-244); and one that
\* counts as connected has a connection, or one whose loss is still to be
\* reported: a callback that runs before connected.Store(true) leaves no dead
\* client in rpcClients (rpc_client.go:42-62, node.go:1054-1060).
PublishedIsLive ==
  published # NoClient =>
    /\ connected[published] \/ mark[published] = "swapped"
    /\ connected[published] => net[published] \in {"open", "lost"}

\* the recovery loop is notified or busy, or a disconnected client is about
\* to notify it
Recovering ==
  \/ trigger
  \/ pc["recover"] # "idle"
  \/ \E c \in Clients : mark[c] \in {"swapped", "removed"}

\* A running Node without a link is about to be reconnected, unless a loss or a
\* call of the application got in the way while it was starting
\* (rpc_client.go:237-249, main_recovery.go:21-42).
RecoveryArmed ==
  ~early /\ state = "Running" /\ ~Usable(published) => Recovering

\* In a running Node whose start was undisturbed in this sense, every service
\* that is registered locally was registered over the link in use, and so was
\* its subscription, unless its Subscribe failed or has not returned
\* (main_recovery.go:152-179, service_subscription.go:117-125,
\* README.md:150-151).
StateRestored ==
  ~early /\ state = "Running" /\ Usable(published) =>
    /\ registered \subseteq regs[published]
    /\ \A k \in desired :
         \/ k \in subs[published] \/ k \in refused
         \/ pc["user"] # "idle" /\ job["user"] = "subscribe" /\ idx["user"] = k

\* A running Node that has lost its connection to the main Node reconnects
\* and restores its services, whenever the connection was lost: it has a link
\* over which all its services are registered, or it is recovering
\* (README.md:150-151, main_recovery.go:21-42, 152-166).
LostLinkRecovers ==
  state = "Running" =>
    \/ Usable(published) /\ registered \subseteq regs[published]
    \/ Recovering

\* After Stop, no connection to the main Node is left open, unless it is just
\* being closed, once the application's calls have returned
\* (node.go:1599-1620, 1644-1657, docs/quickstart.md:13).
StoppedIsClosed ==
  state = "Stopped" /\ pc["user"] = "idle" =>
    \A c \in Clients : net[c] = "open" => mark[c] # "no"

\* A running Node that has lost its link gets a new one unless it is stopped,
\* provided its start was undisturbed
\* (main_recovery.go:44-107, README.md:150).
LinkComesBack ==
  ~early /\ state = "Running" /\ ~Usable(published) ~> Usable(published) \/ state # "Running"

\* Stop and the rollback of a failed Start come to an end, whatever the
\* recovery loop and the application are doing
\* (node.go:1599-1620, 1677-1692, main_recovery.go:138-141).
StopReturns == pc["life"] = "halt" ~> state = "Stopped"
=============================================================================
