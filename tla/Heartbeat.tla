------------------------------ MODULE Heartbeat ------------------------------
(***************************************************************************)
(* One RPC link between two Nodes over time: the RPCClient of the Node     *)
(* that opened it, with its heartbeat probes (rpc_client.go), and the      *)
(* RemoteNode of the Node that accepted it, with its expiry timer          *)
(* (node.go).  A behaviour starts when the TCP connection is accepted and  *)
(* follows the RegisterNode request, the restoring of the local state, the *)
(* probes, and the end of the link by a fault or by either Node.           *)
(*                                                                         *)
(* Time is discrete.  Tick lets one unit pass, and only when nothing is    *)
(* ready to run: the control Loops and the read goroutines are quick       *)
(* against the unit, but their steps within one instant interleave freely. *)
(* A packet takes 0..Delay units while the network is good.                *)
(***************************************************************************)
EXTENDS Integers, Sequences

CONSTANTS Interval,        \* heartbeatInterval
          Timeout,         \* heartbeatTimeout
          ConnectTimeout,  \* connectTimeout
          Delay,           \* the longest a packet takes on a good network
          Restores         \* how long restoring the local state may take

ASSUME HeartbeatOptions ==
    /\ {Interval, Timeout, ConnectTimeout} \subseteq Nat \ {0}
    /\ Timeout < Interval
    /\ Delay \in Nat
    /\ Restores \subseteq Nat

\* A timer that is not running.
Off == -1

\* Mutant of remoteHeartbeatTimeout: there is no margin.
NoMargin == Interval + Timeout

\* How long the accepting Node waits for the next sign of life.
remoteHeartbeatTimeout == Interval + Timeout + Interval \div 3

VARIABLES
    net,        \* "ok", "silent": packets vanish and nobody is told
    toServer,   \* the packets on their way, oldest first, with their age
    toClient,
    restore,    \* the longest that restoring takes in this behaviour
    age,        \* how long restoring has taken so far
    quiet,      \* the time since the fault, capped
    fault,      \* whether the network or the Node has failed
    \* The Node that opened the link.
    phase,      \* "register", "restore", "up", "closed", "crashed"
    connected,  \* RPCClient.connected
    probe,      \* RPCClient.heartbeatTimer: the time left
    pending,    \* RPCClient.heartbeatPending
    waiting,    \* the time left for the outstanding request
    cLoop,      \* tasks posted to its control Loop
    cStep,      \* what the task running there does next
    cClose,     \* what markDisconnected does next in the read goroutine
    \* The Node that accepted it.
    active,     \* RemoteNode.active
    listed,     \* whether remoteNodes holds this RemoteNode
    expiry,     \* RemoteNode.heartbeatTimer: the time left
    open,       \* whether the session is open
    sLoop,      \* tasks posted to its control Loop
    sStep,      \* what the task running there does next
    sClose,     \* what removeRemoteNode does next in the read goroutine
    timedOut    \* history: the expiry timer ended the session

netVars == <<net, toServer, toClient>>
faultVars == <<restore, quiet, fault>>
timeVars == <<restore, age, quiet, fault>>
clientVars == <<phase, connected, probe, pending, waiting, cLoop, cStep, cClose>>
serverVars == <<active, listed, expiry, open, sLoop, sStep, sClose, timedOut>>
vars == <<netVars, timeVars, clientVars, serverVars>>

Packet(kind) == [kind |-> kind, age |-> 0]

\* A packet handed to the network, which a silent network swallows.
Sent(channel, kind) ==
    IF net = "ok" THEN Append(channel, Packet(kind)) ELSE channel

Arriving(channel, kind) == channel # <<>> /\ Head(channel).kind = kind

\* The connection is accepted: OnAccept has created the RemoteNode and posted
\* the arming of its timer, and connectRPCClient has sent RegisterNode.
Init ==
    /\ net = "ok" /\ toServer = <<Packet("register")>> /\ toClient = <<>>
    /\ restore \in Restores /\ age = 0 /\ quiet = 0 /\ fault = FALSE
    /\ phase = "register" /\ connected = TRUE
    /\ probe = Off /\ pending = FALSE /\ waiting = ConnectTimeout
    /\ cLoop = <<>> /\ cStep = "idle" /\ cClose = "idle"
    /\ active = TRUE /\ listed = FALSE /\ expiry = Off /\ open = TRUE
    /\ sLoop = <<"arm">> /\ sStep = "idle" /\ sClose = "idle"
    /\ timedOut = FALSE

-----------------------------------------------------------------------------
(* The Node that opened the link. *)

\* connectRPCClient: the answer to RegisterNode, or its timeout.
Registered ==
    /\ phase = "register" /\ connected
    /\ Arriving(toClient, "registered")
    /\ toClient' = Tail(toClient)
    /\ phase' = "restore" /\ waiting' = ConnectTimeout
    /\ UNCHANGED <<net, toServer, timeVars, connected, probe, pending, cLoop,
                   cStep, cClose, serverVars>>

\* closeTransport: the flag, the timer and the socket.
closeTransport ==
    /\ phase' = "closed" /\ connected' = FALSE
    /\ probe' = Off /\ waiting' = Off
    /\ toServer' = Sent(toServer, "fin")

\* A request of the set-up was refused or ended without an answer, or the link
\* was lost before it was published.
SetupFails ==
    /\ phase \in {"register", "restore"}
    /\ waiting = 0 \/ Arriving(toClient, "refused") \/ ~connected
    /\ cClose = "idle"
    /\ closeTransport
    /\ UNCHANGED <<net, toClient, timeVars, pending, cLoop, cStep, cClose,
                   serverVars>>

\* Restoring goes on: its requests are answered, or there is nothing to restore.
Restoring == phase = "restore" /\ (net = "ok" \/ restore = 0)

\* recoverMainNode: restoreMainNodeState has returned, the client is published
\* under clientsMu while it is connected, and startHeartbeat is posted.
Publish ==
    /\ Restoring /\ connected
    /\ phase' = "up" /\ waiting' = Off
    /\ cLoop' = Append(cLoop, "start")
    /\ UNCHANGED <<netVars, timeVars, connected, probe, pending, cStep, cClose,
                   serverVars>>

\* sendHeartbeat, run by the timer: nothing on a dead link or while a probe is
\* out; otherwise the probe is marked before requestAsync is called.
sendHeartbeat ==
    /\ probe = 0 /\ cStep = "idle"
    /\ probe' = Off
    /\ IF connected /\ ~pending
         THEN pending' = TRUE /\ cStep' = "request"
         ELSE UNCHANGED <<pending, cStep>>
    /\ UNCHANGED <<netVars, timeVars, phase, connected, waiting, cLoop, cClose,
                   serverVars>>

\* requestAsync: it refuses on a link that has just been lost, and sendHeartbeat
\* then handles the error itself.
requestAsync ==
    /\ cStep = "request"
    /\ cStep' = "idle"
    /\ IF connected
         THEN /\ waiting' = Timeout
              /\ toServer' = Sent(toServer, "heartbeat")
              /\ UNCHANGED pending
         ELSE pending' = FALSE /\ UNCHANGED <<waiting, toServer>>
    /\ UNCHANGED <<net, toClient, timeVars, phase, connected, probe, cLoop,
                   cClose, serverVars>>

\* The callback of the probe: the result is posted while the link is up.
ProbeResult(result) ==
    /\ waiting' = Off
    /\ cLoop' = IF connected THEN Append(cLoop, result) ELSE cLoop

HeartbeatAnswered ==
    /\ phase = "up" /\ waiting # Off
    /\ \E answer \in {"ok", "refused"} :
          /\ Arriving(toClient, answer)
          /\ ProbeResult(answer)
    /\ toClient' = Tail(toClient)
    /\ UNCHANGED <<net, toServer, timeVars, phase, connected, probe, pending,
                   cStep, cClose, serverVars>>

HeartbeatTimesOut ==
    /\ phase = "up" /\ waiting = 0
    /\ ProbeResult("refused")
    /\ UNCHANGED <<netVars, timeVars, phase, connected, probe, pending, cStep,
                   cClose, serverVars>>

\* An answer nobody waits for any more.
LateAnswer ==
    /\ toClient # <<>> /\ Head(toClient).kind # "fin"
    /\ phase \in {"closed", "crashed"} \/ (phase = "up" /\ waiting = Off)
    /\ toClient' = Tail(toClient)
    /\ UNCHANGED <<net, toServer, timeVars, clientVars, serverVars>>

NextTask == cStep = "idle" /\ cLoop # <<>> /\ cLoop' = Tail(cLoop)

\* The task of startHeartbeat: Connected is read before the timer is started.
startHeartbeat ==
    /\ NextTask /\ Head(cLoop) = "start"
    /\ cStep' = IF connected THEN "schedule" ELSE "idle"
    /\ UNCHANGED <<netVars, timeVars, phase, connected, probe, pending,
                   waiting, cClose, serverVars>>

\* Mutant of AfterAnswer: the next probe is not scheduled.
NoNextProbe == "idle"

\* An answered probe on a live link is followed by the next one.
AfterAnswer == IF pending /\ connected THEN "schedule" ELSE "idle"

\* handleHeartbeatResult: a failed probe closes the link at once, with no
\* second try.
handleHeartbeatResult ==
    /\ NextTask /\ Head(cLoop) \in {"ok", "refused"}
    /\ pending' = FALSE
    /\ IF pending /\ connected /\ Head(cLoop) = "refused"
         THEN closeTransport /\ UNCHANGED cStep
         ELSE /\ cStep' = AfterAnswer
              /\ UNCHANGED <<phase, connected, probe, waiting, toServer>>
    /\ UNCHANGED <<net, toClient, timeVars, cClose, serverVars>>

NextProbe == Interval

\* scheduleHeartbeat.
scheduleHeartbeat ==
    /\ cStep = "schedule"
    /\ cStep' = "idle" /\ probe' = NextProbe
    /\ UNCHANGED <<netVars, timeVars, phase, connected, pending, waiting,
                   cLoop, cClose, serverVars>>

\* OnConnectionBroken calls markDisconnected in the read goroutine: the flag
\* first, then the timer.
ConnectionBroken ==
    /\ Arriving(toClient, "fin") /\ cClose = "idle"
    /\ toClient' = Tail(toClient)
    /\ connected' = FALSE
    /\ cClose' = IF connected THEN "stop" ELSE "idle"
    /\ UNCHANGED <<net, toServer, timeVars, phase, probe, pending, waiting,
                   cLoop, cStep, serverVars>>

markDisconnected ==
    /\ cClose = "stop"
    /\ cClose' = "idle" /\ probe' = Off /\ waiting' = Off
    /\ phase' = IF phase = "up" THEN "closed" ELSE phase
    /\ UNCHANGED <<netVars, timeVars, connected, pending, cLoop, cStep,
                   serverVars>>

-----------------------------------------------------------------------------
(* The Node that accepted the link. *)

Arrives(kind) == open /\ Arriving(toServer, kind) /\ sClose = "idle"

\* Mutant of Refreshed: a probe is answered and nothing else.
NotRefreshed == sLoop

\* refreshRemoteHeartbeat posts the arming of the timer.
Refreshed == Append(sLoop, "arm")

\* handleRegisterNode on an active session: the RemoteNode enters remoteNodes
\* and the timer starts afresh.
handleRegisterNode ==
    /\ Arrives("register")
    /\ toServer' = Tail(toServer)
    /\ listed' = active
    /\ sLoop' = IF active THEN Refreshed ELSE sLoop
    /\ toClient' = Sent(toClient, IF active THEN "registered" ELSE "refused")
    /\ UNCHANGED <<net, timeVars, clientVars, active, expiry, open, sStep,
                   sClose, timedOut>>

\* opHeartbeat in handleRPCRequest: an unregistered session is refused.
refreshRemoteHeartbeat ==
    /\ Arrives("heartbeat")
    /\ toServer' = Tail(toServer)
    /\ LET registered == active /\ listed
       IN  /\ sLoop' = IF registered THEN Refreshed ELSE sLoop
           /\ toClient' = Sent(toClient, IF registered THEN "ok" ELSE "refused")
    /\ UNCHANGED <<net, timeVars, clientVars, active, listed, expiry, open,
                   sStep, sClose, timedOut>>

\* OnSessionClose calls removeRemoteNode in the read goroutine.
SessionClosed ==
    /\ Arrives("fin")
    /\ toServer' = Tail(toServer)
    /\ open' = FALSE /\ active' = FALSE
    /\ sClose' = IF active THEN "stop" ELSE "idle"
    /\ UNCHANGED <<net, toClient, timeVars, clientVars, listed, expiry, sLoop,
                   sStep, timedOut>>

SessionTimerStopped ==
    /\ sClose = "stop"
    /\ sClose' = "delete" /\ expiry' = Off
    /\ UNCHANGED <<netVars, timeVars, clientVars, active, listed, open, sLoop,
                   sStep, timedOut>>

\* Mutant of DeleteEntry: the entry of a removed session stays.
KeepEntry == UNCHANGED listed

\* removeRemoteNode takes the session out of remoteNodes.
DeleteEntry == listed' = FALSE

SessionForgotten ==
    /\ sClose = "delete"
    /\ sClose' = "idle" /\ DeleteEntry
    /\ UNCHANGED <<netVars, timeVars, clientVars, active, expiry, open, sLoop,
                   sStep, timedOut>>

\* Packets for a session that is gone.
Unread ==
    /\ ~open /\ toServer # <<>>
    /\ toServer' = Tail(toServer)
    /\ UNCHANGED <<net, toClient, timeVars, clientVars, serverVars>>

\* Mutant of AfterStart: active is not read a second time.
NoRecheck == "idle"

\* What the task of armRemoteNodeTimeout does once the timer runs.
AfterStart == "recheck"

\* armRemoteNodeTimeout on the control Loop: active is read, the timer is
\* started, and active is read again because removeRemoteNode may have run in
\* between and stopped a timer that was not started yet.
ArmChecked ==
    /\ sStep = "idle" /\ sLoop # <<>> /\ Head(sLoop) = "arm"
    /\ sLoop' = Tail(sLoop)
    /\ sStep' = IF active THEN "start" ELSE "idle"
    /\ UNCHANGED <<netVars, timeVars, clientVars, active, listed, expiry, open,
                   sClose, timedOut>>

ArmStarted ==
    /\ sStep = "start"
    /\ sStep' = AfterStart /\ expiry' = remoteHeartbeatTimeout
    /\ UNCHANGED <<netVars, timeVars, clientVars, active, listed, open, sLoop,
                   sClose, timedOut>>

ArmRechecked ==
    /\ sStep = "recheck"
    /\ sStep' = "idle"
    /\ expiry' = IF active THEN expiry ELSE Off
    /\ UNCHANGED <<netVars, timeVars, clientVars, active, listed, open, sLoop,
                   sClose, timedOut>>

\* The time wheel posts the callback of a timer that has run down.
ExpiryDue ==
    /\ expiry = 0
    /\ expiry' = Off /\ sLoop' = Append(sLoop, "expire")
    /\ UNCHANGED <<netVars, timeVars, clientVars, active, listed, open, sStep,
                   sClose, timedOut>>

\* removeRemoteNode run by the timer on the control Loop.
Expire ==
    /\ sStep = "idle" /\ sLoop # <<>> /\ Head(sLoop) = "expire"
    /\ sLoop' = Tail(sLoop)
    /\ active' = FALSE
    /\ sStep' = IF active THEN "stop" ELSE "idle"
    /\ timedOut' = (timedOut \/ active)
    /\ UNCHANGED <<netVars, timeVars, clientVars, listed, expiry, open, sClose>>

\* Its later steps: the timer is stopped, the entry is deleted, and the session
\* is closed.
ExpireEnds ==
    /\ sStep = "stop"
    /\ sStep' = "idle"
    /\ expiry' = Off /\ DeleteEntry /\ open' = FALSE
    /\ toClient' = IF open THEN Sent(toClient, "fin") ELSE toClient
    /\ UNCHANGED <<net, toServer, timeVars, clientVars, active, sLoop, sClose,
                   timedOut>>

-----------------------------------------------------------------------------
(* Faults and time. *)

\* The network goes silent: what is in flight is lost and nobody is told.
Silence ==
    /\ ~fault
    /\ net' = "silent" /\ toServer' = <<>> /\ toClient' = <<>>
    /\ fault' = TRUE
    /\ UNCHANGED <<restore, age, quiet, clientVars, serverVars>>

\* The process of the Node that opened the link dies; its system closes the
\* socket.
Crash ==
    /\ ~fault
    /\ fault' = TRUE
    /\ phase' = "crashed" /\ connected' = FALSE /\ pending' = FALSE
    /\ probe' = Off /\ waiting' = Off
    /\ cLoop' = <<>> /\ cStep' = "idle" /\ cClose' = "idle"
    /\ toServer' = Sent(toServer, "fin")
    /\ UNCHANGED <<net, toClient, restore, age, quiet, serverVars>>

Idle ==
    /\ cLoop = <<>> /\ cStep = "idle" /\ cClose = "idle"
    /\ sLoop = <<>> /\ sStep = "idle" /\ sClose = "idle"

\* Nothing has run out of time: every packet may take longer, no timer is due,
\* and restoring may take longer.
Waits ==
    /\ \A channel \in {toServer, toClient} :
          \A i \in DOMAIN channel : channel[i].age < Delay
    /\ 0 \notin {probe, waiting, expiry}
    /\ Restoring => age < restore

Older(channel) == [i \in DOMAIN channel |->
                      [channel[i] EXCEPT !.age = @ + 1]]

Down(timer) == IF timer = Off THEN Off ELSE timer - 1

\* The requests of restoring each have their own timeout, so theirs runs only
\* once an answer stays away.
Tick ==
    /\ Idle /\ Waits
    /\ toServer' = Older(toServer) /\ toClient' = Older(toClient)
    /\ probe' = Down(probe) /\ expiry' = Down(expiry)
    /\ waiting' = IF Restoring THEN waiting ELSE Down(waiting)
    /\ age' = IF Restoring THEN age + 1 ELSE age
    /\ quiet' = IF fault /\ quiet <= remoteHeartbeatTimeout THEN quiet + 1
                ELSE quiet
    /\ UNCHANGED <<net, restore, fault, phase, connected, pending, cLoop,
                   cStep, cClose, active, listed, open, sLoop, sStep, sClose,
                   timedOut>>

ClientNext ==
    \/ Registered \/ SetupFails \/ Publish
    \/ sendHeartbeat \/ requestAsync
    \/ HeartbeatAnswered \/ HeartbeatTimesOut \/ LateAnswer
    \/ startHeartbeat \/ handleHeartbeatResult \/ scheduleHeartbeat
    \/ ConnectionBroken \/ markDisconnected

ServerNext ==
    \/ handleRegisterNode \/ refreshRemoteHeartbeat
    \/ SessionClosed \/ SessionTimerStopped \/ SessionForgotten \/ Unread
    \/ ArmChecked \/ ArmStarted \/ ArmRechecked
    \/ ExpiryDue \/ Expire \/ ExpireEnds

Next == ClientNext \/ ServerNext \/ Silence \/ Crash \/ Tick

Spec == Init /\ [][Next]_vars

-----------------------------------------------------------------------------
PacketKinds == {"register", "registered", "heartbeat", "ok", "refused", "fin"}
Packets == [kind : PacketKinds, age : 0..Delay]

\* The type of the state; Off marks a timer that is not running.
TypeOK ==
    /\ net \in {"ok", "silent"}
    /\ toServer \in Seq(Packets) /\ toClient \in Seq(Packets)
    /\ restore \in Restores /\ age \in 0..restore
    /\ quiet \in 0..(remoteHeartbeatTimeout + 1) /\ fault \in BOOLEAN
    /\ phase \in {"register", "restore", "up", "closed", "crashed"}
    /\ connected \in BOOLEAN /\ pending \in BOOLEAN
    /\ probe \in {Off} \cup 0..Interval
    /\ waiting \in {Off} \cup 0..ConnectTimeout \cup 0..Timeout
    /\ cLoop \in Seq({"start", "ok", "refused"})
    /\ cStep \in {"idle", "request", "schedule"}
    /\ cClose \in {"idle", "stop"}
    /\ active \in BOOLEAN /\ listed \in BOOLEAN
    /\ expiry \in {Off} \cup 0..remoteHeartbeatTimeout
    /\ open \in BOOLEAN /\ timedOut \in BOOLEAN
    /\ sLoop \in Seq({"arm", "expire"})
    /\ sStep \in {"idle", "start", "recheck", "stop"}
    /\ sClose \in {"idle", "stop", "delete"}

\* The chain of probes never breaks on a live link: once its control Loop has
\* nothing left to do, a published and connected RPCClient either has its
\* timer running or a probe out (rpc_client.go:206-235), never both.
ProbeChain ==
    phase = "up" /\ connected /\ cLoop = <<>> /\ cStep = "idle"
        => (probe # Off) # (pending /\ waiting # Off)

\* When a session has been removed and nobody works on it any more, its timer
\* does not run, whichever of removeRemoteNode and armRemoteNodeTimeout came
\* first (node.go:1431-1436, 1442-1446).
NoStrayTimer ==
    ~active /\ sLoop = <<>> /\ sStep = "idle" /\ sClose = "idle"
        => expiry = Off

\* Neither Node gives up a link over which nothing has gone wrong, as long as
\* restoring leaves time for the first probe: the expiry timer is refreshed by
\* RegisterNode and by probes only (node.go:281, 1135, 1415), and the first
\* probe follows restoring by a whole interval.
HealthyKept ==
    ~fault /\ restore + Interval + 2 * Delay < remoteHeartbeatTimeout
        => connected /\ active /\ open

\* The third of an interval in remoteHeartbeatTimeout (node.go:281) is what
\* lets the Node that opened a silent link give it up first: the other end
\* never forgets a Node that still takes itself for connected.
ForgetsLast ==
    timedOut /\ restore + Delay < Interval \div 3
            /\ ConnectTimeout <= Interval + Timeout
        => ~connected

\* Whatever the link was doing when it went silent or its Node died, both ends
\* have let go of it within remoteHeartbeatTimeout: the accepting Node has
\* deleted the entry that would refuse the Node's return (node.go:1406) and
\* the opening Node has noticed the loss.
BothLetGo ==
    quiet > remoteHeartbeatTimeout => ~listed /\ ~connected

=============================================================================
