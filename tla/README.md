# Verification of xtframework

xtframework runs *Services* inside *Nodes*.  A Node is a process, a Service has
a serial Loop of its own, and one Node, the main Node, keeps the directory that
says which Node runs which Service.  This project models the framework with
TLA+, checks the models with TLC on small instances, and proves the properties
of seven of them with TLAPS for every instance.

Source paths are relative to `src/`.  `PROJECT.json` maps definitions to lines,
lists the hazards the models were built around and the mutants that show each
property can fail.

## The system and its models

| Part | State | What makes it hard | Modules |
|---|---|---|---|
| Route cache (`route_cache.go`) | `entries`, `lookups`, `epoch`, `revisions` | the lock is released while a route is loaded; concurrent misses share a load | RouteCache |
| Sessions, registry and subscription index of the main Node (`node.go:1100-1582`, `registry.go`, `service_subscription.go`) | `remoteNodes`, `services`, the index | requests are checked on one goroutine and run on another; two goroutines may end a session while a third registers it | ServiceDirectory |
| Discovery on the subscriber's side (`service_subscription.go`, `rpc_client.go`) | a handler's list | events of two connections meet on one Loop | Discovery |
| Link to the main Node, recovery, life cycle (`rpc_client.go`, `main_recovery.go`, `node.go`) | `rpcClients`, `connected`, trigger, `state` | Start, Stop, recovery, callbacks and the application share one client | MainLink |
| Heartbeat (`rpc_client.go:194-235`, `node.go:1394-1462`) | probe and expiry timers | timers on both sides, started and stopped by different goroutines | Heartbeat |
| Service calls (`node.go:629-947`, `service.go`) | call timer, `completed`, `responded`, Loops | answer, timer and Stop race for one completion | ServiceCall, CallContract |
| Messages on the wire (`rpc_wire.go`, `node.go`) | pools of request and response objects | objects are reused by many goroutines; 64-bit identifiers meet `int` | RpcWire |
| Configuration (`config.go`, options of `NewNode`) | none | one pass with early returns that changes its input | NodeConfig |
| Construction, Start and Stop of the main Node (`node.go`) | `state`, `started`, `registered`, Loops, loggers | rollback from any point; concurrent Stops; goroutines that wait for Loops | NodeLifecycle |

An action is a stretch of one goroutine between two points at which another
goroutine can see or change the state it works on.  Where an instance has more
than one scenario, a variable chosen in Init says which one it is (`setup`,
`plan`, `use`, `input`, `topic`; `script` holds what is left of it).

xtnet (the Loop, TCP sessions, RPC with timeouts, the time wheel, the log writer) is
outside the repository and is modelled from how the code uses it:

* a Loop runs posted tasks in order, one at a time; tasks left when it has ended
  are not run;
* a connection delivers in order and may lose the end of what was sent;
* a request ends with the first of its response and its timeout;
* timers fire on the control Loop (heartbeat) or on a goroutine of their own
  (service calls), and a closed time wheel fires nothing.

### RouteCache

One action per critical section of `serviceRouteCache.mu`: `ReadHit`/`ReadMiss`
(under the read lock), `WriteHit`/`JoinCall`/`StartCall` (under the write lock),
`Complete` (after the load), `Resume` (a waiter wakes), `Invalidate`,
`InvalidateAll`.  `LoadAnswer` and `LoadError` are the request to the main Node.
A route is a number, the version of the service's placement on the main Node, so
"older" means something.  `known` and `floor` are history: the newest placement a
lookup obtained or an invalidation announced, and its value when a caller's
lookup began.

### ServiceDirectory

The main Node.  `HandleRegisterNode`, `HandleRequest`/`PostRequest`,
`LookupRead`/`LookupAnswer` run on a session's goroutine; `OnSessionClose`,
`RemoveDelete`, `RemovePost` are `removeRemoteNode`, by the network or, from
`HeartbeatTimeout`, on the control Loop; `Dequeue` and the `Write...`,
`BroadcastRoutes`, `Notify...` and `Subscribe` actions are the control Loop at
work on a task.  The registry write, the broadcast of invalidations and the
discovery events are separate steps because session goroutines read the registry
and change `remoteNodes` in between.  A request is checked in one step and posted
in another, so it may come behind the cleanup of its own session.

A client uses a session once.  `told` is what a subscriber believes after
handling, in order, all events sent over a link; `routes` is what a Node may have
cached.  `LookupAnswer` drops an answer that an invalidation overtook, which is
what the route cache does with its revisions (`RouteCache`).  Requests that are
refused before they reach the Loop change nothing and are left out.

### Discovery

The other end of a subscription.  The control Loop pushes a Snapshot, then Online
and Offline events; `Reads` and `Posts` are the goroutine that reads a connection
and posts to the subscriber's Loop, in two steps; `Handles` is the handler that
keeps the list.  The subscriber lives on the main Node or on another, whose
connection may break, lose events and be replaced.  The cleanup of a lost session
(`CleansUp`) runs at any time after the Node's slot was given free, also after the
Node is back: until then the old subscription pushes events into the new
connection (`sendServiceDiscovery` goes by the Node), and the subscriber cannot be
registered again (`Restores`).  A cleanup that comes after that removes the new
subscription too, and then there is none whose list could follow; that this
happens is what ServiceDirectoryLateCleanup shows.

`RPCClient.handleRPCDirect` does not ask whether its client is still the current
one, so an event of an old connection may be posted behind events of the new one;
the model marks it `late`.  `ListFollows` covers that case too: the list is right
about every Service but those that such an event named last.  `NewsIsNew` is about
the events on top of a Snapshot of their own connection.

### MainLink

A Node that is not the main Node.  Three goroutines, `life` (Start, then Stop or
the rollback), `recover` (the recovery loop) and `user` (the application), share
the steps of `getRPCClient`, `connectRPCClient` and `recoverMainNodeClient`:
`Cached`, `Guard`, `Lock`, `Dial`, `Store`, `Hello`, `Publish`.
`markDisconnected` is followed per client: `ConnectionBroken` or
`HeartbeatFails`, `RemoveClient`, `StartMainRecovery`, `CloseMarked`.

The main Node grants a request over an open connection or the request fails.
`regs` and `subs` hold what it has acknowledged over each connection; a request
that took effect without an answer counts as failed.  A service has one
subscription.  The route cache's `invalidateAll` on connect and disconnect
belongs to `RouteCache`.

### Heartbeat

One link over discrete time: the `RPCClient` with its probe timer, the pending
flag and the timeout of the outstanding request, and the `RemoteNode` with its
expiry timer, each with its control Loop and its reading goroutine.  `Tick` lets
a unit pass, and only when nothing is ready to run; within an instant the steps
interleave freely.  `Silence` (packets vanish and nobody is told) and `Crash` (the
opening Node dies) may happen once, at any moment.  Times are 3 s, 2 s and 5 s,
the defaults, in quarters of a second; `Delay`, the longest a packet takes, and
`Restores`, how long restoring the local state may take, belong to the
environment.  `remoteHeartbeatTimeout` is the code's formula.

### ServiceCall and CallContract

`ServiceCall` models the calls: `Begin`, `Arm`, `Dispatch` or `Send`, then
whichever comes first of an answer (`CallRespond`, `ReturnSync`, `ReturnAsync`,
`Receive`), the timer (`TimerFires`, `Expire`) and Stop (`ReturnStopped`).  A
handler is free to answer once, again, late or never, to call other services and
to panic.  The error path after a failed local dispatch (`node.go:695-699,
779-783`) is left out: the target was found in `localServices` and the message ID
validated just before, so dispatch cannot fail.

`CallContract` is the abstract specification: a refused call is told nothing,
another one outcome at most, namely the first answer, a timeout, or that the Node
stopped.  `ServiceCall` implements it under the mapping of `Contract`; the run
checks it as the property `KeepsContract`, and `ServiceCallProofs` proves it.

### RpcWire

One-way messages and synchronous requests from senders to the Services of a Node.
A sender takes a request object from a pool (`Acquire`), fills it (`Fill`), sends
what it holds (`Send`), waits (`Result`, `TimesOut`) and gives it back
(`Release`); the receiving goroutine of a connection takes an object of its own
(`Read`), decodes and posts (`Dispatch`) and gives it back (`Done`); the handler
runs on its Loop and answers.  `initializeDeliverRequest` writes one of the two
message ids, as in the code, so a pool that is not blank would show.  Integers
have a width: `rpcInt` is the comparison of a value with its conversion.  An error
is its kind and whether its text is short enough to be encoded.  A handler may
return any error of the framework, with a code on the wire or without, or one of
its own; `AsTold` says as what it reaches the caller, and `ResultFits` that it
does.  A text that is too long is not sent, so `ResultFits` says nothing of it; to
the caller it is a lost answer (`CallsComplete` of `ServiceCall`).  Connections
break, are forgotten by the receiver, and are replaced.

### NodeConfig and NodeLifecycle

`NodeConfig` holds `Config.Validate` and the checks of `NewNode` as operators:
folds over the nodes and services that carry the error flag, what was seen, and
the configuration as it is left behind.  A string is its text and whether it is
padded, unclean as a path, or capitalised, which is what `TrimSpace`, `Clean` and
`ToLower` change.  `Deployable` is the reference: the same conditions without an
order.  A path may also hide blanks that only `Clean` uncovers (`hides`): "logs /"
becomes "logs ", and a second run of `Validate` cuts that to "logs".  So the second
run may change such a directory once more; `ValidateTwice` excepts it, and no
document says which of the two is meant.

`NodeLifecycle` is the main Node from `NewNode` to the last Loop: validation, the
logger installed in the process, the factories; `Start` with the control Loop,
the server, and each Service's Loop, Start, registration and subscriptions; the
rollback from any point; and `Stop` called by several goroutines.  `callOnLoop` is
a task posted and an answer waited for.  A handler of a Service may call Subscribe
and then waits for the control Loop.

## Runs

| Run | Shows | Distinct states |
|---|---|---|
| RouteCache | no outdated route is cached or returned; loads are merged; waiters have a leader; every lookup returns | 151 thousand |
| ServiceDirectory | a slot can always be released; no orphan registration; no stale route in a connected Node after the push; index consistent; snapshot and events add up to the registry | 3.2 million |
| MainLinkSafety | one connection, no dead client published; recovery is armed; registrations and subscriptions are restored | 2.4 million |
| MainLinkLive | the link comes back; Stop and rollback end | 273 thousand |
| ServiceCall | calls keep the contract and complete; a circle of synchronous calls ends; Stop is not held up | 113 thousand |
| Heartbeat | the chain of probes never breaks; no stray timer; a healthy link is kept, a dead one given up by both ends in time, by the opening Node first | 56 thousand |
| NodeLifecycle | NewNode accepts exactly the sound deployments, validating twice changes nothing more (but for blanks that a path hid), refusing leaves nothing behind; Start, rollback and concurrent Stops leave nothing behind and end | 44 thousand |
| Messages | messages and results arrive unchanged, in order and at most once through pooled objects; a subscriber's list follows the registry | 797 thousand |

Four runs expect a violation.  Each is a place where the code does not do what
the documentation says:

* **ServiceDirectoryLateCleanup.**  `removeRemoteNode` frees the slot of a Node
  before it posts the cleanup, and the cleanup goes by Node ID.  A Node that
  reconnects in between registers a service, and the cleanup of its old session
  takes it away (`node.go:1453-1459`).
* **MainLinkEarlyBreak.**  A connection lost during Start triggers no recovery
  (`main_recovery.go:35`).  If no request follows, the Node runs without a link and
  nothing rebuilds it; if the registration of another service rebuilds it, the
  services before it are not registered again (`node.go:1032-1045`).
* **MainLinkLeak.**  A lookup that begins while the Node starts finds no client and
  may be slow to take `clientCreateMu`.  Start ends, Stop runs to its end, and then
  the lookup connects, publishes its client and leaves an open connection in the
  stopped Node (`node.go:1014-1045`).  Failures are confined to the time after Start
  here (`failIn`), so that the behaviour is one of Stop and not of a failed Start.
* **NodeLifecycleSubscribe.**  A handler on the main Node that passed the checks of
  Subscribe before Stop posts to the control Loop after it has ended.  `callOnLoop`
  waits for ever, the handler keeps its Loop, and `stopService` waits for that Loop
  (`node.go:519-530, 1637`).

The properties of the passing runs that such a behaviour would break are stated
apart from it: `early` in `MainLink` records that the link was disturbed while the
Node started, `Caught` in `NodeLifecycle` that a handler waits for a control Loop
that has ended.

One more limit shows in a precondition.  `HealthyKept` needs restoring to take
less than `remoteHeartbeatTimeout - Interval - 2 * Delay` (3 s minus two packets
with the defaults): the main Node's timer is refreshed by RegisterNode and by
probes only, and the first probe comes an interval after restoring.  A Node with
many services on a slow link is cut off and starts over.

### Bounds

* RouteCache: `MaxPlacement`, `MaxInvalidations` bound how often a route moves and
  is invalidated.  Two callers of one key are the leader and a waiter, or the
  leader of a stale load and the leader of the next one, which is what every
  property is about; the state of different keys is disjoint except for `epoch`.
* ServiceDirectory: two sessions, the old and the new connection of one Node; the
  main Node itself is the second place where a service may run.  A behaviour is
  about lookups or about a watched service (`Uses`).  `MaxQueue` bounds the requests
  on their way to the control Loop; a queued cleanup counts towards it but is never
  held back.
* MainLink: `MaxFaults` bounds breaks and failures; client identities are reused
  once nobody refers to them.  Two services are enough for an order between them.
* ServiceCall: three calls in a circle, or through another Node (`Plans`);
  `MaxResponds` bounds the answers of one handler, and two are enough for a repeated
  one.
* Heartbeat: the time since the fault is capped just above the bound it is compared
  with.  Restoring is instant, short, as long as it may be, or too long.
* NodeLifecycle: configurations around each check of `Validate`; three Services are
  started, so that one fails with one before it and one not reached; two Stops;
  two messages.
* Messages: two objects per pool, two connections, up to three messages of a sender,
  an `int` of three bits, to which an identifier of the scripts is congruent but not
  equal.  Discovery has two instances, two links, two changes and two Subscribes:
  enough for changes before, between and after a Snapshot and the one of the next
  link.  The subscriber on another Node is not yet registered at first, so that two
  links suffice for a cleanup that comes behind its registration.

Symmetry is used for sessions, clients, pooled objects and instances, in runs that
check invariants only.  `CHECK_DEADLOCK FALSE` is set where an instance comes to
rest: a stopped Node, or sessions, calls or scripts that are used up.

### Fairness

Goroutines that can run do run (weak fairness of each goroutine's steps), requests
and timers time out, and a broken connection is reported in the end, by the
network or by the heartbeat.  In `NodeLifecycle` a Loop runs its tasks and ends once
closed, and a call of Start or Stop that has begun goes on.  Nothing is assumed of
the application, of Start and Stop being called, of messages, or of what a handler
answers; a handler does return.  Recovery is promised only once failures end, hence
the bound on them.  `Heartbeat` needs no fairness: its bounds are invariants over
the time that has passed.

## Proofs

For each component there is an inductive invariant (`Inv`, or by the component's name
where a module is about two), a lemma or step per action, and the theorem that it
always holds (`Invariance`); the listed theorems follow from it.  Nothing is assumed
but the `ASSUME`s of the models: distinct values for "none", bounds that are
naturals, plans and timeouts of the right type.  The sets, numbers and bounds are
arbitrary, and so are the scenarios.  The runs check `TypeOK` of `MainLink` and
`NodeLifecycle`; that of the other modules is left to the proofs.

**PeerProofs** is about what a Node keeps of others.  Of `RouteCache`:
`RouteTypeCorrect`, `CachedFresh`, `ReturnedFresh`, `LoadsMerged`, `NoLostWaiter`.
`CachedRouteFresh` does not say why a load that ends may be inserted.  `RouteInv` adds
`StampInv` (the epoch and revision of a load never exceed the cache's, so what is
stale stays stale), `LeaderInv` (the call in `lookups` is under way, and a current
load is the one in `lookups`), `LoadedInv` (a current load holds a route at least as
new as what is known of its key), `KnownInv` and `OutcomeInv` (the same for what a
caller began with and holds) and `DisabledInv`.  Of `Heartbeat`: `TypeCorrect`,
`TimersAreStopped`, `LinksAreProbed`, for any intervals.  `StopInv` says which
goroutine still owes a removed session's timer its Stop, `ChainInv` where the next
link of the chain of probes is.

**ServiceDirectoryProofs**: `TypeCorrect`, `SlotsAreReleasable`, `NoOrphans`,
`IndexIsConsistent`, `RoutesArePushed`, `SubscribersAreTold`, which are all the
invariants of the run.  `Inv` adds `DeletedInv` (the stages of removing a session against
`active`), `TaskInv` (a request carries the Node of its session), `ChangeInv` (until a
change is pushed the registry shows it), `FreshInv` (nothing was pushed to a session
before its Node registered), `LookInv` (a lookup under way holds the registry's route
or is known to be overtaken) and `GrantInv` (the session a registration comes from
holds the slot, or the Node's cleanup comes behind it in the queue, which is what
keeps a late registration from becoming an orphan).

**ServiceCallProofs**: `TypeCorrect`, `ChannelNeverBlocks` and `Implements`, the
refinement `Spec => KeepsContract`.  `Inv` adds `Unique` (at most one handler task and
one callback task of a call exist, over all queues and running tasks), `Carried`
(a callback task carries a valid outcome), `StopsLocal`, and `CallInv`, which relates
for each call the caller's phase, the timer, `completed`, the wire and the channel:
where the one outcome of a completed call is.  `ContractStep` maps every action to a
step of the contract or to a stutter.

**RpcWireProofs**: all four invariants of `RpcWire` that the run `Messages` checks, for
any scripts, objects, connections, breaks and width of `int`.  `WireInv`
(`PoolsAreBlank`) is ownership: an object is in its pool, or with one sender, or with
one reader.  `FlowInv` (`ArrivesAsSent`, `ArrivesInOrder`) follows a message from its
sender's script to the handler.  `Filled` says that a sender's object holds exactly its
message once filled, which needs that it was blank before; `Carried` that every packet
on a connection, or in a reader's hands, encodes a message sent on that connection;
`Arrived` that what waits on a Loop or was handled was sent to that Service.  `Ordered`
compares what was handled, what waits on the Loop, the packet in hand and those on the
wire: each was sent before the next.  It is stated over payloads, so `Distinct` is
needed too: a message is sent once.  `Encodes` and `Decodes` are what the wire format
does to a message.  `ResultInv` (`GetsWhatWasGiven`) says that every result on its way
has the code or the reply of what was given for its request, and that the response
object of a caller with a verdict holds that reply; `CodesAgree` is that
`respondRPCError` and `decodeResult` use the same codes, and an error without one
arrives as a plain one.  `ScriptAssumption` is that
messages have the shape of the code's and that the payload tells one from all others,
which is how the model names a message; `WireAssumption`, that connections are numbered
from 1 and that "none" is no response object.

**MainLinkProofs, MainLinkRunProofs**: all five invariants of
`MainLinkSafety`, for any number of services, clients and faults.  The argument has
three layers, each an invariant that uses the one below.  `LinkInv` (`TypeCorrect`,
`OneLink`, `PublishedLives`) says which goroutine may be at which step, that those
between lock and unlock are alone, and that a connected client is the published one or
in the hands of the holder of `clientCreateMu`.  `StartInv` is about a Start during
which the link was not lost and nobody else connected: the services it is past are
registered and subscribed over the one client.  `RunInv` (`AlwaysRecovering`,
`NothingForgotten`) is about the Node such a Start leaves: it has a link or is
recovering, and the recovery loop has replayed all that it is past.  A subscription
asked for meanwhile is on the link, refused, or its caller still waits.

**NodeLifecycleStartProofs, NodeLifecycleProofs**: `NothingLeft`,
`ServesWhileRegistered`, `StopTakesDown` and `LoggerClosedLast`, for any
configuration, number of Services, messages and concurrent Stops, and whatever fails.
What Start, the rollback and Stop have done to a Service is spread over its Loop, the
two flags, the registry and the answers still on their way, so the invariant follows
the one call at work (`LifeInv`: there is at most one, and `life` says which).
`StageInv` gives the stage of every Service from the step that call is at and from
whether the Service lies before, at or behind `at`: not yet begun, up, withdrawn from
the directory, or stopped with as many Stops as Starts.  `RestInv` says the same of a
Node at which nobody works.  `TaskInv` is what makes the stages hold while tasks wait
in Loops: a task is a handler's, or the one that its caller still waits for, so that
no task of an earlier step runs late.  `LoggerInv` and `ResultInv` tie the loggers and
the results of the calls to `life`.

### Only model-checked

* Liveness: `LookupReturns`, `LinkComesBack`, `CallsComplete`, `StopReturns`,
  `CallsReturn`.  Fairness and ENABLED are beyond the prover.
* `HealthyKept`, `ForgetsLast`, `BothLetGo`: sums of many delays over time.
* `ListFollows`, `NewsIsNew` of `Discovery`: they relate a handler's list to all the
  changes since its subscription, over links that come and go.
* `ValidateExact`, `ValidateTwice`, and that in `TypeOK` of `NodeLifecycle` a Node has a
  positive call timeout and a trimmed address: what a loop computes for every input
  needs induction over data.  The rest of that `TypeOK` is part of the proofs (`Shape`).

## What is not modelled

* **Bytes.**  The encoding by protobuf, the generated code, the messages of the
  directory operations (`rpc_wire.go`), and reading the YAML file (`config.go`).
* **The map of clients to several Nodes** and the address check of
  `cachedRPCClient`.  Its client to the main Node is `MainLink`; a client to another
  Node differs in having no recovery.
* **Stop called from a Service Loop**, which waits for itself; no document promises
  that it works.
* **The factory registry** (a locked map), log output, and the example program.
* **A custom `Registry`** passed as an option: the models use `registry.go`.
