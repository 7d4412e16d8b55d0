----------------------------- MODULE RouteCache -----------------------------
(***************************************************************************)
(* The route cache of a non-main Node (route_cache.go).  Goroutines look a *)
(* service up through the cache; a miss is loaded from the main Node, and  *)
(* concurrent misses of one service share one load.  Invalidations arrive  *)
(* at any moment, also while a load is under way.                          *)
(*                                                                         *)
(* Every critical section of serviceRouteCache.mu is one action.  What the *)
(* load returns is abstracted to the version of the service's placement on *)
(* the main Node at the moment the main Node answered: a larger version is *)
(* a more recent placement.                                                *)
(***************************************************************************)
EXTENDS Integers

CONSTANTS
  Keys,             \* service keys that are looked up
  Callers,          \* goroutines that call lookup
  Enabled,          \* routeCacheEnabled
  TTL,              \* TRUE when the configured TTL is positive
  MaxPlacement,     \* bound on the placements of one service
  MaxInvalidations  \* bound on epoch and on each revision

ASSUME ConfigAssumption == Enabled \in BOOLEAN /\ TTL \in BOOLEAN

ASSUME BoundAssumption == MaxPlacement \in Nat /\ MaxInvalidations \in Nat

VARIABLES
  entries,    \* entries: cached placement of each key, or NoEntry
  expired,    \* keys whose entry has passed its expiresAt
  lookups,    \* lookups: the caller that runs the current call, or NoCaller
  epoch,      \* epoch
  revisions,  \* revisions
  pc,         \* where each caller is in lookup
  key,        \* the key each caller looks up
  call,       \* the routeLookupCall of a caller that loads
  joined,     \* the caller whose call a waiting caller has joined
  result,     \* call.location/err/stale as the caller sees it
  placed,     \* the main Node's current placement of each key
  known,      \* history: the newest placement a lookup of the key obtained,
              \* or that was in force when the key was last invalidated
  floor       \* history: known[key] when the caller's lookup began

cacheVars == <<entries, expired, lookups, epoch, revisions>>
callerVars == <<pc, key, call, joined, result, floor>>
routeVars == <<cacheVars, callerVars, placed, known>>

Placements == 0..MaxPlacement
Stamps == 0..MaxInvalidations
NoEntry == -1
NoCaller == "none"
Failed == -2
NoCall == [epoch |-> 0, revision |-> 0]
NoResult == [value |-> Failed, stale |-> FALSE]

\* A caller is idle, before the read lock, before the write lock, loading
\* (before and after the main Node answered), waiting on another's call,
\* woken by it, or about to return.
Locations == {"idle", "read", "write", "load", "loaded", "wait", "woken", "done"}

ASSUME CallerAssumption == NoCaller \notin Callers

RouteInit ==
  /\ entries = [k \in Keys |-> NoEntry]
  /\ expired = {}
  /\ lookups = [k \in Keys |-> NoCaller]
  /\ epoch = 0
  /\ revisions = [k \in Keys |-> 0]
  /\ pc = [c \in Callers |-> "idle"]
  /\ key \in [Callers -> Keys]
  /\ call = [c \in Callers |-> NoCall]
  /\ joined = [c \in Callers |-> NoCaller]
  /\ result = [c \in Callers |-> NoResult]
  /\ placed = [k \in Keys |-> 0]
  /\ known = [k \in Keys |-> 0]
  /\ floor = [c \in Callers |-> 0]

-----------------------------------------------------------------------------
(* lookup, one action per critical section *)

\* entry exists and its expiresAt is zero or in the future
Live(k) == entries[k] # NoEntry /\ k \notin expired

\* Mutant of Stale: only the epoch is compared.
StaleByEpochOnly(c) == call[c].epoch # epoch

\* Mutant of Stale: only the revision is compared.
StaleByRevisionOnly(c) == call[c].revision # revisions[key[c]]

\* Mutant of Stale: the call's epoch was never set.
StaleAfterInvalidateAll(c) == epoch # 0 \/ call[c].revision # revisions[key[c]]

\* call.stale when the load has ended
Stale(c) == call[c].epoch # epoch \/ call[c].revision # revisions[key[c]]

Goto(c, where) == pc' = [pc EXCEPT ![c] = where]

Return(c, value) ==
  /\ Goto(c, "done")
  /\ result' = [result EXCEPT ![c] = [value |-> value, stale |-> FALSE]]

Begin(c, k) ==
  /\ pc[c] = "idle"
  /\ Goto(c, "read")
  /\ key' = [key EXCEPT ![c] = k]
  /\ floor' = [floor EXCEPT ![c] = known[k]]
  /\ UNCHANGED <<cacheVars, call, joined, result, placed, known>>

\* the check under RLock
ReadHit(c) ==
  /\ pc[c] = "read"
  /\ Live(key[c])
  /\ Return(c, entries[key[c]])
  /\ UNCHANGED <<cacheVars, key, call, joined, floor, placed, known>>

ReadMiss(c) ==
  /\ pc[c] = "read"
  /\ ~ Live(key[c])
  /\ Goto(c, "write")
  /\ UNCHANGED <<cacheVars, key, call, joined, result, floor, placed, known>>

\* the second check under Lock finds an entry another caller has filled
WriteHit(c) ==
  /\ pc[c] = "write"
  /\ Live(key[c])
  /\ Return(c, entries[key[c]])
  /\ UNCHANGED <<cacheVars, key, call, joined, floor, placed, known>>

DropExpired(k) ==
  /\ entries' = [entries EXCEPT ![k] = NoEntry]
  /\ expired' = expired \ {k}

\* a call for k is under way and was started at this epoch and revision
Joinable(k) ==
  LET leader == lookups[k]
  IN  leader # NoCaller /\ call[leader].epoch = epoch /\ call[leader].revision = revisions[k]

JoinCall(c) ==
  /\ pc[c] = "write"
  /\ ~ Live(key[c])
  /\ DropExpired(key[c])
  /\ Joinable(key[c])
  /\ Goto(c, "wait")
  /\ joined' = [joined EXCEPT ![c] = lookups[key[c]]]
  /\ UNCHANGED <<lookups, epoch, revisions, key, call, result, floor, placed, known>>

StartCall(c) ==
  /\ pc[c] = "write"
  /\ ~ Live(key[c])
  /\ DropExpired(key[c])
  /\ ~ Joinable(key[c])
  /\ Goto(c, "load")
  /\ call' = [call EXCEPT ![c] = [epoch |-> epoch, revision |-> revisions[key[c]]]]
  /\ lookups' = [lookups EXCEPT ![key[c]] = c]
  /\ UNCHANGED <<epoch, revisions, key, joined, result, floor, placed, known>>

\* load(): the main Node answers with the placement of this moment ...
LoadAnswer(c) ==
  /\ pc[c] = "load"
  /\ Goto(c, "loaded")
  /\ result' = [result EXCEPT ![c] = [value |-> placed[key[c]], stale |-> FALSE]]
  /\ UNCHANGED <<cacheVars, key, call, joined, floor, placed, known>>

\* ... or the request fails: not found, timeout, disconnected
LoadError(c) ==
  /\ pc[c] = "load"
  /\ Goto(c, "loaded")
  /\ result' = [result EXCEPT ![c] = [value |-> Failed, stale |-> FALSE]]
  /\ UNCHANGED <<cacheVars, key, call, joined, floor, placed, known>>

\* The waiters of c's call see its outcome once call.done is closed.  The
\* fields of a call never change afterwards, so each waiter takes a copy.
\* Mutant of Waiters: call.done is not closed.
NoWaiters(c) == {}

Waiters(c) == {w \in Callers : pc[w] = "wait" /\ joined[w] = c}

\* Mutant of ForgetLookup: the key's call is deleted whoever started it.
ForgetAnyLookup(c) == lookups' = [lookups EXCEPT ![key[c]] = NoCaller]

\* the call is deleted unless a newer call has replaced it
ForgetLookup(c) == lookups' = [lookups EXCEPT ![key[c]] = IF @ = c THEN NoCaller ELSE @]

Complete(c) ==
  LET k     == key[c]
      stale == Stale(c)
      value == result[c].value
      out   == [value |-> value, stale |-> stale]
  IN  /\ pc[c] = "loaded"
      /\ IF ~ stale /\ value # Failed /\ Enabled
         THEN /\ entries' = [entries EXCEPT ![k] = value]
              /\ expired' = expired \ {k}
         ELSE UNCHANGED <<entries, expired>>
      /\ ForgetLookup(c)
      /\ call' = [call EXCEPT ![c] = NoCall]
      /\ pc' = [d \in Callers |-> IF d = c THEN IF stale THEN "read" ELSE "done"
                                  ELSE IF d \in Waiters(c) THEN "woken"
                                  ELSE pc[d]]
      /\ result' = [d \in Callers |-> IF d = c THEN IF stale THEN NoResult ELSE out
                                      ELSE IF d \in Waiters(c) THEN out
                                      ELSE result[d]]
      /\ known' = [known EXCEPT ![k] = IF ~ stale /\ value > @ THEN value ELSE @]
      /\ UNCHANGED <<epoch, revisions, key, joined, floor, placed>>

\* a woken waiter retries when the call it joined went stale
Resume(c) ==
  /\ pc[c] = "woken"
  /\ joined' = [joined EXCEPT ![c] = NoCaller]
  /\ IF result[c].stale
     THEN Goto(c, "read") /\ result' = [result EXCEPT ![c] = NoResult]
     ELSE Goto(c, "done") /\ UNCHANGED result
  /\ UNCHANGED <<cacheVars, key, call, floor, placed, known>>

End(c) ==
  /\ pc[c] = "done"
  /\ Goto(c, "idle")
  /\ result' = [result EXCEPT ![c] = NoResult]
  /\ floor' = [floor EXCEPT ![c] = 0]
  /\ UNCHANGED <<cacheVars, key, call, joined, placed, known>>

-----------------------------------------------------------------------------
(* invalidation, expiry and the main Node *)

Invalidate(k) ==
  /\ revisions[k] < MaxInvalidations
  /\ entries' = [entries EXCEPT ![k] = NoEntry]
  /\ expired' = expired \ {k}
  /\ revisions' = [revisions EXCEPT ![k] = @ + 1]
  /\ known' = [known EXCEPT ![k] = placed[k]]
  /\ UNCHANGED <<lookups, epoch, callerVars, placed>>

InvalidateAll ==
  /\ epoch < MaxInvalidations
  /\ entries' = [k \in Keys |-> NoEntry]
  /\ expired' = {}
  /\ epoch' = epoch + 1
  /\ known' = placed
  /\ UNCHANGED <<lookups, revisions, callerVars, placed>>

\* time passes an entry's expiresAt
ExpireEntry(k) ==
  /\ TTL
  /\ Live(k)
  /\ expired' = expired \cup {k}
  /\ UNCHANGED <<entries, lookups, epoch, revisions, callerVars, placed, known>>

\* the service moves to another Node, or registers again
Place(k) ==
  /\ placed[k] < MaxPlacement
  /\ placed' = [placed EXCEPT ![k] = @ + 1]
  /\ UNCHANGED <<cacheVars, callerVars, known>>

Lookup(c) ==
  \/ ReadHit(c) \/ ReadMiss(c)
  \/ WriteHit(c) \/ JoinCall(c) \/ StartCall(c)
  \/ LoadAnswer(c) \/ LoadError(c) \/ Complete(c)
  \/ Resume(c) \/ End(c)

RouteNext ==
  \/ \E c \in Callers : Lookup(c) \/ \E k \in Keys : Begin(c, k)
  \/ \E k \in Keys : Invalidate(k) \/ ExpireEntry(k) \/ Place(k)
  \/ InvalidateAll

RouteSpec == RouteInit /\ [][RouteNext]_routeVars

\* Go runs every runnable goroutine, and a load ends: requestSync has a
\* timeout.  Nothing is assumed of invalidations, of time or of new lookups.
RouteFairness == \A c \in Callers : WF_routeVars(Lookup(c))

FairRouteSpec == RouteSpec /\ RouteFairness

-----------------------------------------------------------------------------
(* what is checked *)

RouteTypeOK ==
  /\ entries \in [Keys -> Placements \cup {NoEntry}]
  /\ expired \subseteq Keys
  /\ lookups \in [Keys -> Callers \cup {NoCaller}]
  /\ epoch \in Stamps
  /\ revisions \in [Keys -> Stamps]
  /\ pc \in [Callers -> Locations]
  /\ key \in [Callers -> Keys]
  /\ call \in [Callers -> [epoch : Stamps, revision : Stamps]]
  /\ joined \in [Callers -> Callers \cup {NoCaller}]
  /\ result \in [Callers -> [value : Placements \cup {Failed}, stale : BOOLEAN]]
  /\ placed \in [Keys -> Placements]
  /\ known \in [Keys -> Placements]
  /\ floor \in [Callers -> Placements]

InFlight(c) == pc[c] \in {"load", "loaded"}

\* A cached route is never older than the placement in force when its key was
\* last invalidated, nor than a route some lookup already obtained: a load
\* that was overtaken by invalidate or invalidateAll is not inserted
\* (route_cache.go:88-98).
CachedRouteFresh ==
  \A k \in Keys : entries[k] # NoEntry => entries[k] >= known[k]

\* A lookup never returns a route older than one obtained, or invalidated,
\* before the lookup began, whether it hit the cache, loaded the route or
\* joined another caller's load (route_cache.go:49-51, 67-74, 104-107).
ReturnedRouteFresh ==
  \A c \in Callers :
    pc[c] = "done" /\ result[c].value # Failed => result[c].value >= floor[c]

\* Concurrent misses of one key send the main Node one request: two loads of
\* the same key are under way together only if an invalidation came between
\* their starts (route_cache.go:67-80, docs/quickstart.md:113).
SingleFlight ==
  \A c, d \in Callers :
    InFlight(c) /\ InFlight(d) /\ key[c] = key[d] /\ call[c] = call[d] => c = d

\* A caller that waits on call.done waits on a load of its own key that is
\* still under way, so somebody is left to close the channel, also when a
\* newer call has replaced it in lookups (route_cache.go:69, 99-102).
WaiterHasLeader ==
  \A c \in Callers :
    pc[c] = "wait" => \E d \in Callers :
      d = joined[c] /\ InFlight(d) /\ key[d] = key[c]

\* Every lookup returns once invalidations stop arriving: a stale load makes
\* the caller and its waiters retry, never hang (route_cache.go:70-72, 104).
LookupReturns == \A c \in Callers : pc[c] # "idle" ~> pc[c] = "idle"
=============================================================================
