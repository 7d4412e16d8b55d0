----------------------------- MODULE PeerProofs ------------------------------
(***************************************************************************)
(* Proofs about what a Node keeps of other Nodes: the routes to their      *)
(* services, for any keys and callers and any number of placements and     *)
(* invalidations (RouteCache), and a live connection, for any interval,    *)
(* timeouts, delay and time that restoring takes (Heartbeat).              *)
(***************************************************************************)
EXTENDS RouteCache, Heartbeat, TLAPS

(* The cache of routes *)

\* the epoch and revision of c's call are those of the cache
Current(c) == call[c].epoch = epoch /\ call[c].revision = revisions[key[c]]

\* Stamps only grow, so a call that is no longer current never is again.
StampInv ==
  \A c \in Callers : InFlight(c) =>
    call[c].epoch <= epoch /\ call[c].revision <= revisions[key[c]]

\* The call in lookups is under way, and a current call is in lookups.
LeaderInv ==
  /\ \A k \in Keys : lookups[k] # NoCaller => InFlight(lookups[k]) /\ key[lookups[k]] = k
  /\ \A c \in Callers : InFlight(c) /\ Current(c) => lookups[key[c]] = c

\* What a caller's lookup began with is not newer than what is known now, and
\* nothing known is newer than the main Node's placement.
KnownInv ==
  /\ \A k \in Keys : known[k] <= placed[k]
  /\ \A c \in Callers : pc[c] # "idle" => floor[c] <= known[key[c]]

\* A loaded route that may still be inserted is as new as what is known.
LoadedInv ==
  \A c \in Callers : pc[c] = "loaded" /\ result[c].value # Failed =>
    /\ result[c].value <= placed[key[c]]
    /\ Current(c) => result[c].value >= known[key[c]]

\* So is the outcome a woken or returning caller holds.
OutcomeInv ==
  \A c \in Callers :
    /\ pc[c] = "done" \/ (pc[c] = "woken" /\ ~ result[c].stale)
    /\ result[c].value # Failed
    => result[c].value >= floor[c]

\* A disabled cache stays empty.
DisabledInv == ~ Enabled => \A k \in Keys : entries[k] = NoEntry

RouteInv ==
  /\ RouteTypeOK /\ DisabledInv /\ StampInv /\ LeaderInv /\ KnownInv /\ LoadedInv /\ OutcomeInv
  /\ CachedRouteFresh /\ SingleFlight /\ WaiterHasLeader

-----------------------------------------------------------------------------
USE DEF Placements, Stamps, NoEntry, Failed, NoCall, NoResult

\* The initial states satisfy the invariant: nothing is cached, nobody looks
\* anything up.
LEMMA RouteInitInv == RouteInit => RouteInv
<1> SUFFICES ASSUME RouteInit PROVE RouteInv
  OBVIOUS
<1> USE BoundAssumption DEF RouteInit
<1>1. RouteTypeOK
  BY DEF RouteTypeOK, Locations
<1>2. StampInv /\ LeaderInv /\ KnownInv /\ LoadedInv /\ OutcomeInv
  BY DEF StampInv, LeaderInv, KnownInv, LoadedInv, OutcomeInv, InFlight, Current
<1>3. DisabledInv /\ CachedRouteFresh /\ SingleFlight /\ WaiterHasLeader
  BY Zenon DEF DisabledInv, CachedRouteFresh, SingleFlight, WaiterHasLeader, InFlight
<1> QED
  BY <1>1, <1>2, <1>3, Zenon DEF RouteInv

\* Every step of every action keeps every variable in its type.
LEMMA RouteTypeStep == RouteTypeOK /\ [RouteNext]_routeVars => RouteTypeOK'
<1> SUFFICES ASSUME RouteTypeOK, [RouteNext]_routeVars PROVE RouteTypeOK'
  OBVIOUS
<1> USE BoundAssumption DEF RouteTypeOK, Locations, cacheVars, callerVars
<1>1. ASSUME NEW c \in Callers, NEW k \in Keys, Begin(c, k) PROVE RouteTypeOK'
  BY <1>1, Zenon DEF Begin, Goto
<1>2. ASSUME NEW c \in Callers, ReadHit(c) PROVE RouteTypeOK'
  BY <1>2, Zenon DEF ReadHit, Return, Goto, Live
<1>3. ASSUME NEW c \in Callers, ReadMiss(c) PROVE RouteTypeOK'
  BY <1>3, Zenon DEF ReadMiss, Goto
<1>4. ASSUME NEW c \in Callers, WriteHit(c) PROVE RouteTypeOK'
  BY <1>4, Zenon DEF WriteHit, Return, Goto, Live
<1>5. ASSUME NEW c \in Callers, JoinCall(c) PROVE RouteTypeOK'
  BY <1>5, Zenon DEF JoinCall, DropExpired, Goto
<1>6. ASSUME NEW c \in Callers, StartCall(c) PROVE RouteTypeOK'
  BY <1>6, Zenon DEF StartCall, DropExpired, Goto
<1>7. ASSUME NEW c \in Callers, LoadAnswer(c) PROVE RouteTypeOK'
  BY <1>7, Zenon DEF LoadAnswer, Goto
<1>8. ASSUME NEW c \in Callers, LoadError(c) PROVE RouteTypeOK'
  BY <1>8, Zenon DEF LoadError, Goto
<1>9. ASSUME NEW c \in Callers, Complete(c) PROVE RouteTypeOK'
  <2> DEFINE value == result[c].value
             out == [value |-> value, stale |-> Stale(c)]
  <2>1. value \in Placements \cup {Failed} /\ Stale(c) \in BOOLEAN
    BY Zenon DEF Stale
  <2>2. out \in [value : Placements \cup {Failed}, stale : BOOLEAN]
    BY <2>1, Zenon
  <2> HIDE DEF out
  <2>3. result' \in [Callers -> [value : Placements \cup {Failed}, stale : BOOLEAN]]
    BY <1>9, <2>2, Zenon DEF Complete, out
  <2>4. entries' \in [Keys -> Placements \cup {NoEntry}] /\ expired' \subseteq Keys
    BY <1>9, <2>1, Zenon DEF Complete
  <2>5. known' \in [Keys -> Placements]
    BY <1>9, <2>1 DEF Complete
  <2>6. /\ pc' \in [Callers -> Locations]
        /\ lookups' \in [Keys -> Callers \cup {NoCaller}]
        /\ call' \in [Callers -> [epoch : Stamps, revision : Stamps]]
        /\ UNCHANGED <<epoch, revisions, key, joined, floor, placed>>
    BY <1>9 DEF Complete, ForgetLookup
  <2> QED
    BY <2>3, <2>4, <2>5, <2>6, Zenon
<1>10. ASSUME NEW c \in Callers, Resume(c) PROVE RouteTypeOK'
  <2>1. /\ pc' = [pc EXCEPT ![c] = "read"] \/ pc' = [pc EXCEPT ![c] = "done"]
        /\ result' = [result EXCEPT ![c] = NoResult] \/ result' = result
        /\ joined' = [joined EXCEPT ![c] = NoCaller]
        /\ UNCHANGED <<cacheVars, key, call, floor, placed, known>>
    BY <1>10, Zenon DEF Resume, Goto
  <2>2. NoResult \in [value : Placements \cup {Failed}, stale : BOOLEAN]
    BY Zenon
  <2>3. result' \in [Callers -> [value : Placements \cup {Failed}, stale : BOOLEAN]]
    BY <2>1, <2>2, Zenon
  <2>4. pc' \in [Callers -> Locations] /\ joined' \in [Callers -> Callers \cup {NoCaller}]
    BY <2>1, Zenon
  <2> QED
    BY <2>1, <2>3, <2>4, Zenon
<1>11. ASSUME NEW c \in Callers, End(c) PROVE RouteTypeOK'
  BY <1>11 DEF End, Goto
<1>12. ASSUME NEW k \in Keys, Invalidate(k) PROVE RouteTypeOK'
  BY <1>12 DEF Invalidate
<1>13. CASE InvalidateAll
  BY <1>13 DEF InvalidateAll
<1>14. ASSUME NEW k \in Keys, ExpireEntry(k) PROVE RouteTypeOK'
  BY <1>14, Zenon DEF ExpireEntry
<1>15. ASSUME NEW k \in Keys, Place(k) PROVE RouteTypeOK'
  BY <1>15 DEF Place
<1>16. CASE UNCHANGED routeVars
  BY <1>16, Zenon DEF routeVars
<1> QED
  BY <1>1, <1>2, <1>3, <1>4, <1>5, <1>6, <1>7, <1>8, <1>9, <1>10, <1>11, <1>12, <1>13,
     <1>14, <1>15, <1>16, Zenon DEF RouteNext, Lookup

\* The route cache is type correct.
THEOREM RouteTypeCorrect == RouteSpec => []RouteTypeOK
<1>1. RouteInit => RouteTypeOK
  BY RouteInitInv DEF RouteInv
<1> QED
  BY <1>1, RouteTypeStep, PTL DEF RouteSpec

\* Every step keeps the invariant.
LEMMA RouteInvStep == RouteInv /\ [RouteNext]_routeVars => RouteInv'
<1> SUFFICES ASSUME RouteInv, [RouteNext]_routeVars PROVE RouteInv'
  OBVIOUS
<1> USE BoundAssumption, CallerAssumption DEF InFlight, Current, cacheVars, callerVars
<1>0. RouteTypeOK'
  BY RouteTypeStep, Zenon DEF RouteInv
<1>e. entries \in [Keys -> Placements \cup {NoEntry}]
  BY Zenon DEF RouteInv, RouteTypeOK
<1>l. lookups \in [Keys -> Callers \cup {NoCaller}]
  BY Zenon DEF RouteInv, RouteTypeOK
<1>s. epoch \in Stamps /\ revisions \in [Keys -> Stamps]
  BY Zenon DEF RouteInv, RouteTypeOK
<1>c. call \in [Callers -> [epoch : Stamps, revision : Stamps]]
  BY Zenon DEF RouteInv, RouteTypeOK
<1>p. pc \in [Callers -> Locations] /\ key \in [Callers -> Keys]
  BY Zenon DEF RouteInv, RouteTypeOK
<1>j. joined \in [Callers -> Callers \cup {NoCaller}]
  BY Zenon DEF RouteInv, RouteTypeOK
<1>r. result \in [Callers -> [value : Placements \cup {Failed}, stale : BOOLEAN]]
  BY Zenon DEF RouteInv, RouteTypeOK
<1>k. /\ placed \in [Keys -> Placements] /\ known \in [Keys -> Placements]
      /\ floor \in [Callers -> Placements]
  BY Zenon DEF RouteInv, RouteTypeOK
<1>1. ASSUME NEW c \in Callers, NEW k \in Keys, Begin(c, k) PROVE RouteInv'
  <2>1. KnownInv'
    BY <1>p, <1>k, <1>1 DEF RouteInv, KnownInv, Begin, Goto
  <2>2. WaiterHasLeader'
    BY <1>p, <1>j, <1>1 DEF RouteInv, WaiterHasLeader, Begin, Goto
  <2>3. DisabledInv' /\ CachedRouteFresh'
    BY <1>e, <1>k, <1>1, Zenon DEF RouteInv, DisabledInv, CachedRouteFresh, Begin, Goto
  <2>4. StampInv' /\ LeaderInv'
    BY <1>l, <1>s, <1>c, <1>p, <1>1 DEF RouteInv, StampInv, LeaderInv, Begin, Goto
  <2>5. LoadedInv' /\ OutcomeInv'
    BY <1>s, <1>c, <1>p, <1>r, <1>k, <1>1, Zenon DEF RouteInv, LoadedInv, OutcomeInv, Begin, Goto
  <2>6. SingleFlight'
    BY <1>c, <1>p, <1>1 DEF RouteInv, SingleFlight, Begin, Goto
  <2> QED
    BY <1>0, <2>1, <2>2, <2>3, <2>4, <2>5, <2>6, Zenon DEF RouteInv
<1>2. ASSUME NEW c \in Callers, ReadHit(c) PROVE RouteInv'
  <2>1. OutcomeInv'
    BY <1>e, <1>p, <1>r, <1>k, <1>2 DEF RouteInv, OutcomeInv, KnownInv,
         CachedRouteFresh, ReadHit, Return, Goto, Live
  <2>2. DisabledInv' /\ StampInv' /\ LeaderInv' /\ KnownInv' /\ LoadedInv'
        /\ CachedRouteFresh' /\ SingleFlight' /\ WaiterHasLeader'
    BY <1>e, <1>l, <1>s, <1>c, <1>p, <1>j, <1>r, <1>k, <1>2 DEF RouteInv,
         DisabledInv, StampInv, LeaderInv, KnownInv, LoadedInv,
         CachedRouteFresh, SingleFlight, WaiterHasLeader, ReadHit, Return, Goto,
         Live
  <2> QED
    BY <1>0, <2>1, <2>2, Zenon DEF RouteInv
<1>3. ASSUME NEW c \in Callers, ReadMiss(c) PROVE RouteInv'
  <2>1. DisabledInv' /\ StampInv' /\ LeaderInv' /\ KnownInv' /\ LoadedInv'
        /\ OutcomeInv' /\ CachedRouteFresh' /\ SingleFlight' /\
        WaiterHasLeader'
    BY <1>e, <1>l, <1>s, <1>c, <1>p, <1>j, <1>r, <1>k, <1>3 DEF RouteInv,
         DisabledInv, StampInv, LeaderInv, KnownInv, LoadedInv, OutcomeInv,
         CachedRouteFresh, SingleFlight, WaiterHasLeader, ReadMiss, Goto
  <2> QED
    BY <1>0, <2>1, Zenon DEF RouteInv
<1>4. ASSUME NEW c \in Callers, WriteHit(c) PROVE RouteInv'
  <2>1. OutcomeInv'
    BY <1>e, <1>p, <1>r, <1>k, <1>4 DEF RouteInv, OutcomeInv, KnownInv,
         CachedRouteFresh, WriteHit, Return, Goto, Live
  <2>2. DisabledInv' /\ StampInv' /\ LeaderInv' /\ KnownInv' /\ LoadedInv'
        /\ CachedRouteFresh' /\ SingleFlight' /\ WaiterHasLeader'
    BY <1>e, <1>l, <1>s, <1>c, <1>p, <1>j, <1>r, <1>k, <1>4 DEF RouteInv,
         DisabledInv, StampInv, LeaderInv, KnownInv, LoadedInv,
         CachedRouteFresh, SingleFlight, WaiterHasLeader, WriteHit, Return,
         Goto, Live
  <2> QED
    BY <1>0, <2>1, <2>2, Zenon DEF RouteInv
<1>5. ASSUME NEW c \in Callers, JoinCall(c) PROVE RouteInv'
  <2>1. CachedRouteFresh'
    BY <1>e, <1>k, <1>5, Zenon DEF RouteInv, CachedRouteFresh, JoinCall, DropExpired, Goto,
       Joinable
  <2>2. WaiterHasLeader'
    BY <1>l, <1>s, <1>c, <1>p, <1>j, <1>5 DEF RouteInv, WaiterHasLeader, LeaderInv,
         JoinCall, DropExpired, Goto, Joinable
  <2>3. DisabledInv' /\ StampInv' /\ LeaderInv' /\ KnownInv' /\ LoadedInv'
        /\ OutcomeInv' /\ SingleFlight'
    BY <1>e, <1>l, <1>s, <1>c, <1>p, <1>r, <1>k, <1>5 DEF RouteInv, DisabledInv,
         StampInv, LeaderInv, KnownInv, LoadedInv, OutcomeInv, SingleFlight,
         JoinCall, DropExpired, Goto, Joinable
  <2> QED
    BY <1>0, <2>1, <2>2, <2>3, Zenon DEF RouteInv
<1>6. ASSUME NEW c \in Callers, StartCall(c) PROVE RouteInv'
  <2>1. StampInv'
    BY <1>s, <1>c, <1>p, <1>6 DEF RouteInv, StampInv, StartCall, DropExpired, Goto,
         Joinable
  <2>2. LeaderInv'
    BY <1>l, <1>s, <1>c, <1>p, <1>6 DEF RouteInv, LeaderInv, StartCall, DropExpired,
         Goto, Joinable
  <2>3. CachedRouteFresh'
    BY <1>e, <1>k, <1>6, Zenon DEF RouteInv, CachedRouteFresh, StartCall, DropExpired, Goto,
       Joinable
  <2>4. SingleFlight'
    <3>1. \A d \in Callers : InFlight(d) /\ key[d] = key[c] => ~ Current(d)
      BY <1>6 DEF RouteInv, LeaderInv, StartCall, Joinable
    <3>2. /\ pc' = [pc EXCEPT ![c] = "load"] /\ key' = key
          /\ call' = [call EXCEPT ![c] = [epoch |-> epoch, revision |-> revisions[key[c]]]]
      BY <1>6, Zenon DEF StartCall, Goto
    <3>3. ASSUME NEW d \in Callers, d # c, InFlight(d), key[d] = key[c]
          PROVE  call'[d] # call'[c]
      <4>1. call'[d] = call[d] /\ call'[c].epoch = epoch /\ call'[c].revision = revisions[key[c]]
        BY <1>c, <3>2, <3>3, Zenon DEF RouteInv
      <4> QED
        BY <3>1, <3>3, <4>1, Zenon
    <3> QED
      BY <1>c, <1>p, <3>2, <3>3 DEF RouteInv, SingleFlight
  <2>5. DisabledInv' /\ KnownInv'
    BY <1>e, <1>p, <1>k, <1>6, Zenon DEF RouteInv, DisabledInv, KnownInv, StartCall, DropExpired,
       Goto, Joinable
  <2>6. LoadedInv' /\ OutcomeInv'
    BY <1>s, <1>c, <1>p, <1>r, <1>k, <1>6, Zenon DEF RouteInv, LoadedInv, OutcomeInv, StartCall,
       DropExpired, Goto, Joinable
  <2>7. WaiterHasLeader'
    BY <1>p, <1>j, <1>6, Zenon DEF RouteInv, WaiterHasLeader, StartCall, DropExpired, Goto,
       Joinable
  <2> QED
    BY <1>0, <2>1, <2>2, <2>3, <2>4, <2>5, <2>6, <2>7 DEF RouteInv
<1>7. ASSUME NEW c \in Callers, LoadAnswer(c) PROVE RouteInv'
  <2>1. LoadedInv'
    BY <1>s, <1>c, <1>p, <1>r, <1>k, <1>7 DEF RouteInv, LoadedInv, KnownInv,
         LoadAnswer, Goto
  <2>2. DisabledInv' /\ CachedRouteFresh' /\ KnownInv'
    BY <1>e, <1>p, <1>k, <1>7, Zenon DEF RouteInv, DisabledInv, CachedRouteFresh, KnownInv,
       LoadAnswer, Goto
  <2>3. StampInv' /\ LeaderInv'
    BY <1>l, <1>s, <1>c, <1>p, <1>7 DEF RouteInv, StampInv, LeaderInv, LoadAnswer,
         Goto
  <2>4. OutcomeInv'
    BY <1>p, <1>r, <1>k, <1>7, Zenon DEF RouteInv, OutcomeInv, LoadAnswer, Goto
  <2>5. SingleFlight' /\ WaiterHasLeader'
    BY <1>c, <1>p, <1>j, <1>7 DEF RouteInv, SingleFlight, WaiterHasLeader,
         LoadAnswer, Goto
  <2> QED
    BY <1>0, <2>1, <2>2, <2>3, <2>4, <2>5, Zenon DEF RouteInv
<1>8. ASSUME NEW c \in Callers, LoadError(c) PROVE RouteInv'
  <2>1. LoadedInv'
    BY <1>s, <1>c, <1>p, <1>r, <1>k, <1>8, Zenon DEF RouteInv, LoadedInv, LoadError, Goto
  <2>2. DisabledInv' /\ CachedRouteFresh' /\ KnownInv'
    BY <1>e, <1>p, <1>k, <1>8, Zenon DEF RouteInv, DisabledInv, CachedRouteFresh, KnownInv,
       LoadError, Goto
  <2>3. StampInv' /\ LeaderInv'
    BY <1>l, <1>s, <1>c, <1>p, <1>8 DEF RouteInv, StampInv, LeaderInv, LoadError,
         Goto
  <2>4. OutcomeInv'
    BY <1>p, <1>r, <1>k, <1>8, Zenon DEF RouteInv, OutcomeInv, LoadError, Goto
  <2>5. SingleFlight' /\ WaiterHasLeader'
    BY <1>c, <1>p, <1>j, <1>8 DEF RouteInv, SingleFlight, WaiterHasLeader, LoadError,
         Goto
  <2> QED
    BY <1>0, <2>1, <2>2, <2>3, <2>4, <2>5, Zenon DEF RouteInv
<1>9. ASSUME NEW c \in Callers, Complete(c) PROVE RouteInv'
  <2> DEFINE value == result[c].value
  <2>1. pc[c] = "loaded" /\ value \in Placements \cup {Failed}
    BY <1>r, <1>9, Zenon DEF RouteInv, Complete
  <2>2. ASSUME ~ Stale(c), value # Failed
        PROVE  known[key[c]] <= value /\ value <= placed[key[c]] /\ known'[key[c]] = value
    <3>1. known[key[c]] <= value /\ value <= placed[key[c]]
      BY <1>s, <1>c, <1>p, <1>r, <1>k, <2>1, <2>2, Zenon DEF RouteInv, LoadedInv, Stale
    <3>2. CASE value > known[key[c]]
      <4>1. known'[key[c]] = value
        BY <1>e, <1>p, <1>k, <1>9, <2>2, <3>2, Zenon DEF RouteInv, Complete
      <4> QED
        BY <3>1, <4>1, Zenon
    <3>3. CASE ~ (value > known[key[c]])
      <4>1. known'[key[c]] = known[key[c]]
        BY <1>e, <1>p, <1>k, <1>9, <3>3, Zenon DEF RouteInv, Complete
      <4>2. known[key[c]] \in Int /\ value \in Int
        BY <1>e, <1>p, <1>k, <2>1 DEF RouteInv
      <4> QED
        BY <3>1, <3>3, <4>1, <4>2
    <3> QED
      BY <3>2, <3>3, Zenon
  <2>3. DisabledInv' /\ StampInv' /\ SingleFlight'
    BY <1>e, <1>s, <1>c, <1>p, <1>j, <1>9, Zenon DEF RouteInv, DisabledInv, StampInv,
       SingleFlight, Complete, Waiters
  <2>4. LeaderInv'
    BY <1>l, <1>s, <1>c, <1>p, <1>j, <1>9, SMTT(20) DEF RouteInv, LeaderInv, Complete,
       ForgetLookup, Waiters
  <2>5. \A k \in Keys : known[k] <= known'[k]
    BY <1>e, <1>p, <1>k, <1>9, <2>1 DEF RouteInv, Complete
  <2>6. KnownInv'
    <3>1. ASSUME NEW k \in Keys PROVE known'[k] <= placed'[k]
      <4>1. placed' = placed /\ (known'[k] = known[k] \/ (k = key[c] /\ ~ Stale(c) /\ value # Failed))
        BY <1>e, <1>p, <1>k, <1>9, <2>1 DEF RouteInv, Complete
      <4> QED
        BY <2>2, <4>1, Zenon DEF RouteInv, KnownInv
    <3>2. ASSUME NEW d \in Callers, pc'[d] # "idle" PROVE floor'[d] <= known'[key'[d]]
      <4>1. pc[d] # "idle" /\ floor' = floor /\ key' = key
        BY <1>e, <1>p, <1>j, <1>k, <1>9, <2>1, <3>2, Zenon DEF RouteInv, Complete, Waiters
      <4> QED
        BY <1>0, <1>p, <1>k, <2>5, <4>1 DEF RouteInv, KnownInv, RouteTypeOK
    <3> QED
      BY <3>1, <3>2, Zenon DEF KnownInv
  <2>7. LoadedInv'
    <3> SUFFICES ASSUME NEW d \in Callers, pc'[d] = "loaded", result'[d].value # Failed
                 PROVE  /\ result'[d].value <= placed'[key'[d]]
                        /\ Current(d)' => result'[d].value >= known'[key'[d]]
      BY Zenon DEF LoadedInv
    <3>1. /\ d # c /\ pc[d] = "loaded" /\ result'[d] = result[d] /\ call'[d] = call[d]
          /\ UNCHANGED <<placed, key, epoch, revisions>>
      BY <1>e, <1>p, <1>j, <1>k, <1>9 DEF RouteInv, Complete, Waiters
    <3>2. CASE key[d] = key[c] /\ ~ Stale(c)
      BY <2>1, <3>1, <3>2 DEF RouteInv, LeaderInv, LoadedInv, Stale
    <3>3. CASE ~ (key[d] = key[c] /\ ~ Stale(c))
      <4>1. known'[key[d]] = known[key[d]]
        BY <1>e, <1>p, <1>k, <1>9, <3>3, Zenon DEF RouteInv, Complete
      <4> QED
        BY <3>1, <4>1, Zenon DEF RouteInv, LoadedInv
    <3> QED
      BY <3>2, <3>3, Zenon
  <2>8. OutcomeInv'
    <3> SUFFICES ASSUME NEW d \in Callers,
                        pc'[d] = "done" \/ (pc'[d] = "woken" /\ ~ result'[d].stale),
                        result'[d].value # Failed
                 PROVE  result'[d].value >= floor'[d]
      BY Zenon DEF OutcomeInv
    <3>1. CASE d = c
      <4>1. ~ Stale(c) /\ result'[d].value = value
        BY <1>e, <1>p, <1>k, <1>9, <3>1, Zenon DEF RouteInv, Complete
      <4> QED
        BY <1>p, <1>k, <1>9, <2>1, <2>2, <3>1, <4>1 DEF RouteInv, KnownInv, Complete
    <3>2. CASE d # c /\ d \in Waiters(c)
      <4>1. result'[d] = [value |-> value, stale |-> Stale(c)] /\ pc'[d] = "woken"
        BY <1>e, <1>p, <1>k, <1>9, <3>2, Zenon DEF RouteInv, Complete
      <4>2. result'[d].stale = Stale(c) /\ result'[d].value = value
        BY <4>1
      <4>3. key[d] = key[c] /\ pc[d] = "wait"
        BY <3>2 DEF RouteInv, WaiterHasLeader, Waiters
      <4> QED
        <5>0. ~ result'[d].stale
          BY <4>1, Zenon
        <5>1. ~ Stale(c)
          BY <4>2, <5>0, Zenon
        <5> QED
          <6>1. floor'[d] = floor[d] /\ floor[d] <= known[key[c]]
            BY <1>9, <4>3, Zenon DEF RouteInv, KnownInv, Complete
          <6>2. floor[d] \in Int /\ known[key[c]] \in Int /\ value \in Int
            BY <1>e, <1>p, <1>k, <2>1 DEF RouteInv
          <6>3. known[key[c]] <= value
            BY <2>2, <4>2, <5>1, Zenon
          <6> QED
            BY <4>2, <6>1, <6>2, <6>3
    <3>3. CASE d # c /\ d \notin Waiters(c)
      <4>1. result'[d] = result[d] /\ pc'[d] = pc[d] /\ floor'[d] = floor[d]
        BY <1>e, <1>p, <1>k, <1>9, <3>3, Zenon DEF RouteInv, Complete
      <4> QED
        BY <4>1, Zenon DEF RouteInv, OutcomeInv
    <3> QED
      BY <3>1, <3>2, <3>3, Zenon
  <2>9. CachedRouteFresh'
    <3> SUFFICES ASSUME NEW k \in Keys, entries'[k] # NoEntry
                 PROVE  entries'[k] >= known'[k]
      BY Zenon DEF CachedRouteFresh
    <3>1. CASE k = key[c] /\ ~ Stale(c) /\ value # Failed
      <4>1. CASE Enabled
        <5>1. entries'[k] = value
          BY <1>e, <1>p, <1>k, <1>9, <3>1, <4>1, Zenon DEF RouteInv, Complete
        <5> QED
          BY <2>1, <2>2, <3>1, <5>1
      <4>2. CASE ~ Enabled
        <5>1. entries' = entries
          BY <1>9, <4>2, Zenon DEF Complete
        <5> QED
          BY <4>2, <5>1 DEF RouteInv, DisabledInv
      <4> QED
        BY <4>1, <4>2
    <3>2. CASE ~ (k = key[c] /\ ~ Stale(c) /\ value # Failed)
      <4>1. entries'[k] = entries[k] /\ known'[k] = known[k]
        BY <1>e, <1>p, <1>k, <1>9, <2>1, <3>2 DEF RouteInv, Complete
      <4> QED
        BY <4>1, Zenon DEF RouteInv, CachedRouteFresh
    <3> QED
      BY <3>1, <3>2, Zenon
  <2>10. WaiterHasLeader'
    BY <1>p, <1>j, <1>9, Zenon DEF RouteInv, WaiterHasLeader, Complete, Waiters
  <2> QED
    BY <1>0, <2>3, <2>4, <2>6, <2>7, <2>8, <2>9, <2>10 DEF RouteInv
<1>10. ASSUME NEW c \in Callers, Resume(c) PROVE RouteInv'
  <2>1. /\ pc[c] = "woken" /\ joined' = [joined EXCEPT ![c] = NoCaller]
        /\ UNCHANGED <<cacheVars, key, call, floor, placed, known>>
    BY <1>10, Zenon DEF Resume
  <2>2. \/ pc' = [pc EXCEPT ![c] = "read"] /\ result' = [result EXCEPT ![c] = NoResult]
        \/ pc' = [pc EXCEPT ![c] = "done"] /\ result' = result /\ ~ result[c].stale
    BY <1>10, Zenon DEF Resume, Goto
  <2>3. CASE pc' = [pc EXCEPT ![c] = "read"] /\ result' = [result EXCEPT ![c] = NoResult]
    <3>1. DisabledInv' /\ CachedRouteFresh' /\ KnownInv'
      BY <1>e, <1>p, <1>k, <2>1, <2>3, Zenon DEF RouteInv, DisabledInv, CachedRouteFresh,
         KnownInv
    <3>2. StampInv' /\ LeaderInv'
      BY <1>l, <1>s, <1>c, <1>p, <2>1, <2>3 DEF RouteInv, StampInv, LeaderInv
    <3>3. LoadedInv' /\ OutcomeInv'
      BY <1>s, <1>c, <1>p, <1>r, <1>k, <2>1, <2>3, Zenon DEF RouteInv, LoadedInv, OutcomeInv
    <3>4. SingleFlight' /\ WaiterHasLeader'
      BY <1>c, <1>p, <1>j, <2>1, <2>3 DEF RouteInv, SingleFlight, WaiterHasLeader
    <3> QED
      BY <1>0, <3>1, <3>2, <3>3, <3>4 DEF RouteInv
  <2>4. CASE pc' = [pc EXCEPT ![c] = "done"] /\ result' = result /\ ~ result[c].stale
    <3>1. DisabledInv' /\ CachedRouteFresh' /\ KnownInv'
      BY <1>e, <1>p, <1>k, <2>1, <2>4, Zenon DEF RouteInv, DisabledInv, CachedRouteFresh,
         KnownInv
    <3>2. StampInv' /\ LeaderInv'
      BY <1>l, <1>s, <1>c, <1>p, <2>1, <2>4 DEF RouteInv, StampInv, LeaderInv
    <3>3. LoadedInv' /\ OutcomeInv'
      BY <1>s, <1>c, <1>p, <1>r, <1>k, <2>1, <2>4, Zenon DEF RouteInv, LoadedInv, OutcomeInv
    <3>4. SingleFlight' /\ WaiterHasLeader'
      BY <1>c, <1>p, <1>j, <2>1, <2>4 DEF RouteInv, SingleFlight, WaiterHasLeader
    <3> QED
      BY <1>0, <3>1, <3>2, <3>3, <3>4, Zenon DEF RouteInv
  <2> QED
    BY <2>2, <2>3, <2>4, Zenon
<1>11. ASSUME NEW c \in Callers, End(c) PROVE RouteInv'
  <2>1. KnownInv'
    BY <1>p, <1>k, <1>11, Zenon DEF RouteInv, KnownInv, End, Goto
  <2>2. DisabledInv' /\ CachedRouteFresh'
    BY <1>e, <1>k, <1>11, Zenon DEF RouteInv, DisabledInv, CachedRouteFresh, End, Goto
  <2>3. StampInv' /\ LeaderInv'
    BY <1>l, <1>s, <1>c, <1>p, <1>11 DEF RouteInv, StampInv, LeaderInv, End, Goto
  <2>4. LoadedInv' /\ OutcomeInv'
    BY <1>s, <1>c, <1>p, <1>r, <1>k, <1>11, Zenon DEF RouteInv, LoadedInv, OutcomeInv, End, Goto
  <2>5. SingleFlight' /\ WaiterHasLeader'
    BY <1>c, <1>p, <1>j, <1>11 DEF RouteInv, SingleFlight, WaiterHasLeader, End, Goto
  <2> QED
    BY <1>0, <2>1, <2>2, <2>3, <2>4, <2>5, Zenon DEF RouteInv
<1>12. ASSUME NEW k \in Keys, Invalidate(k) PROVE RouteInv'
  <2>1. StampInv'
    BY <1>s, <1>c, <1>p, <1>12 DEF RouteInv, StampInv, Invalidate
  <2>2. LeaderInv'
    BY <1>l, <1>s, <1>c, <1>p, <1>12 DEF RouteInv, LeaderInv, StampInv, Invalidate
  <2>3. KnownInv'
    BY <1>p, <1>k, <1>12 DEF RouteInv, KnownInv, Invalidate
  <2>4. LoadedInv'
    BY <1>s, <1>c, <1>p, <1>r, <1>k, <1>12 DEF RouteInv, LoadedInv, StampInv,
         Invalidate
  <2>5. CachedRouteFresh'
    BY <1>e, <1>k, <1>12, Zenon DEF RouteInv, CachedRouteFresh, Invalidate
  <2>6. DisabledInv'
    BY <1>e, <1>12, Zenon DEF RouteInv, DisabledInv, Invalidate
  <2>7. OutcomeInv'
    BY <1>p, <1>r, <1>k, <1>12, Zenon DEF RouteInv, OutcomeInv, Invalidate
  <2>8. SingleFlight' /\ WaiterHasLeader'
    BY <1>c, <1>p, <1>j, <1>12, Zenon DEF RouteInv, SingleFlight, WaiterHasLeader, Invalidate
  <2> QED
    BY <1>0, <2>1, <2>2, <2>3, <2>4, <2>5, <2>6, <2>7, <2>8 DEF RouteInv
<1>13. ASSUME InvalidateAll PROVE RouteInv'
  <2>1. StampInv'
    BY <1>s, <1>c, <1>p, <1>13 DEF RouteInv, StampInv, InvalidateAll
  <2>2. LeaderInv'
    BY <1>l, <1>s, <1>c, <1>p, <1>13 DEF RouteInv, LeaderInv, StampInv, InvalidateAll
  <2>3. KnownInv'
    BY <1>p, <1>k, <1>13 DEF RouteInv, KnownInv, InvalidateAll
  <2>4. LoadedInv'
    BY <1>s, <1>c, <1>p, <1>r, <1>k, <1>13 DEF RouteInv, LoadedInv, StampInv,
         InvalidateAll
  <2>5. CachedRouteFresh'
    BY <1>e, <1>k, <1>13, Zenon DEF RouteInv, CachedRouteFresh, InvalidateAll
  <2>6. DisabledInv'
    BY <1>e, <1>13, Zenon DEF RouteInv, DisabledInv, InvalidateAll
  <2>7. OutcomeInv'
    BY <1>p, <1>r, <1>k, <1>13, Zenon DEF RouteInv, OutcomeInv, InvalidateAll
  <2>8. SingleFlight' /\ WaiterHasLeader'
    BY <1>c, <1>p, <1>j, <1>13 DEF RouteInv, SingleFlight, WaiterHasLeader,
         InvalidateAll
  <2> QED
    BY <1>0, <2>1, <2>2, <2>3, <2>4, <2>5, <2>6, <2>7, <2>8 DEF RouteInv
<1>14. ASSUME NEW k \in Keys, ExpireEntry(k) PROVE RouteInv'
  <2>1. DisabledInv' /\ StampInv' /\ LeaderInv' /\ KnownInv' /\ LoadedInv'
        /\ OutcomeInv' /\ CachedRouteFresh' /\ SingleFlight' /\
        WaiterHasLeader'
    BY <1>e, <1>l, <1>s, <1>c, <1>p, <1>j, <1>r, <1>k, <1>14 DEF RouteInv,
         DisabledInv, StampInv, LeaderInv, KnownInv, LoadedInv, OutcomeInv,
         CachedRouteFresh, SingleFlight, WaiterHasLeader, ExpireEntry
  <2> QED
    BY <1>0, <2>1, Zenon DEF RouteInv
<1>15. ASSUME NEW k \in Keys, Place(k) PROVE RouteInv'
  <2>1. KnownInv'
    BY <1>p, <1>k, <1>15 DEF RouteInv, KnownInv, Place
  <2>2. LoadedInv'
    BY <1>s, <1>c, <1>p, <1>r, <1>k, <1>15 DEF RouteInv, LoadedInv, Place
  <2>3. DisabledInv' /\ CachedRouteFresh'
    BY <1>e, <1>k, <1>15, Zenon DEF RouteInv, DisabledInv, CachedRouteFresh, Place
  <2>4. StampInv' /\ LeaderInv'
    BY <1>l, <1>s, <1>c, <1>p, <1>15, Zenon DEF RouteInv, StampInv, LeaderInv, Place
  <2>5. OutcomeInv'
    BY <1>p, <1>r, <1>k, <1>15, Zenon DEF RouteInv, OutcomeInv, Place
  <2>6. SingleFlight' /\ WaiterHasLeader'
    BY <1>c, <1>p, <1>j, <1>15 DEF RouteInv, SingleFlight, WaiterHasLeader, Place
  <2> QED
    BY <1>0, <2>1, <2>2, <2>3, <2>4, <2>5, <2>6 DEF RouteInv
<1>16. ASSUME UNCHANGED routeVars PROVE RouteInv'
  <2>1. DisabledInv' /\ StampInv' /\ LeaderInv' /\ KnownInv' /\ LoadedInv'
        /\ OutcomeInv' /\ CachedRouteFresh' /\ SingleFlight' /\
        WaiterHasLeader'
    BY <1>e, <1>l, <1>s, <1>c, <1>p, <1>j, <1>r, <1>k, <1>16 DEF RouteInv,
         DisabledInv, StampInv, LeaderInv, KnownInv, LoadedInv, OutcomeInv,
         CachedRouteFresh, SingleFlight, WaiterHasLeader, routeVars
  <2> QED
    BY <1>0, <2>1, Zenon DEF RouteInv
<1> QED
  BY <1>1, <1>2, <1>3, <1>4, <1>5, <1>6, <1>7, <1>8, <1>9, <1>10, <1>11, <1>12, <1>13,
     <1>14, <1>15, <1>16, Zenon DEF RouteNext, Lookup

\* RouteInv holds in every reachable state.
THEOREM RouteInvariance == RouteSpec => []RouteInv
<1> QED
  BY RouteInitInv, RouteInvStep, PTL DEF RouteSpec

\* No load overtaken by an invalidation ever reaches the cache.
THEOREM CachedFresh == RouteSpec => []CachedRouteFresh
<1>1. RouteInv => CachedRouteFresh
  BY DEF RouteInv
<1> QED
  BY <1>1, RouteInvariance, PTL

\* No lookup returns a route older than one known before it began, neither
\* from the cache, nor from its own load, nor from a load it joined.
THEOREM ReturnedFresh == RouteSpec => []ReturnedRouteFresh
<1>1. RouteInv => ReturnedRouteFresh
  BY Zenon DEF RouteInv, OutcomeInv, ReturnedRouteFresh
<1> QED
  BY <1>1, RouteInvariance, PTL

\* Two loads of one key that started at the same epoch and revision are the
\* same load.
THEOREM LoadsMerged == RouteSpec => []SingleFlight
<1>1. RouteInv => SingleFlight
  BY DEF RouteInv
<1> QED
  BY <1>1, RouteInvariance, PTL

\* Nobody waits on a call that nobody runs.
THEOREM NoLostWaiter == RouteSpec => []WaiterHasLeader
<1>1. RouteInv => WaiterHasLeader
  BY DEF RouteInv
<1> QED
  BY <1>1, RouteInvariance, PTL

-----------------------------------------------------------------------------
(* The heartbeats of a connection *)

\* Whoever is to stop the timer of a removed session is still at it: the read
\* goroutine, the expiry task, or the task that has just started the timer.
StopInv ==
    ~active /\ expiry # Off
        => sStep \in {"recheck", "stop"} \/ sClose = "stop"

\* Exactly one thing carries the chain of probes on: a task posted to the control
\* Loop, the step a task has reached, the timer, or a probe that is out.
Chained ==
    \/ cLoop = <<"start">> /\ cStep = "idle" /\ ~pending /\ probe = Off /\ waiting = Off
    \/ cLoop = <<>> /\ cStep = "schedule" /\ ~pending /\ probe = Off /\ waiting = Off
    \/ cLoop = <<>> /\ cStep = "idle" /\ ~pending /\ probe # Off /\ waiting = Off
    \/ cLoop = <<>> /\ cStep = "request" /\ pending /\ probe = Off /\ waiting = Off
    \/ cLoop = <<>> /\ cStep = "idle" /\ pending /\ probe = Off /\ waiting # Off
    \/ /\ cLoop \in {<<"ok">>, <<"refused">>} /\ cStep = "idle"
       /\ pending /\ probe = Off /\ waiting = Off

\* Before the link is published nothing has been started.
ChainInv ==
    /\ phase \in {"register", "restore"}
         => cLoop = <<>> /\ cStep = "idle" /\ ~pending /\ probe = Off
    /\ phase = "up" /\ connected => Chained

Inv == TypeOK /\ StopInv /\ ChainInv

-----------------------------------------------------------------------------
(* Types *)

\* The bounds of the timers.
LEMMA TimerBounds ==
    /\ remoteHeartbeatTimeout \in Nat /\ Off \notin Nat
    /\ Interval \in Nat /\ Timeout \in Nat /\ ConnectTimeout \in Nat /\ Delay \in Nat
    /\ Restores \subseteq Nat
<1>1. Interval \div 3 \in Nat
  BY HeartbeatOptions
<1> QED
  BY <1>1, HeartbeatOptions DEF remoteHeartbeatTimeout, Off

\* A packet that is sent goes behind those on their way.
LEMMA SentType ==
    ASSUME NEW channel \in Seq(Packets), NEW kind \in PacketKinds
    PROVE  Sent(channel, kind) \in Seq(Packets)
<1>1. Packet(kind) \in Packets
  BY HeartbeatOptions DEF Packet, Packets
<1> QED
  BY <1>1 DEF Sent

\* The values of the timers and counters, as sets of their own.
Probes == {Off} \cup 0..Interval
Waitings == {Off} \cup 0..ConnectTimeout \cup 0..Timeout
Expiries == {Off} \cup 0..remoteHeartbeatTimeout
Quiets == 0..(remoteHeartbeatTimeout + 1)
Ages(r) == 0..r

\* The values that timers are set to.
LEMMA TimerValues ==
    /\ {Off, Interval} \subseteq Probes
    /\ {Off, ConnectTimeout, Timeout} \subseteq Waitings
    /\ {Off, remoteHeartbeatTimeout} \subseteq Expiries
    /\ 0 \in Quiets /\ \A r \in Restores : 0 \in Ages(r)
  BY TimerBounds DEF Probes, Waitings, Expiries, Quiets, Ages

\* A timer that is not due runs on for a unit.
LEMMA TimersRun ==
    /\ \A t \in Probes : t # 0 => Down(t) \in Probes
    /\ \A t \in Waitings : t # 0 => Down(t) \in Waitings
    /\ \A t \in Expiries : t # 0 => Down(t) \in Expiries
    /\ \A q \in Quiets : q <= remoteHeartbeatTimeout => q + 1 \in Quiets
    /\ \A r \in Restores : \A a \in Ages(r) : a < r => a + 1 \in Ages(r)
  BY TimerBounds DEF Probes, Waitings, Expiries, Quiets, Ages, Down, Off

\* The initial states are well typed.
LEMMA InitType == Init => TypeOK
<1> SUFFICES ASSUME Init PROVE TypeOK
  OBVIOUS
<1>1. Packet("register") \in Packets
  BY TimerBounds DEF Packet, Packets, PacketKinds
<1>2. /\ quiet \in Quiets /\ probe \in Probes /\ waiting \in Waitings
      /\ expiry \in Expiries /\ age \in Ages(restore)
  BY TimerValues, Zenon DEF Init
<1>3. quiet \in 0..(remoteHeartbeatTimeout + 1)
  BY <1>2 DEF Quiets
<1>4. probe \in {Off} \cup 0..Interval
  BY <1>2 DEF Probes
<1>5. waiting \in {Off} \cup 0..ConnectTimeout \cup 0..Timeout
  BY <1>2 DEF Waitings
<1>6. expiry \in {Off} \cup 0..remoteHeartbeatTimeout
  BY <1>2 DEF Expiries
<1>7. age \in 0..restore
  BY <1>2 DEF Ages
<1>8. /\ fault \in BOOLEAN /\ connected \in BOOLEAN /\ pending \in BOOLEAN
      /\ active \in BOOLEAN /\ listed \in BOOLEAN /\ open \in BOOLEAN /\ timedOut \in BOOLEAN
  BY Zenon DEF Init
<1>9. /\ net \in {"ok", "silent"} /\ toServer \in Seq(Packets) /\ toClient \in Seq(Packets)
      /\ restore \in Restores
      /\ phase \in {"register", "restore", "up", "closed", "crashed"}
      /\ cLoop \in Seq({"start", "ok", "refused"})
      /\ cStep \in {"idle", "request", "schedule"} /\ cClose \in {"idle", "stop"}
      /\ sLoop \in Seq({"arm", "expire"})
      /\ sStep \in {"idle", "start", "recheck", "stop"}
      /\ sClose \in {"idle", "stop", "delete"}
  BY <1>1 DEF Init
<1> QED
  BY <1>3, <1>4, <1>5, <1>6, <1>7, <1>8, <1>9, Zenon DEF TypeOK

\* A unit of time ages every packet that may take longer.
LEMMA OlderType ==
    ASSUME NEW channel \in Seq(Packets), \A i \in DOMAIN channel : channel[i].age < Delay
    PROVE  Older(channel) \in Seq(Packets)
<1>1. \A i \in DOMAIN channel : [channel[i] EXCEPT !.age = @ + 1] \in Packets
  <2> SUFFICES ASSUME NEW i \in DOMAIN channel
               PROVE  [channel[i] EXCEPT !.age = @ + 1] \in Packets
    OBVIOUS
  <2>1. channel[i] \in Packets /\ channel[i].age < Delay
    OBVIOUS
  <2>2. channel[i].kind \in PacketKinds /\ channel[i].age + 1 \in 0..Delay
    BY <2>1, TimerBounds DEF Packets
  <2> QED
    BY <2>1, <2>2 DEF Packets
<1> QED
  BY <1>1 DEF Older

\* The queues: packets on their way and tasks posted to the control Loops.
Channels == Seq(Packets)
ClientTasks == Seq({"start", "ok", "refused"})
ServerTasks == Seq({"arm", "expire"})

\* Queues lose their head and gain tasks at the end.
LEMMA Queues ==
    /\ <<>> \in Channels /\ <<>> \in ClientTasks
    /\ \A q \in Channels : q # <<>> => Tail(q) \in Channels
    /\ \A q \in Channels : \A kind \in PacketKinds : Sent(q, kind) \in Channels
    /\ \A q \in ClientTasks : q # <<>> => Tail(q) \in ClientTasks
    /\ \A q \in ClientTasks : \A t \in {"start", "ok", "refused"} : Append(q, t) \in ClientTasks
    /\ \A q \in ServerTasks : q # <<>> => Tail(q) \in ServerTasks
    /\ \A q \in ServerTasks : \A t \in {"arm", "expire"} : Append(q, t) \in ServerTasks
<1>1. \A q \in Channels : \A kind \in PacketKinds : Sent(q, kind) \in Channels
  BY SentType DEF Channels
<1> QED
  BY <1>1 DEF Channels, ClientTasks, ServerTasks

\* Every step keeps every variable in its type.
LEMMA TypeStep == TypeOK /\ [Next]_vars => TypeOK'
<1> SUFFICES ASSUME TypeOK, [Next]_vars PROVE TypeOK'
  OBVIOUS
<1> DEFINE Flags ==
             /\ fault \in BOOLEAN /\ connected \in BOOLEAN /\ pending \in BOOLEAN
             /\ active \in BOOLEAN /\ listed \in BOOLEAN
             /\ open \in BOOLEAN /\ timedOut \in BOOLEAN
           Values ==
             /\ net \in {"ok", "silent"}
             /\ toServer \in Channels /\ toClient \in Channels
             /\ restore \in Restores /\ age \in Ages(restore) /\ quiet \in Quiets
             /\ phase \in {"register", "restore", "up", "closed", "crashed"}
             /\ probe \in Probes /\ waiting \in Waitings /\ expiry \in Expiries
             /\ cLoop \in ClientTasks
             /\ cStep \in {"idle", "request", "schedule"} /\ cClose \in {"idle", "stop"}
             /\ sLoop \in ServerTasks
             /\ sStep \in {"idle", "start", "recheck", "stop"}
             /\ sClose \in {"idle", "stop", "delete"}
<1>1. Flags
  BY Zenon DEF TypeOK
<1>2. Values
  BY Zenon DEF TypeOK, Probes, Waitings, Expiries, Quiets, Ages, Channels, ClientTasks,
     ServerTasks
<1>3. Flags'
  <2> USE <1>1 DEF netVars, timeVars, clientVars, serverVars
  <2>1. CASE Registered \/ Publish \/ LateAnswer \/ SetupFails \/ sendHeartbeat
    BY <2>1, Zenon DEF Registered, Publish, LateAnswer, SetupFails, closeTransport,
                       sendHeartbeat
  <2>2. CASE requestAsync \/ HeartbeatAnswered \/ HeartbeatTimesOut
    BY <2>2, Zenon DEF requestAsync, HeartbeatAnswered, HeartbeatTimesOut
  <2>3. CASE startHeartbeat \/ handleHeartbeatResult \/ scheduleHeartbeat
    BY <2>3, Zenon DEF startHeartbeat, handleHeartbeatResult, closeTransport,
                       scheduleHeartbeat
  <2>4. CASE ConnectionBroken \/ markDisconnected \/ handleRegisterNode
    BY <2>4, Zenon DEF ConnectionBroken, markDisconnected, handleRegisterNode
  <2>5. CASE refreshRemoteHeartbeat \/ SessionClosed \/ SessionTimerStopped
    BY <2>5, Zenon DEF refreshRemoteHeartbeat, SessionClosed, SessionTimerStopped
  <2>6. CASE SessionForgotten \/ Unread \/ ArmChecked \/ ArmStarted \/ ArmRechecked
    BY <2>6, Zenon DEF SessionForgotten, DeleteEntry, Unread, ArmChecked, ArmStarted,
                       ArmRechecked
  <2>7. CASE ExpiryDue \/ Expire \/ ExpireEnds
    BY <2>7, Zenon DEF ExpiryDue, Expire, ExpireEnds, DeleteEntry
  <2>8. CASE Silence \/ Crash \/ Tick \/ UNCHANGED vars
    BY <2>8, Zenon DEF Silence, Crash, Tick, vars
  <2> QED
    BY <2>1, <2>2, <2>3, <2>4, <2>5, <2>6, <2>7, <2>8, Zenon DEF Next, ClientNext,
       ServerNext
<1>4. Values'
  <2>0. {"register", "registered", "heartbeat", "ok", "refused", "fin"} \subseteq PacketKinds
    BY DEF PacketKinds
  <2>w. /\ \A kind \in PacketKinds : Sent(toServer, kind) \in Channels /\ Sent(toClient, kind) \in Channels
        /\ toServer # <<>> => Tail(toServer) \in Channels
        /\ toClient # <<>> => Tail(toClient) \in Channels
        /\ <<>> \in Channels /\ <<>> \in ClientTasks
        /\ cLoop # <<>> => Tail(cLoop) \in ClientTasks
        /\ \A t \in {"start", "ok", "refused"} : Append(cLoop, t) \in ClientTasks
        /\ sLoop # <<>> => Tail(sLoop) \in ServerTasks
        /\ \A t \in {"arm", "expire"} : Append(sLoop, t) \in ServerTasks
    BY <1>2, Queues, Zenon
  <2>v. /\ Off \in Probes /\ Interval \in Probes
        /\ Off \in Waitings /\ ConnectTimeout \in Waitings /\ Timeout \in Waitings
        /\ Off \in Expiries /\ remoteHeartbeatTimeout \in Expiries
    BY TimerValues, Zenon
  <2>1. CASE Registered \/ Publish \/ LateAnswer
    BY <1>2, <2>w, <2>v, <2>1, Zenon DEF Registered, Publish, LateAnswer, Arriving, netVars,
       timeVars, clientVars, serverVars
  <2>2. CASE SetupFails
    BY <1>2, <2>0, <2>w, <2>v, <2>2, Zenon DEF SetupFails, closeTransport, timeVars, serverVars
  <2>3. CASE sendHeartbeat
    BY <1>2, <2>0, <2>w, <2>v, <2>3, Zenon DEF sendHeartbeat, netVars, timeVars, serverVars
  <2>4. CASE requestAsync
    BY <1>2, <2>0, <2>w, <2>v, <2>4, Zenon DEF requestAsync, timeVars, serverVars
  <2>5. CASE HeartbeatAnswered
    BY <1>2, <2>0, <2>w, <2>v, <2>5, Zenon DEF HeartbeatAnswered, ProbeResult, Arriving,
       timeVars, serverVars
  <2>6. CASE HeartbeatTimesOut
    BY <1>2, <2>0, <2>w, <2>v, <2>6, Zenon DEF HeartbeatTimesOut, ProbeResult, netVars,
       timeVars, serverVars
  <2>7. CASE startHeartbeat
    BY <1>2, <2>0, <2>w, <2>v, <2>7, Zenon DEF startHeartbeat, NextTask, netVars, timeVars,
       serverVars
  <2>8. CASE handleHeartbeatResult
    <3>1. AfterAnswer \in {"idle", "request", "schedule"}
      BY DEF AfterAnswer
    <3>2. cLoop' \in ClientTasks /\ UNCHANGED <<net, toClient, timeVars, cClose, serverVars>>
      BY <2>8, <2>w, Zenon DEF handleHeartbeatResult, NextTask
    <3>3. CASE closeTransport /\ UNCHANGED cStep
      BY <1>2, <2>0, <2>w, <2>v, <3>2, <3>3, Zenon DEF closeTransport, timeVars, serverVars
    <3>4. CASE cStep' = AfterAnswer /\ UNCHANGED <<phase, connected, probe, waiting, toServer>>
      BY <1>2, <3>1, <3>2, <3>4, Zenon DEF timeVars, serverVars
    <3> QED
      BY <2>8, <3>3, <3>4, Zenon DEF handleHeartbeatResult
  <2>9. CASE scheduleHeartbeat
    BY <1>2, <2>0, <2>w, <2>v, <2>9, Zenon DEF scheduleHeartbeat, NextProbe, netVars,
       timeVars, serverVars
  <2>10. CASE ConnectionBroken
    BY <1>2, <2>0, <2>w, <2>v, <2>10, Zenon DEF ConnectionBroken, Arriving, timeVars, serverVars
  <2>11. CASE markDisconnected
    BY <1>2, <2>0, <2>w, <2>v, <2>11, Zenon DEF markDisconnected, netVars, timeVars, serverVars
  <2>12. CASE handleRegisterNode
    BY <1>2, <2>0, <2>w, <2>v, <2>12, Zenon DEF handleRegisterNode, Arrives, Arriving,
       Refreshed, timeVars, clientVars
  <2>13. CASE refreshRemoteHeartbeat
    BY <1>2, <2>0, <2>w, <2>v, <2>13, Zenon DEF refreshRemoteHeartbeat, Arrives, Arriving,
       Refreshed, timeVars, clientVars
  <2>14. CASE SessionClosed
    BY <1>2, <2>0, <2>w, <2>v, <2>14, Zenon DEF SessionClosed, Arrives, Arriving, timeVars,
       clientVars
  <2>15. CASE SessionTimerStopped
    BY <1>2, <2>0, <2>w, <2>v, <2>15, Zenon DEF SessionTimerStopped, netVars, timeVars,
       clientVars
  <2>16. CASE SessionForgotten
    BY <1>2, <2>0, <2>w, <2>v, <2>16, Zenon DEF SessionForgotten, netVars, timeVars, clientVars
  <2>17. CASE Unread
    BY <1>2, <2>0, <2>w, <2>v, <2>17, Zenon DEF Unread, timeVars, clientVars, serverVars
  <2>18. CASE ArmChecked
    BY <1>2, <2>0, <2>w, <2>v, <2>18, Zenon DEF ArmChecked, netVars, timeVars, clientVars
  <2>19. CASE ArmStarted
    BY <1>2, <2>0, <2>w, <2>v, <2>19, Zenon DEF ArmStarted, AfterStart, netVars, timeVars,
       clientVars
  <2>20. CASE ArmRechecked
    BY <1>2, <2>0, <2>w, <2>v, <2>20, Zenon DEF ArmRechecked, netVars, timeVars, clientVars
  <2>21. CASE ExpiryDue
    BY <1>2, <2>0, <2>w, <2>v, <2>21, Zenon DEF ExpiryDue, netVars, timeVars, clientVars
  <2>22. CASE Expire
    BY <1>2, <2>0, <2>w, <2>v, <2>22, Zenon DEF Expire, netVars, timeVars, clientVars
  <2>23. CASE ExpireEnds
    BY <1>2, <2>0, <2>w, <2>v, <2>23, Zenon DEF ExpireEnds, timeVars, clientVars
  <2>24. CASE Silence
    BY <1>2, <2>0, <2>w, <2>v, <2>24, Zenon DEF Silence, clientVars, serverVars
  <2>25. CASE Crash
    BY <1>2, <2>0, <2>w, <2>v, <2>25, Zenon DEF Crash, serverVars
  <2>26. CASE Tick
    <3>0. /\ restore \in Restores /\ age \in Ages(restore) /\ quiet \in Quiets
          /\ probe \in Probes /\ waiting \in Waitings /\ expiry \in Expiries
          /\ toServer \in Channels /\ toClient \in Channels
      BY <1>2, Zenon
    <3>1. toServer' \in Channels /\ toClient' \in Channels
      BY <2>26, <3>0, OlderType, Zenon DEF Tick, Waits, Channels
    <3>2. age' \in Ages(restore) /\ quiet' \in Quiets
      BY <2>26, <3>0, TimersRun, Zenon DEF Tick, Waits
    <3>3. probe # 0 /\ waiting # 0 /\ expiry # 0
      BY <2>26, Zenon DEF Tick, Waits
    <3>4. probe' \in Probes /\ expiry' \in Expiries /\ waiting' \in Waitings
      BY <2>26, <3>0, <3>3, TimersRun, Zenon DEF Tick
    <3> QED
      BY <1>2, <2>26, <3>1, <3>2, <3>4, Zenon DEF Tick
  <2>27. CASE UNCHANGED vars
    BY <1>2, <2>0, <2>w, <2>v, <2>27, Zenon DEF vars, netVars, timeVars, clientVars, serverVars
  <2> QED
    BY <2>1, <2>2, <2>3, <2>4, <2>5, <2>6, <2>7, <2>8, <2>9, <2>10, <2>11, <2>12, <2>13,
       <2>14, <2>15, <2>16, <2>17, <2>18, <2>19, <2>20, <2>21, <2>22, <2>23, <2>24,
       <2>25, <2>26, <2>27, Zenon DEF Next, ClientNext, ServerNext
<1> QED
  BY <1>3, <1>4, Zenon DEF TypeOK, Probes, Waitings, Expiries, Quiets, Ages, Channels,
     ClientTasks, ServerTasks

-----------------------------------------------------------------------------
(* The expiry timer of a removed session *)

\* removeRemoteNode stops a timer that runs, and armRemoteNodeTimeout reads active
\* again after it has started one.
LEMMA StopStep == StopInv /\ [Next]_vars => StopInv'
<1> SUFFICES ASSUME StopInv, [Next]_vars PROVE StopInv'
  OBVIOUS
<1> USE DEF StopInv
<1>1. ASSUME UNCHANGED <<active, expiry, sStep, sClose>> PROVE StopInv'
  BY <1>1
<1>2. CASE ClientNext \/ Silence \/ Crash
  <2>1. UNCHANGED serverVars
    BY <1>2, Zenon DEF ClientNext, Silence, Crash, Registered, SetupFails, Publish,
       sendHeartbeat, requestAsync, HeartbeatAnswered, HeartbeatTimesOut, LateAnswer,
       startHeartbeat, handleHeartbeatResult, scheduleHeartbeat, ConnectionBroken,
       markDisconnected
  <2> QED
    BY <1>1, <2>1, Zenon DEF serverVars
<1>3. CASE handleRegisterNode \/ refreshRemoteHeartbeat \/ Unread
  BY <1>1, <1>3, Zenon DEF handleRegisterNode, refreshRemoteHeartbeat, Unread, serverVars
<1>4. CASE SessionClosed \/ SessionTimerStopped \/ SessionForgotten
  BY <1>4, Zenon DEF SessionClosed, Arrives, SessionTimerStopped, SessionForgotten
<1>5. CASE ArmChecked \/ ArmStarted \/ ArmRechecked
  BY <1>5, Zenon DEF ArmChecked, ArmStarted, ArmRechecked, AfterStart
<1>6. CASE ExpiryDue \/ Expire \/ ExpireEnds
  BY <1>6, Zenon DEF ExpiryDue, Expire, ExpireEnds
<1>7. CASE Tick
  <2>1. expiry = Off => expiry' = Off
    BY <1>7, Zenon DEF Tick, Down
  <2> QED
    BY <1>7, <2>1, Zenon DEF Tick
<1> QED
  BY <1>1, <1>2, <1>3, <1>4, <1>5, <1>6, <1>7, Zenon DEF Next, ServerNext, vars, serverVars

-----------------------------------------------------------------------------
(* The chain of probes *)

\* One and only one thing carries the chain on, whatever ends the link meanwhile.
LEMMA ChainStep == TypeOK /\ ChainInv /\ [Next]_vars => ChainInv'
<1> SUFFICES ASSUME TypeOK, ChainInv, [Next]_vars PROVE ChainInv'
  OBVIOUS
<1>0. /\ probe \in Probes /\ waiting \in Waitings
      /\ connected \in BOOLEAN /\ pending \in BOOLEAN
  BY Zenon DEF TypeOK, Probes, Waitings
<1>o. ConnectTimeout # Off /\ Timeout # Off /\ Interval # Off /\ 0 # Off
  BY TimerBounds
<1>1. ASSUME UNCHANGED clientVars PROVE ChainInv'
  BY <1>1, Zenon DEF ChainInv, Chained, clientVars
<1>2. ASSUME phase' \notin {"register", "restore", "up"} PROVE ChainInv'
  BY <1>2 DEF ChainInv
<1>3. CASE Registered
  BY <1>3, Zenon DEF Registered, ChainInv
<1>4. CASE SetupFails \/ Crash
  BY <1>2, <1>4, Zenon DEF SetupFails, closeTransport, Crash
<1>5. CASE Publish
  <2>1. cLoop' = <<"start">>
    BY <1>5 DEF Publish, Restoring, ChainInv
  <2> QED
    BY <1>5, <2>1, Zenon DEF Publish, Restoring, ChainInv, Chained
<1>6. CASE sendHeartbeat
  BY <1>0, <1>o, <1>6, Zenon DEF sendHeartbeat, ChainInv, Chained
<1>7. CASE requestAsync
  BY <1>0, <1>o, <1>7, Zenon DEF requestAsync, ChainInv, Chained
<1>8. CASE HeartbeatAnswered \/ HeartbeatTimesOut
  <2>1. PICK r \in {"ok", "refused"} : ProbeResult(r)
    BY <1>8, Zenon DEF HeartbeatAnswered, HeartbeatTimesOut
  <2>2. /\ phase = "up" /\ waiting # Off
        /\ UNCHANGED <<phase, connected, probe, pending, cStep>>
    BY <1>8, <1>o, Zenon DEF HeartbeatAnswered, HeartbeatTimesOut
  <2>3. CASE connected
    <3>1. cLoop = <<>> /\ cStep = "idle" /\ pending /\ probe = Off
      BY <2>2, <2>3, Zenon DEF ChainInv, Chained
    <3>2. cLoop' = <<r>> /\ waiting' = Off
      BY <2>1, <2>3, <3>1 DEF ProbeResult
    <3> QED
      BY <2>2, <3>1, <3>2, Zenon DEF ChainInv, Chained
  <2>4. CASE ~ connected
    BY <2>2, <2>4, Zenon DEF ChainInv
  <2> QED
    BY <2>3, <2>4
<1>9. CASE startHeartbeat
  <2>1. phase \notin {"register", "restore"}
    BY <1>9, Zenon DEF startHeartbeat, NextTask, ChainInv
  <2>2. CASE phase = "up" /\ connected
    <3>1. cLoop = <<"start">>
      BY <1>9, <2>2 DEF startHeartbeat, NextTask, ChainInv, Chained
    <3>2. cLoop' = <<>> /\ cStep' = "schedule"
      BY <1>9, <2>2, <3>1 DEF startHeartbeat, NextTask
    <3> QED
      BY <1>9, <2>2, <3>1, <3>2, Zenon DEF startHeartbeat, ChainInv, Chained
  <2>3. CASE ~ (phase = "up" /\ connected)
    BY <1>9, <2>1, <2>3, Zenon DEF startHeartbeat, ChainInv
  <2> QED
    BY <2>2, <2>3
<1>10. CASE handleHeartbeatResult
  <2>1. phase \notin {"register", "restore"}
    BY <1>10, Zenon DEF handleHeartbeatResult, NextTask, ChainInv
  <2>2. CASE closeTransport
    BY <1>2, <2>2 DEF closeTransport
  <2>3. CASE cStep' = AfterAnswer /\ UNCHANGED <<phase, connected, probe, waiting>>
    <3>1. CASE phase = "up" /\ connected
      <4>1. cLoop \in {<<"ok">>, <<"refused">>} /\ pending /\ probe = Off /\ waiting = Off
        BY <1>10, <3>1 DEF handleHeartbeatResult, NextTask, ChainInv, Chained
      <4>2. cLoop' = <<>> /\ ~ pending'
        BY <1>10, <4>1 DEF handleHeartbeatResult, NextTask
      <4>3. cStep' = "schedule"
        BY <2>3, <3>1, <4>1 DEF AfterAnswer
      <4> QED
        BY <2>3, <3>1, <4>1, <4>2, <4>3, Zenon DEF ChainInv, Chained
    <3>2. CASE ~ (phase = "up" /\ connected)
      BY <2>1, <2>3, <3>2, Zenon DEF ChainInv
    <3> QED
      BY <3>1, <3>2
  <2> QED
    BY <1>10, <2>2, <2>3, Zenon DEF handleHeartbeatResult
<1>11. CASE scheduleHeartbeat
  BY <1>o, <1>11, Zenon DEF scheduleHeartbeat, NextProbe, ChainInv, Chained
<1>12. CASE ConnectionBroken \/ markDisconnected
  BY <1>12 DEF ConnectionBroken, markDisconnected, ChainInv
<1>13. CASE LateAnswer \/ ServerNext \/ Silence
  <2>1. UNCHANGED clientVars
    BY <1>13, Zenon DEF LateAnswer, Silence, ServerNext, handleRegisterNode,
       refreshRemoteHeartbeat, SessionClosed, SessionTimerStopped, SessionForgotten, Unread,
       ArmChecked, ArmStarted, ArmRechecked, ExpiryDue, Expire, ExpireEnds
  <2> QED
    BY <1>1, <2>1
<1>14. CASE Tick
  <2>1. ASSUME NEW t, t \in Probes \/ t \in Waitings, t # 0
        PROVE  Down(t) = Off <=> t = Off
    BY <2>1, TimerBounds DEF Down, Off, Probes, Waitings
  <2>2. probe' = Off <=> probe = Off
    BY <1>0, <1>14, <2>1, Zenon DEF Tick, Waits
  <2>3. waiting' = Off <=> waiting = Off
    BY <1>0, <1>14, <2>1, Zenon DEF Tick, Waits
  <2> QED
    BY <1>14, <2>2, <2>3, Zenon DEF Tick, ChainInv, Chained
<1> QED
  BY <1>1, <1>3, <1>4, <1>5, <1>6, <1>7, <1>8, <1>9, <1>10, <1>11, <1>12, <1>13, <1>14,
     Zenon DEF Next, ClientNext, vars

-----------------------------------------------------------------------------
(* The theorems *)

\* The inductive invariant holds in every reachable state.
THEOREM Invariance == Spec => []Inv
<1>1. Init => Inv
  <2> SUFFICES ASSUME Init PROVE Inv
    OBVIOUS
  <2>1. StopInv /\ ChainInv
    BY Zenon DEF Init, StopInv, ChainInv
  <2> QED
    BY <2>1, InitType DEF Inv
<1>2. Inv /\ [Next]_vars => Inv'
  BY TypeStep, StopStep, ChainStep DEF Inv
<1> QED
  BY <1>1, <1>2, PTL DEF Spec

\* Every variable keeps its type, timers between Off and the value they are started
\* with (rpc_client.go:20-30, node.go:120-126).
THEOREM TypeCorrect == Spec => []TypeOK
  BY Invariance, PTL DEF Inv

\* No order of removeRemoteNode and armRemoteNodeTimeout leaves a timer running on a
\* removed session (node.go:1420-1436, 1440-1446).
THEOREM TimersAreStopped == Spec => []NoStrayTimer
<1>1. Inv => NoStrayTimer
  BY DEF Inv, StopInv, NoStrayTimer
<1> QED
  BY <1>1, Invariance, PTL

\* A live link is always probed, by one chain of probes (rpc_client.go:194-249).
THEOREM LinksAreProbed == Spec => []ProbeChain
<1>1. Inv => ProbeChain
  BY DEF Inv, ChainInv, Chained, ProbeChain
<1> QED
  BY <1>1, Invariance, PTL

=============================================================================
