------------------------ MODULE ServerWorkers_proofs ------------------------
(***************************************************************************)
(* Proofs about the background work of the server: the identity cache of   *)
(* the gateways (module IdCache), the identities of the recognized names   *)
(* (module IdentityTasks) and the refresh of the archive (module           *)
(* PersonnelRefresh), for any number of gateways, lifetimes, rows, uploads,*)
(* changes, switches, failures and restarts, as parts of the specification *)
(* that the runs check (module ServerWorkers).                             *)
(***************************************************************************)
EXTENDS ServerWorkers, WriteQueue_proofs, SequenceTheorems, FiniteSetTheorems, TLAPS

IdCacheSpec == IdCacheInit /\ [][IdCacheNext]_caches

-----------------------------------------------------------------------------
(* The identity cache: the inductive invariant.                            *)

Stages == {"free", "read", "warm", "decide", "mark"} \cup Busy

Times == None..MaxTime

Asked == [reads : Nat, told : Times, refused : BOOLEAN]

Trouble == [faults : Nat, store : BOOLEAN, crossed : BOOLEAN, overrun : SUBSET Gateways]

Requests == [at : Stages, begun : 0..MaxTime, known : Times, record : Times]

Refreshes == [at : {"idle", "mark", "release"} \cup Busy, record : Times]

\* The types, with those of the parts that the module's own invariant leaves out.
TimesTyped ==
    /\ redis \in Times /\ durable \in Times
    /\ time \in 0..MaxTime
    /\ asked \in Asked
    /\ trouble \in Trouble
    /\ lock \in Gateways \cup {NoToken}
    /\ tasks \in [Gateways -> {"none", "due", "later"}]
    /\ reader \in [Gateways -> Requests]
    /\ refresher \in [Gateways -> Refreshes]

TasksHeld == \A g \in Gateways : refresher[g].at \in Busy => tasks[g] = "due"

\* Whoever refreshes holds the lock, unless it has ended under the hand.
LockHeld == \A g \in Refreshing \ trouble.overrun : lock = g

\* No store has failed and no two loads have overlapped.
Calm == ~trouble.store /\ ~trouble.crossed

\* Nobody else is between a load and its writes.
OneLoad ==
    /\ \A g, h \in Reading : g = h
    /\ \A g, h \in Refreshing : g = h
    /\ Reading = {} \/ Refreshing = {}

\* What PostgreSQL keeps is at least as new as all that Redis, a request or a
\* refresh has read or anybody was told, and no newer than what is on its way there.
ReaderLeads(g) ==
    /\ reader[g].known <= durable
    /\ reader[g].at \in {"read", "warm", "decide", "hot", "mark"} => reader[g].record <= durable
    /\ reader[g].at \in {"warm", "decide"} => reader[g].known <= reader[g].record
    /\ reader[g].at = "load" => ~WithinGrace(g)
    /\ reader[g].at = "durable" => durable <= reader[g].record

RefresherLeads(g) ==
    /\ refresher[g].at \in {"hot", "mark"} => refresher[g].record <= durable
    /\ refresher[g].at = "durable" => durable <= refresher[g].record

DurableLeads ==
    /\ redis <= durable /\ asked.told <= durable
    /\ \A g \in Gateways : ReaderLeads(g) /\ RefresherLeads(g)

RecordsPast ==
    /\ redis <= time /\ durable <= time
    /\ \A g \in Gateways : reader[g].record <= time /\ refresher[g].record <= time

CalmLeads == Calm => OneLoad /\ DurableLeads

CacheInv ==
    /\ TimesTyped /\ TasksHeld /\ RecordsPast
    /\ LockHeld
    /\ CalmLeads
    /\ OutageIsBridged

-----------------------------------------------------------------------------
\* No record, request or lock when the gateways start for the first time.
LEMMA CacheInitEstablishes == IdCacheInit => CacheInv
<1> USE IdCacheAssumption
<1> SUFFICES ASSUME IdCacheInit
             PROVE  CacheInv
  OBVIOUS
<1>1. Reading = {} /\ Refreshing = {}
  BY DEF IdCacheInit, Reading, Refreshing, NoRead, NoRefresh, Busy
<1>2. TimesTyped /\ RecordsPast
  BY DEF IdCacheInit, TimesTyped, RecordsPast, Times, Stages, Asked, Trouble, Requests,
     Refreshes, NoRead, NoRefresh, None, NoToken
<1>3. QED
  BY <1>1, <1>2 DEF CacheInv, IdCacheInit, TasksHeld, LockHeld, CalmLeads, OneLoad,
     DurableLeads, ReaderLeads, RefresherLeads, OutageIsBridged, NoRead, NoRefresh, None, Busy

\* A fault counts, and may be one of a store.
LEMMA FaultCounts ==
    ASSUME trouble \in Trouble, NEW b \in BOOLEAN, Fault(b)
    PROVE  /\ trouble' \in Trouble
           /\ b => trouble'.store
           /\ trouble.store => trouble'.store
           /\ trouble'.crossed = trouble.crossed
           /\ trouble'.overrun = trouble.overrun
<1>1. trouble.faults + 1 \in Nat
  BY DEF Trouble
<1>2. CASE b
  <2>1. trouble' = [trouble EXCEPT !.faults = @ + 1, !.store = TRUE]
    BY <1>2 DEF Fault, Trouble
  <2>2. trouble' \in Trouble
    BY <1>1, <2>1, Zenon DEF Trouble
  <2>3. trouble'.store
    BY <2>1 DEF Trouble
  <2>4. trouble'.crossed = trouble.crossed
    BY <2>1 DEF Trouble
  <2>5. trouble'.overrun = trouble.overrun
    BY <2>1 DEF Trouble
  <2>6. QED
    BY <2>2, <2>3, <2>4, <2>5
<1>3. CASE ~b
  <2>1. trouble' = [trouble EXCEPT !.faults = @ + 1]
    <3>1. b = FALSE
      BY <1>3
    <3>2. (trouble.store \/ b) = trouble.store
      BY <3>1 DEF Trouble
    <3>3. trouble' = [trouble EXCEPT !.faults = @ + 1, !.store = trouble.store]
      BY <3>2, Zenon DEF Fault
    <3>4. QED
      BY <3>3 DEF Trouble
  <2>2. trouble' \in Trouble
    BY <1>1, <2>1, Zenon DEF Trouble
  <2>3. trouble'.store = trouble.store
    BY <2>1 DEF Trouble
  <2>4. trouble'.crossed = trouble.crossed
    BY <2>1 DEF Trouble
  <2>5. trouble'.overrun = trouble.overrun
    BY <2>1 DEF Trouble
  <2>6. QED
    BY <1>3, <2>2, <2>3, <2>4, <2>5
<1>4. QED
  BY <1>2, <1>3

\* The newest record that was told.
LEMMA ToldNewer ==
    ASSUME TimesTyped, NEW r \in Times
    PROVE  /\ Told(r) \in Asked
           /\ Told(r).told \in {asked.told, r}
           /\ Told(r).refused = asked.refused
  BY DEF Told, TimesTyped, Asked, Times, None

\* A step of a store: it takes the record or there is a fault.
LEMMA StoresTake ==
    ASSUME trouble \in Trouble, NEW r
    PROVE  /\ HotTakes(r) => trouble' \in Trouble /\ redis' \in {redis, r}
           /\ DurableTakes(r) => trouble' \in Trouble /\ durable' \in {durable, r}
<1>1. Fault(TRUE) => trouble' \in Trouble
  BY FaultCounts
<1>2. QED
  BY <1>1 DEF HotTakes, DurableTakes

\* Every step keeps the types, and the times in the past.
LEMMA CacheTypesPreserved ==
    ASSUME TimesTyped, RecordsPast, [IdCacheNext]_caches
    PROVE  TimesTyped' /\ RecordsPast'
<1> USE IdCacheAssumption
<1> USE DEF TimesTyped, RecordsPast
<1>1. ASSUME NEW g \in Gateways, ReadHot(g)
      PROVE  TimesTyped' /\ RecordsPast'
  <2>1. PICK r \in {redis, None} :
            /\ IF r = redis THEN UNCHANGED trouble ELSE Fault(TRUE)
            /\ IF IsFresh(r, time)
               THEN /\ asked' = [Told(r) EXCEPT !.reads = @ + 1]
                    /\ UNCHANGED reader
               ELSE /\ asked' = [asked EXCEPT !.reads = @ + 1]
                    /\ reader' = [reader EXCEPT ![g] =
                        [at |-> "read", begun |-> time, known |-> asked.told, record |-> r]]
    BY <1>1 DEF ReadHot
  <2>2. r \in Times /\ r <= time
    BY DEF Times, None
  <2>3. trouble' \in Trouble
    BY <2>1, FaultCounts
  <2>4. asked' \in Asked
    BY <2>1, <2>2, ToldNewer DEF Asked
  <2>5. reader' \in [Gateways -> Requests]
    BY <2>1, <2>2 DEF Requests, Stages, Asked
  <2>6. \A h \in Gateways : reader'[h].record <= time
    BY <2>1, <2>2 DEF Requests
  <2>7. QED
    BY <1>1, <2>3, <2>4, <2>5, <2>6 DEF ReadHot
<1>2. ASSUME NEW g \in Gateways, ReadDurable(g)
      PROVE  TimesTyped' /\ RecordsPast'
  <2>1. trouble' \in Trouble
    BY <1>2, FaultCounts DEF ReadDurable
  <2>2. /\ reader' \in [Gateways -> Requests]
        /\ \A h \in Gateways : reader'[h].record <= time
    <3>1. CASE reader' = [reader EXCEPT ![g].at = "warm", ![g].record = durable]
      BY <3>1 DEF Requests, Stages
    <3>2. CASE reader' = [reader EXCEPT ![g].at = "decide"]
      BY <3>2 DEF Requests, Stages
    <3>3. QED
      BY <1>2, <3>1, <3>2 DEF ReadDurable
  <2>3. QED
    BY <1>2, <2>1, <2>2 DEF ReadDurable
<1>3. ASSUME NEW g \in Gateways, WarmHot(g)
      PROVE  TimesTyped' /\ RecordsPast'
  <2>1. trouble' \in Trouble /\ redis' \in {redis, reader[g].record}
    BY <1>3, StoresTake DEF WarmHot
  <2>2. reader[g].record \in Times /\ reader[g].record <= time
    BY DEF Requests
  <2>3. /\ reader' \in [Gateways -> Requests]
        /\ \A h \in Gateways : reader'[h].record <= time
    BY <1>3 DEF WarmHot, Requests, Stages
  <2>4. QED
    BY <1>3, <2>1, <2>2, <2>3 DEF WarmHot
<1>4. ASSUME NEW g \in Gateways, Decide(g)
      PROVE  TimesTyped' /\ RecordsPast'
  <2>1. tasks' \in [Gateways -> {"none", "due", "later"}]
    BY <1>4 DEF Decide, Enqueued
  <2>2. trouble' \in Trouble
    <3>1. (trouble.crossed \/ Overlapping(g)) \in BOOLEAN
      OBVIOUS
    <3>2. CASE UNCHANGED trouble
      BY <3>2
    <3>3. CASE trouble' = [trouble EXCEPT !.crossed = @ \/ Overlapping(g)]
      BY <3>1, <3>3, Zenon DEF Trouble
    <3>4. QED
      BY <1>4, <3>2, <3>3 DEF Decide
  <2>3. asked' \in Asked
    BY <1>4, ToldNewer DEF Decide, Requests
  <2>4. /\ reader' \in [Gateways -> Requests]
        /\ \A h \in Gateways : reader'[h].record <= time
    <3>1. CASE reader' = [reader EXCEPT ![g] = NoRead]
      BY <3>1 DEF NoRead, Requests, Stages, Times, None
    <3>2. CASE reader' = [reader EXCEPT ![g].at = "load"]
      BY <3>2 DEF Requests, Stages, Busy
    <3>3. QED
      BY <1>4, <3>1, <3>2 DEF Decide
  <2>5. QED
    BY <1>4, <2>1, <2>2, <2>3, <2>4 DEF Decide
<1>5. ASSUME NEW g \in Gateways, LoadMissing(g)
      PROVE  TimesTyped' /\ RecordsPast'
  <2>1. trouble' \in Trouble
    BY <1>5, FaultCounts DEF LoadMissing
  <2>2. asked' \in Asked
    BY <1>5 DEF LoadMissing, Asked
  <2>3. /\ reader' \in [Gateways -> Requests]
        /\ \A h \in Gateways : reader'[h].record <= time
    <3>1. CASE reader' = [reader EXCEPT ![g].at = "durable", ![g].record = time]
      <4>1. time \in Times /\ "durable" \in Stages
        BY DEF Times, None, Stages, Busy
      <4>2. reader' \in [Gateways -> Requests]
        BY <3>1, <4>1 DEF Requests
      <4>3. \A h \in Gateways : reader'[h].record <= time
        BY <3>1 DEF Requests
      <4>4. QED
        BY <4>2, <4>3
    <3>2. CASE reader' = [reader EXCEPT ![g] = [NoRead EXCEPT !.at = "mark", !.record = redis]]
      <4>1. /\ [NoRead EXCEPT !.at = "mark", !.record = redis] \in Requests
            /\ [NoRead EXCEPT !.at = "mark", !.record = redis].record = redis
        <5>1. None \in Times /\ 0 \in 0..MaxTime
          BY DEF Times, None
        <5>2. QED
          BY <5>1 DEF NoRead, Requests, Stages
      <4>2. QED
        BY <3>2, <4>1
    <3>3. QED
      BY <1>5, <3>1, <3>2 DEF LoadMissing
  <2>4. QED
    BY <1>5, <2>1, <2>2, <2>3 DEF LoadMissing
<1>6. ASSUME NEW g \in Gateways, KeepLoaded(g)
      PROVE  TimesTyped' /\ RecordsPast'
  <2>1. /\ trouble' \in Trouble
        /\ redis' \in {redis, reader[g].record}
        /\ durable' \in {durable, reader[g].record}
    BY <1>6, StoresTake DEF KeepLoaded
  <2>2. reader[g].record \in Times /\ reader[g].record <= time
    BY DEF Requests
  <2>3. asked' \in Asked
    BY <1>6, <2>2, ToldNewer DEF KeepLoaded
  <2>4. /\ reader' \in [Gateways -> Requests]
        /\ \A h \in Gateways : reader'[h].record <= time
    <3>1. CASE reader' = [reader EXCEPT ![g].at = "hot"]
      BY <3>1 DEF Requests, Stages, Busy
    <3>2. CASE reader' = [reader EXCEPT ![g] = NoRead]
      BY <3>2 DEF NoRead, Requests, Stages, Times, None
    <3>3. QED
      BY <1>6, <3>1, <3>2 DEF KeepLoaded
  <2>5. QED
    BY <1>6, <2>1, <2>2, <2>3, <2>4 DEF KeepLoaded
<1>7. ASSUME NEW g \in Gateways, MarkFailed(g)
      PROVE  TimesTyped' /\ RecordsPast'
  BY <1>7 DEF MarkFailed, NoRead, Requests, Stages, Times, None
<1>8. ASSUME NEW g \in Gateways, AcquireLock(g)
      PROVE  TimesTyped' /\ RecordsPast'
  <2>1. trouble' \in Trouble
    BY <1>8 DEF AcquireLock, Trouble
  <2>2. QED
    BY <1>8, <2>1 DEF AcquireLock, Refreshes, Busy
<1>9. ASSUME NEW g \in Gateways, RefreshLoads(g)
      PROVE  TimesTyped' /\ RecordsPast'
  <2>1. trouble' \in Trouble
    BY <1>9, FaultCounts DEF RefreshLoads
  <2>2. tasks' \in [Gateways -> {"none", "due", "later"}]
    BY <1>9 DEF RefreshLoads, PutOff
  <2>3. /\ refresher' \in [Gateways -> Refreshes]
        /\ \A h \in Gateways : refresher'[h].record <= time
    <3>1. CASE refresher' = [refresher EXCEPT ![g] = [at |-> "durable", record |-> time]]
      BY <3>1 DEF Refreshes, Busy, Times, None
    <3>2. CASE refresher' = [refresher EXCEPT ![g] = [at |-> "mark", record |-> redis]]
      BY <3>2 DEF Refreshes, Times, None
    <3>3. CASE refresher' = [refresher EXCEPT ![g].at = "release"]
      BY <3>3 DEF Refreshes
    <3>4. QED
      BY <1>9, <3>1, <3>2, <3>3 DEF RefreshLoads, PutOff
  <2>4. QED
    BY <1>9, <2>1, <2>2, <2>3 DEF RefreshLoads
<1>10. ASSUME NEW g \in Gateways, RefreshKeeps(g)
       PROVE  TimesTyped' /\ RecordsPast'
  <2>1. trouble' \in Trouble
    BY <1>10, FaultCounts DEF RefreshKeeps
  <2>2. tasks' \in [Gateways -> {"none", "due", "later"}]
    BY <1>10 DEF RefreshKeeps, PutOff
  <2>3. /\ refresher' \in [Gateways -> Refreshes]
        /\ \A h \in Gateways : refresher'[h].record <= time
    <3>1. CASE refresher' = [refresher EXCEPT ![g].at = "hot"]
      BY <3>1 DEF Refreshes, Busy
    <3>2. CASE refresher' = [refresher EXCEPT ![g] = [at |-> "mark", record |-> redis]]
      BY <3>2 DEF Refreshes, Times, None
    <3>3. CASE refresher' = [refresher EXCEPT ![g] = [at |-> "release", record |-> None]]
      BY <3>3 DEF Refreshes, Times, None
    <3>4. QED
      BY <1>10, <3>1, <3>2, <3>3 DEF RefreshKeeps, PutOff
  <2>4. /\ redis' \in {redis, refresher[g].record}
        /\ durable' \in {durable, refresher[g].record}
    BY <1>10 DEF RefreshKeeps
  <2>5. refresher[g].record \in Times /\ refresher[g].record <= time
    BY DEF Refreshes
  <2>6. UNCHANGED <<lock, reader, time, asked>>
    BY <1>10 DEF RefreshKeeps
  <2>7. QED
    BY <2>1, <2>2, <2>3, <2>4, <2>5, <2>6
<1>11. ASSUME NEW g \in Gateways, RefreshMarks(g)
       PROVE  TimesTyped' /\ RecordsPast'
  BY <1>11 DEF RefreshMarks, Refreshes, Times, None
<1>12. ASSUME NEW g \in Gateways, ReleaseLock(g)
       PROVE  TimesTyped' /\ RecordsPast'
  <2>1. trouble' \in Trouble
    BY <1>12 DEF ReleaseLock, Trouble
  <2>2. QED
    BY <1>12, <2>1 DEF ReleaseLock, NoRefresh, Refreshes, Times, None, Unlocked
<1>13. ASSUME NEW g \in Gateways, BackoffEnds(g)
       PROVE  TimesTyped' /\ RecordsPast'
  BY <1>13 DEF BackoffEnds
<1>14. ASSUME NEW g \in Gateways, GatewayRestarts(g)
       PROVE  TimesTyped' /\ RecordsPast'
  <2>1. trouble.faults + 1 \in Nat /\ trouble.overrun \ {g} \in SUBSET Gateways
    BY DEF Trouble
  <2>2. trouble' \in Trouble
    BY <1>14, <2>1, Zenon DEF GatewayRestarts, Trouble
  <2>3. /\ reader' \in [Gateways -> Requests]
        /\ refresher' \in [Gateways -> Refreshes]
        /\ \A h \in Gateways : reader'[h].record <= time /\ refresher'[h].record <= time
    BY <1>14 DEF GatewayRestarts, NoRead, NoRefresh, Requests, Refreshes, Stages, Times, None
  <2>4. QED
    BY <1>14, <2>2, <2>3 DEF GatewayRestarts
<1>15. CASE LockEnds
  <2>1. lock \in Gateways
    BY <1>15 DEF LockEnds
  <2>2. trouble.faults + 1 \in Nat /\ trouble.overrun \cup {lock} \in SUBSET Gateways
    BY <2>1 DEF Trouble
  <2>3. trouble' \in Trouble
    <3>1. CASE UNCHANGED trouble
      BY <3>1
    <3>2. CASE trouble' = [trouble EXCEPT !.faults = @ + 1, !.overrun = @ \cup {lock}]
      BY <2>2, <3>2, Zenon DEF Trouble
    <3>3. QED
      BY <1>15, <3>1, <3>2 DEF LockEnds
  <2>4. QED
    BY <1>15, <2>3 DEF LockEnds
<1>16. CASE HotForgets
  BY <1>16 DEF HotForgets, Times, None
<1>17. CASE TimePasses
  BY <1>17 DEF TimePasses, Times, None, Requests, Refreshes
<1>18. CASE UNCHANGED caches
  BY <1>18 DEF caches
<1>19. QED
  BY <1>1, <1>2, <1>3, <1>4, <1>5, <1>6, <1>7, <1>8, <1>9, <1>10, <1>11, <1>12, <1>13,
     <1>14, <1>15, <1>16, <1>17, <1>18 DEF IdCacheNext, ReadSteps, RefreshSteps

-----------------------------------------------------------------------------
(* The lock.                                                               *)

\* A step that leaves the lock, its ends and who refreshes alone, but for those
\* who are done with it.
LEMMA LockUndisturbed ==
    ASSUME LockHeld, lock' = lock, trouble'.overrun = trouble.overrun,
           Refreshing' \subseteq Refreshing
    PROVE  LockHeld'
  BY DEF LockHeld

\* The lock's holder alone refreshes, if it has not ended meanwhile.
LEMMA LockPreserved ==
    ASSUME TimesTyped, LockHeld, [IdCacheNext]_caches
    PROVE  LockHeld'
<1>1. ASSUME NEW g \in Gateways, ReadSteps(g)
      PROVE  LockHeld'
  <2>1. UNCHANGED <<lock, refresher>>
    BY <1>1 DEF ReadSteps, ReadHot, ReadDurable, WarmHot, Decide, LoadMissing, KeepLoaded,
       MarkFailed
  <2>2. trouble'.overrun = trouble.overrun
    <3>1. \A b \in BOOLEAN : Fault(b) => trouble'.overrun = trouble.overrun
      BY FaultCounts DEF TimesTyped
    <3>2. Decide(g) => trouble'.overrun = trouble.overrun
      BY DEF Decide, TimesTyped, Trouble
    <3>3. QED
      BY <1>1, <3>1, <3>2 DEF ReadSteps, ReadHot, ReadDurable, WarmHot, LoadMissing,
         KeepLoaded, MarkFailed, HotTakes, DurableTakes
  <2>3. Refreshing' = Refreshing
    BY <2>1 DEF Refreshing
  <2>4. QED
    BY <2>1, <2>2, <2>3, LockUndisturbed
<1>2. ASSUME NEW g \in Gateways, AcquireLock(g)
      PROVE  LockHeld'
  <2>1. /\ lock = NoToken /\ lock' = g
        /\ refresher' = [refresher EXCEPT ![g].at = "load"]
        /\ trouble'.overrun = trouble.overrun
    BY <1>2 DEF AcquireLock, TimesTyped, Trouble
  <2>2. Refreshing \ trouble.overrun = {}
    BY <2>1, TokenAssumption DEF LockHeld, NoToken, Refreshing
  <2>3. Refreshing' \subseteq Refreshing \cup {g}
    BY <2>1 DEF Refreshing, TimesTyped
  <2>4. QED
    BY <2>1, <2>2, <2>3 DEF LockHeld
<1>3. ASSUME NEW g \in Gateways, RefreshLoads(g) \/ RefreshKeeps(g) \/ RefreshMarks(g)
      PROVE  LockHeld'
  <2>1. lock' = lock
    BY <1>3 DEF RefreshLoads, RefreshKeeps, RefreshMarks
  <2>2. trouble'.overrun = trouble.overrun
    <3>1. \A b \in BOOLEAN : Fault(b) => trouble'.overrun = trouble.overrun
      BY FaultCounts DEF TimesTyped
    <3>2. QED
      BY <1>3, <3>1 DEF RefreshLoads, RefreshKeeps, RefreshMarks
  <2>3. \A h \in Gateways \ {g} : refresher'[h] = refresher[h]
    BY <1>3 DEF RefreshLoads, RefreshKeeps, RefreshMarks, PutOff, TimesTyped
  <2>4. refresher[g].at \in Busy \/ refresher'[g].at \notin Busy
    <3>1. RefreshLoads(g) \/ RefreshKeeps(g) => refresher[g].at \in Busy
      BY DEF RefreshLoads, RefreshKeeps, Busy
    <3>2. RefreshMarks(g) => refresher'[g].at \notin Busy
      BY DEF RefreshMarks, Busy, TimesTyped
    <3>3. QED
      BY <1>3, <3>1, <3>2
  <2>5. Refreshing' \subseteq Refreshing
    BY <2>3, <2>4 DEF Refreshing
  <2>6. QED
    BY <2>1, <2>2, <2>5, LockUndisturbed
<1>4. ASSUME NEW g \in Gateways, ReleaseLock(g)
      PROVE  LockHeld'
  <2>1. /\ refresher[g].at = "release"
        /\ refresher' = [refresher EXCEPT ![g] = NoRefresh]
        /\ lock' = IF lock = g THEN NoToken ELSE lock
        /\ trouble'.overrun = trouble.overrun \ {g}
    BY <1>4 DEF ReleaseLock, Unlocked, TimesTyped, Trouble
  <2>2. g \notin Refreshing
    BY <2>1 DEF Refreshing, Busy
  <2>3. Refreshing' \subseteq Refreshing
    BY <2>1 DEF Refreshing, NoRefresh, Busy, TimesTyped
  <2>4. QED
    BY <2>1, <2>2, <2>3 DEF LockHeld
<1>5. ASSUME NEW g \in Gateways, GatewayRestarts(g)
      PROVE  LockHeld'
  <2>1. /\ refresher' = [refresher EXCEPT ![g] = NoRefresh]
        /\ lock' = lock
        /\ trouble'.overrun = trouble.overrun \ {g}
    BY <1>5 DEF GatewayRestarts, TimesTyped, Trouble
  <2>2. Refreshing' \subseteq Refreshing \ {g}
    BY <2>1 DEF Refreshing, NoRefresh, Busy, TimesTyped
  <2>3. QED
    BY <2>1, <2>2 DEF LockHeld
<1>6. CASE LockEnds
  <2>1. Refreshing' = Refreshing
    BY <1>6 DEF LockEnds, Refreshing
  <2>2. CASE refresher[lock].at = "idle"
    <3>1. lock \notin Refreshing
      BY <2>2 DEF Refreshing, Busy
    <3>2. Refreshing \ trouble.overrun = {}
      BY <3>1 DEF LockHeld
    <3>3. QED
      BY <1>6, <2>1, <2>2, <3>2 DEF LockEnds, LockHeld
  <2>3. CASE refresher[lock].at # "idle"
    <3>1. trouble'.overrun = trouble.overrun \cup {lock}
      BY <1>6, <2>3 DEF LockEnds, TimesTyped, Trouble
    <3>2. QED
      BY <2>1, <3>1 DEF LockHeld
  <2>4. QED
    BY <2>2, <2>3
<1>7. ASSUME \/ \E g \in Gateways : BackoffEnds(g)
             \/ HotForgets \/ TimePasses \/ UNCHANGED caches
      PROVE  LockHeld'
  <2>1. UNCHANGED <<lock, trouble, refresher>>
    BY <1>7 DEF BackoffEnds, HotForgets, TimePasses, caches
  <2>2. Refreshing' = Refreshing
    BY <2>1 DEF Refreshing
  <2>3. QED
    BY <2>1, <2>2, LockUndisturbed
<1>8. QED
  BY <1>1, <1>2, <1>3, <1>4, <1>5, <1>6, <1>7 DEF IdCacheNext, RefreshSteps

-----------------------------------------------------------------------------
(* What PostgreSQL keeps.                                                  *)

\* The calm does not come back.
LEMMA CalmBefore ==
    ASSUME TimesTyped, [IdCacheNext]_caches, Calm'
    PROVE  Calm
<1> USE DEF Calm, TimesTyped
<1>1. \A b \in BOOLEAN : Fault(b) => ~b /\ Calm
  BY FaultCounts
<1>2. \A g \in Gateways : Decide(g) => Calm
  BY DEF Decide, Trouble
<1>3. \A g \in Gateways : ReadSteps(g) => Calm
  BY <1>1, <1>2 DEF ReadSteps, ReadHot, ReadDurable, WarmHot, LoadMissing, KeepLoaded,
     MarkFailed, HotTakes, DurableTakes
<1>4. \A g \in Gateways : AcquireLock(g) => Calm
  BY DEF AcquireLock, Trouble
<1>5. \A g \in Gateways : ReleaseLock(g) \/ GatewayRestarts(g) => Calm
  BY DEF ReleaseLock, GatewayRestarts, Trouble
<1>6. \A g \in Gateways : RefreshSteps(g) => Calm
  BY <1>1, <1>5 DEF RefreshSteps, RefreshLoads, RefreshKeeps, RefreshMarks
<1>7. LockEnds => Calm
  BY DEF LockEnds, Trouble
<1>8. QED
  BY <1>3, <1>4, <1>5, <1>6, <1>7 DEF IdCacheNext, BackoffEnds, HotForgets, TimePasses, caches

\* While it is calm nobody begins a load beside another.
LEMMA OneLoadPreserved ==
    ASSUME TimesTyped, [IdCacheNext]_caches, OneLoad, Calm'
    PROVE  OneLoad'
<1>0. SUFFICES ASSUME ~(Reading' \subseteq Reading /\ Refreshing' \subseteq Refreshing)
               PROVE  OneLoad'
  BY DEF OneLoad
<1>1. ASSUME NEW g \in Gateways, Decide(g)
      PROVE  OneLoad'
  <2>1. reader' = [reader EXCEPT ![g].at = "load"]
    <3>1. SUFFICES ASSUME reader' = [reader EXCEPT ![g] = NoRead]
                   PROVE  FALSE
      BY <1>1 DEF Decide
    <3>2. Reading' \subseteq Reading
      BY <3>1 DEF TimesTyped, Reading, NoRead, Busy
    <3>3. Refreshing' = Refreshing
      BY <1>1 DEF Decide, Refreshing
    <3>4. QED
      BY <1>0, <3>2, <3>3
  <2>2. trouble'.crossed = (trouble.crossed \/ Overlapping(g))
    <3>1. ~Usable(reader[g].record, reader[g].begun)
      <4>1. reader'[g].at = "load"
        BY <2>1 DEF TimesTyped, Requests
      <4>2. reader' # [reader EXCEPT ![g] = NoRead]
        BY <4>1 DEF TimesTyped, NoRead
      <4>3. QED
        BY <1>1, <4>2 DEF Decide
    <3>2. QED
      BY <1>1, <3>1 DEF Decide, TimesTyped, Trouble
  <2>3. Refreshing = {} /\ Reading \ {g} = {}
    BY <2>2 DEF Calm, Overlapping
  <2>4. Reading' \subseteq Reading \cup {g} /\ Refreshing' = Refreshing
    BY <1>1, <2>1 DEF Decide, TimesTyped, Reading, Refreshing
  <2>5. QED
    BY <2>3, <2>4 DEF OneLoad
<1>2. ASSUME NEW g \in Gateways, AcquireLock(g)
      PROVE  OneLoad'
  <2>1. trouble'.crossed = (trouble.crossed \/ Reading # {} \/ Refreshing # {})
    BY <1>2 DEF AcquireLock, TimesTyped, Trouble
  <2>2. Reading = {} /\ Refreshing = {}
    BY <2>1 DEF Calm
  <2>3. Reading' = Reading /\ Refreshing' \subseteq Refreshing \cup {g}
    BY <1>2 DEF AcquireLock, TimesTyped, Reading, Refreshing
  <2>4. QED
    BY <2>2, <2>3 DEF OneLoad
<1>3. ASSUME NEW g \in Gateways,
             \/ ReadHot(g) \/ ReadDurable(g) \/ WarmHot(g)
             \/ LoadMissing(g) \/ KeepLoaded(g) \/ MarkFailed(g)
      PROVE  FALSE
  <2>1. Refreshing' = Refreshing
    BY <1>3 DEF ReadHot, ReadDurable, WarmHot, LoadMissing, KeepLoaded, MarkFailed, Refreshing
  <2>2. \A h \in Gateways \ {g} : reader'[h] = reader[h]
    BY <1>3 DEF ReadHot, ReadDurable, WarmHot, LoadMissing, KeepLoaded, MarkFailed, TimesTyped
  <2>3. reader'[g].at \in Busy => reader[g].at \in Busy
    <3>1. LoadMissing(g) \/ KeepLoaded(g) => reader[g].at \in Busy
      BY DEF LoadMissing, KeepLoaded, Busy
    <3>2. ReadHot(g) => reader'[g].at \notin Busy \/ reader' = reader
      BY DEF ReadHot, TimesTyped, Busy
    <3>5. ReadDurable(g) => reader'[g].at \in {"warm", "decide"}
      BY DEF ReadDurable, TimesTyped, Requests
    <3>6. WarmHot(g) => reader'[g].at = "decide"
      BY DEF WarmHot, TimesTyped, Requests
    <3>3. MarkFailed(g) => reader'[g].at \notin Busy
      BY DEF MarkFailed, NoRead, TimesTyped, Busy
    <3>4. QED
      BY <1>3, <3>1, <3>2, <3>3, <3>5, <3>6 DEF Busy
  <2>4. Reading' \subseteq Reading
    BY <2>2, <2>3 DEF Reading
  <2>5. QED
    BY <1>0, <2>1, <2>4
<1>4. ASSUME NEW g \in Gateways, RefreshSteps(g)
      PROVE  FALSE
  <2>1. Reading' = Reading
    BY <1>4 DEF RefreshSteps, RefreshLoads, RefreshKeeps, RefreshMarks, ReleaseLock, Reading
  <2>2. \A h \in Gateways \ {g} : refresher'[h] = refresher[h]
    BY <1>4 DEF RefreshSteps, RefreshLoads, RefreshKeeps, RefreshMarks, ReleaseLock, PutOff,
       TimesTyped
  <2>3. refresher'[g].at \in Busy => refresher[g].at \in Busy
    <3>1. RefreshLoads(g) \/ RefreshKeeps(g) => refresher[g].at \in Busy
      BY DEF RefreshLoads, RefreshKeeps, Busy
    <3>2. RefreshMarks(g) \/ ReleaseLock(g) => refresher'[g].at \notin Busy
      BY DEF RefreshMarks, ReleaseLock, NoRefresh, Busy, TimesTyped
    <3>3. QED
      BY <1>4, <3>1, <3>2 DEF RefreshSteps
  <2>4. Refreshing' \subseteq Refreshing
    BY <2>2, <2>3 DEF Refreshing
  <2>5. QED
    BY <1>0, <2>1, <2>4
<1>5. ASSUME NEW g \in Gateways, GatewayRestarts(g)
      PROVE  FALSE
  BY <1>0, <1>5 DEF GatewayRestarts, TimesTyped, Reading, Refreshing, NoRead, NoRefresh, Busy
<1>6. ASSUME \/ \E g \in Gateways : BackoffEnds(g)
             \/ LockEnds \/ HotForgets \/ TimePasses \/ UNCHANGED caches
      PROVE  FALSE
  BY <1>0, <1>6 DEF BackoffEnds, LockEnds, HotForgets, TimePasses, caches, Reading, Refreshing
<1>7. QED
  BY <1>1, <1>2, <1>3, <1>4, <1>5, <1>6 DEF IdCacheNext, ReadSteps

\* What one gateway is at is judged by the others' steps as it was, as long as
\* PostgreSQL keeps what it had.
LEMMA LeadsUndisturbed ==
    ASSUME durable' = durable, NEW g \in Gateways
    PROVE  /\ ReaderLeads(g) /\ reader'[g] = reader[g] => ReaderLeads(g)'
           /\ RefresherLeads(g) /\ refresher'[g] = refresher[g] => RefresherLeads(g)'
  BY DEF ReaderLeads, RefresherLeads, WithinGrace

\* PostgreSQL stays ahead while it is calm, and a request that fails had
\* nothing to tell.
LEMMA LeadsPreserved ==
    ASSUME TimesTyped, RecordsPast, OneLoad, DurableLeads, Calm, Calm',
           [IdCacheNext]_caches
    PROVE  DurableLeads'
<1> USE IdCacheAssumption
<1> USE DEF TimesTyped
<1>0. /\ \A b \in BOOLEAN : Fault(b) => ~b
      /\ \A r : HotTakes(r) => redis' = r
      /\ \A r : DurableTakes(r) => durable' = r
  <2>1. \A b \in BOOLEAN : Fault(b) => ~b
    BY FaultCounts DEF Calm
  <2>2. QED
    BY <2>1 DEF HotTakes, DurableTakes
<1> DEFINE Others(g) == \A h \in Gateways \ {g} : ReaderLeads(h)' /\ RefresherLeads(h)'
<1>1. ASSUME NEW g \in Gateways, durable' = durable,
             reader' = reader \/ \E r : reader' = [reader EXCEPT ![g] = r],
             refresher' = refresher \/ \E r : refresher' = [refresher EXCEPT ![g] = r]
      PROVE  Others(g)
  <2>1. \A h \in Gateways \ {g} : reader'[h] = reader[h] /\ refresher'[h] = refresher[h]
    BY <1>1
  <2>2. QED
    BY <1>1, <2>1, LeadsUndisturbed DEF DurableLeads
<1>2. ASSUME NEW g \in Gateways, durable' = durable, refresher' = refresher
      PROVE  RefresherLeads(g)'
  BY <1>2, LeadsUndisturbed DEF DurableLeads
<1>3. ASSUME NEW g \in Gateways, durable' = durable, reader' = reader
      PROVE  ReaderLeads(g)'
  BY <1>3, LeadsUndisturbed DEF DurableLeads
<1>4. ASSUME NEW g \in Gateways, ReadHot(g)
      PROVE  DurableLeads'
  <2>1. PICK r \in {redis, None} :
            /\ IF r = redis THEN UNCHANGED trouble ELSE Fault(TRUE)
            /\ IF IsFresh(r, time)
               THEN /\ asked' = [Told(r) EXCEPT !.reads = @ + 1]
                    /\ UNCHANGED reader
               ELSE /\ asked' = [asked EXCEPT !.reads = @ + 1]
                    /\ reader' = [reader EXCEPT ![g] =
                        [at |-> "read", begun |-> time, known |-> asked.told, record |-> r]]
    BY <1>4 DEF ReadHot
  <2>2. r = redis
    BY <1>0, <2>1
  <2>3. asked'.told <= durable
    <3>1. Told(r).told \in {asked.told, redis} /\ Told(r) \in Asked
      BY <2>2, ToldNewer
    <3>2. CASE asked' = [Told(r) EXCEPT !.reads = @ + 1]
      BY <3>1, <3>2 DEF Asked, DurableLeads
    <3>3. CASE asked' = [asked EXCEPT !.reads = @ + 1]
      BY <3>3 DEF Asked, DurableLeads
    <3>4. QED
      BY <2>1, <3>2, <3>3
  <2>4. ReaderLeads(g)'
    <3>1. CASE UNCHANGED reader
      BY <1>3, <1>4, <3>1 DEF ReadHot
    <3>2. CASE reader' = [reader EXCEPT ![g] =
                [at |-> "read", begun |-> time, known |-> asked.told, record |-> r]]
      <4>1. reader'[g] = [at |-> "read", begun |-> time, known |-> asked.told, record |-> r]
        BY <3>2
      <4>2. QED
        BY <1>4, <2>2, <4>1 DEF ReadHot, ReaderLeads, DurableLeads
    <3>3. QED
      BY <2>1, <3>1, <3>2
  <2>5. Others(g)
    BY <1>1, <1>4, <2>1 DEF ReadHot
  <2>6. QED
    BY <1>2, <1>4, <2>3, <2>4, <2>5 DEF ReadHot, DurableLeads
<1>5. ASSUME NEW g \in Gateways, ReadDurable(g)
      PROVE  DurableLeads'
  <2>1. \/ reader' = [reader EXCEPT ![g].at = "warm", ![g].record = durable]
        \/ durable = None /\ reader' = [reader EXCEPT ![g].at = "decide"]
    BY <1>0, <1>5 DEF ReadDurable
  <2>2. ReaderLeads(g) /\ reader[g].at = "read" /\ reader[g] \in Requests
    BY <1>5 DEF ReadDurable, DurableLeads
  <2>3. ReaderLeads(g)'
    <3>1. CASE reader' = [reader EXCEPT ![g].at = "warm", ![g].record = durable]
      <4>1. /\ reader'[g].at = "warm" /\ reader'[g].record = durable
            /\ reader'[g].known = reader[g].known
        BY <2>2, <3>1 DEF Requests
      <4>2. QED
        BY <1>5, <2>2, <4>1 DEF ReaderLeads, ReadDurable, Times, None
    <3>2. CASE durable = None /\ reader' = [reader EXCEPT ![g].at = "decide"]
      <4>1. /\ reader'[g].at = "decide" /\ reader'[g].record = reader[g].record
            /\ reader'[g].known = reader[g].known
        BY <2>2, <3>2 DEF Requests
      <4>2. reader[g].record = None /\ reader[g].known = None
        BY <2>2, <3>2 DEF ReaderLeads, Requests, Times, None
      <4>3. QED
        BY <1>5, <3>2, <4>1, <4>2 DEF ReaderLeads, ReadDurable, None
    <3>3. QED
      BY <2>1, <3>1, <3>2
  <2>4. Others(g)
    BY <1>1, <1>5, <2>1 DEF ReadDurable
  <2>5. QED
    BY <1>2, <1>5, <2>3, <2>4 DEF ReadDurable, DurableLeads
<1>6. ASSUME NEW g \in Gateways, WarmHot(g)
      PROVE  DurableLeads'
  <2>1. redis' = reader[g].record /\ reader' = [reader EXCEPT ![g].at = "decide"]
    BY <1>0, <1>6 DEF WarmHot
  <2>2. ReaderLeads(g) /\ reader[g].at = "warm" /\ reader[g] \in Requests
    BY <1>6 DEF WarmHot, DurableLeads
  <2>3. ReaderLeads(g)'
    <3>1. /\ reader'[g].at = "decide" /\ reader'[g].record = reader[g].record
          /\ reader'[g].known = reader[g].known
      BY <2>1, <2>2 DEF Requests
    <3>2. QED
      BY <1>6, <2>2, <3>1 DEF ReaderLeads, WarmHot
  <2>4. Others(g)
    BY <1>1, <1>6, <2>1 DEF WarmHot
  <2>5. redis' <= durable
    BY <2>1, <2>2 DEF ReaderLeads
  <2>6. QED
    BY <1>2, <1>6, <2>3, <2>4, <2>5 DEF WarmHot, DurableLeads
<1>7. ASSUME NEW g \in Gateways, Decide(g)
      PROVE  DurableLeads'
  <2>1. ReaderLeads(g) /\ reader[g].at = "decide" /\ reader[g] \in Requests
    BY <1>7 DEF Decide, DurableLeads
  <2>2. UNCHANGED <<redis, durable, refresher>>
    BY <1>7 DEF Decide
  <2>3. CASE Usable(reader[g].record, reader[g].begun)
    <3>1. asked' = Told(reader[g].record) /\ reader' = [reader EXCEPT ![g] = NoRead]
      BY <1>7, <2>3 DEF Decide
    <3>2. asked'.told <= durable
      BY <2>1, <3>1, ToldNewer DEF DurableLeads, ReaderLeads, Requests
    <3>3. ReaderLeads(g)'
      BY <2>2, <3>1 DEF ReaderLeads, NoRead, Times, None
    <3>4. Others(g)
      BY <1>1, <2>2, <3>1
    <3>5. QED
      BY <1>2, <2>2, <3>2, <3>3, <3>4 DEF DurableLeads
  <2>4. CASE ~Usable(reader[g].record, reader[g].begun)
    <3>1. asked' = asked /\ reader' = [reader EXCEPT ![g].at = "load"]
      BY <1>7, <2>4 DEF Decide
    <3>2. /\ reader'[g].at = "load" /\ reader'[g].known = reader[g].known
          /\ reader'[g].begun = reader[g].begun
      BY <2>1, <3>1 DEF Requests
    <3>3. ~WithinGrace(g)
      BY <2>1, <2>4 DEF WithinGrace, ReaderLeads, Usable, IsFresh, IsStale, Requests, Times, None
    <3>4. ReaderLeads(g)'
      BY <2>1, <2>2, <3>2, <3>3 DEF ReaderLeads, WithinGrace
    <3>5. Others(g)
      BY <1>1, <2>2, <3>1
    <3>6. QED
      BY <1>2, <2>2, <3>1, <3>4, <3>5 DEF DurableLeads
  <2>5. QED
    BY <2>3, <2>4
<1>8. ASSUME NEW g \in Gateways, LoadMissing(g)
      PROVE  DurableLeads'
  <2>1. ReaderLeads(g) /\ reader[g] \in Requests
    BY DEF DurableLeads
  <2>2. UNCHANGED <<redis, durable, refresher>>
    BY <1>8 DEF LoadMissing
  <2>3. asked'.told <= durable
    <3>1. asked'.told = asked.told
      BY <1>8 DEF LoadMissing, Asked
    <3>2. QED
      BY <3>1 DEF DurableLeads
  <2>4. ReaderLeads(g)'
    <3>1. CASE reader' = [reader EXCEPT ![g].at = "durable", ![g].record = time]
      <4>1. /\ reader'[g].at = "durable" /\ reader'[g].record = time
            /\ reader'[g].known = reader[g].known
        BY <2>1, <3>1 DEF Requests
      <4>2. QED
        BY <2>1, <2>2, <4>1 DEF ReaderLeads, RecordsPast
    <3>2. CASE reader' = [reader EXCEPT ![g] = [NoRead EXCEPT !.at = "mark", !.record = redis]]
      <4>1. /\ reader'[g].at = "mark" /\ reader'[g].record = redis
            /\ reader'[g].known = None
        BY <3>2 DEF NoRead
      <4>2. QED
        BY <2>2, <4>1 DEF ReaderLeads, DurableLeads, Times, None
    <3>3. QED
      BY <1>8, <3>1, <3>2 DEF LoadMissing
  <2>5. Others(g)
    BY <1>1, <1>8, <2>2 DEF LoadMissing
  <2>6. QED
    BY <1>2, <2>2, <2>3, <2>4, <2>5 DEF DurableLeads
<1>9. ASSUME NEW g \in Gateways, KeepLoaded(g)
      PROVE  DurableLeads'
  <2>1. ReaderLeads(g) /\ reader[g] \in Requests
    BY DEF DurableLeads
  <2>2. UNCHANGED refresher
    BY <1>9 DEF KeepLoaded
  <2>3. CASE reader[g].at = "durable"
    <3>1. /\ durable' = reader[g].record /\ reader' = [reader EXCEPT ![g].at = "hot"]
          /\ UNCHANGED <<redis, asked>>
      BY <1>0, <1>9, <2>3 DEF KeepLoaded
    <3>2. durable <= durable' /\ durable' \in Times
      BY <2>1, <2>3, <3>1 DEF ReaderLeads, Requests
    <3>3. \A h \in Gateways : refresher[h].at \notin Busy /\ (h # g => reader[h].at \notin Busy)
      BY <2>3 DEF OneLoad, Reading, Refreshing, Busy
    <3>4. ReaderLeads(g)'
      <4>1. /\ reader'[g].at = "hot" /\ reader'[g].record = reader[g].record
            /\ reader'[g].known = reader[g].known
        BY <2>1, <3>1 DEF Requests
      <4>2. QED
        BY <2>1, <2>3, <3>1, <3>2, <4>1 DEF ReaderLeads, Requests, Times, None
    <3>5. ASSUME NEW h \in Gateways, h # g
          PROVE  ReaderLeads(h)'
      <4>1. reader'[h] = reader[h] /\ reader[h] \in Requests /\ reader[h].at \notin Busy
        BY <3>1, <3>3, <3>5
      <4>2. ReaderLeads(h)
        BY DEF DurableLeads
      <4>3. QED
        BY <3>2, <4>1, <4>2 DEF ReaderLeads, Requests, Times, None, Busy
    <3>6. ASSUME NEW h \in Gateways
          PROVE  RefresherLeads(h)'
      <4>1. refresher[h] \in Refreshes /\ refresher[h].at \notin Busy /\ RefresherLeads(h)
        BY <3>3 DEF DurableLeads
      <4>2. QED
        BY <2>2, <3>2, <4>1 DEF RefresherLeads, Refreshes, Times, None, Busy
    <3>7. redis <= durable' /\ asked.told <= durable'
      BY <3>2 DEF DurableLeads, Times, None, Asked
    <3>8. QED
      BY <3>1, <3>4, <3>5, <3>6, <3>7 DEF DurableLeads
  <2>4. CASE reader[g].at = "hot"
    <3>1. /\ redis' = reader[g].record /\ reader' = [reader EXCEPT ![g] = NoRead]
          /\ asked' = Told(reader[g].record)
          /\ durable' = durable
      BY <1>0, <1>9, <2>4 DEF KeepLoaded
    <3>2. redis' <= durable /\ asked'.told <= durable
      BY <2>1, <2>4, <3>1, ToldNewer DEF ReaderLeads, DurableLeads, Requests
    <3>3. ReaderLeads(g)'
      BY <3>1 DEF ReaderLeads, NoRead, Times, None
    <3>4. Others(g)
      BY <1>1, <2>2, <3>1
    <3>5. QED
      BY <1>2, <2>2, <3>1, <3>2, <3>3, <3>4 DEF DurableLeads
  <2>5. QED
    BY <1>9, <2>3, <2>4 DEF KeepLoaded
<1>10. ASSUME NEW g \in Gateways, MarkFailed(g)
       PROVE  DurableLeads'
  <2>1. /\ reader' = [reader EXCEPT ![g] = NoRead]
        /\ redis' \in {redis, reader[g].record}
        /\ UNCHANGED <<durable, refresher, asked>>
        /\ reader[g].record <= durable
    BY <1>10 DEF MarkFailed, DurableLeads, ReaderLeads
  <2>2. ReaderLeads(g)'
    BY <2>1 DEF ReaderLeads, NoRead, Times, None
  <2>3. Others(g)
    BY <1>1, <2>1
  <2>4. QED
    BY <1>2, <2>1, <2>2, <2>3 DEF DurableLeads
<1>11. ASSUME NEW g \in Gateways, AcquireLock(g)
       PROVE  DurableLeads'
  <2>1. UNCHANGED <<redis, durable, reader, asked>>
    BY <1>11 DEF AcquireLock
  <2>2. RefresherLeads(g)'
    BY <1>11 DEF AcquireLock, RefresherLeads, Refreshes
  <2>3. Others(g)
    BY <1>1, <1>11, <2>1 DEF AcquireLock
  <2>4. QED
    BY <1>3, <2>1, <2>2, <2>3 DEF DurableLeads
<1>12. ASSUME NEW g \in Gateways, RefreshLoads(g)
       PROVE  DurableLeads'
  <2>1. UNCHANGED <<redis, durable, reader, asked>>
    BY <1>12 DEF RefreshLoads
  <2>2. RefresherLeads(g)'
    <3>1. CASE refresher' = [refresher EXCEPT ![g] = [at |-> "durable", record |-> time]]
      BY <2>1, <3>1 DEF RefresherLeads, RecordsPast
    <3>2. CASE refresher' = [refresher EXCEPT ![g] = [at |-> "mark", record |-> redis]]
      BY <2>1, <3>2 DEF RefresherLeads, DurableLeads
    <3>3. CASE refresher' = [refresher EXCEPT ![g].at = "release"]
      BY <2>1, <3>3 DEF RefresherLeads, Refreshes
    <3>4. QED
      BY <1>12, <3>1, <3>2, <3>3 DEF RefreshLoads, PutOff
  <2>3. Others(g)
    BY <1>1, <1>12, <2>1 DEF RefreshLoads, PutOff
  <2>4. QED
    BY <1>3, <2>1, <2>2, <2>3 DEF DurableLeads
<1>13. ASSUME NEW g \in Gateways, RefreshKeeps(g)
       PROVE  DurableLeads'
  <2>1. UNCHANGED <<reader, asked>> /\ refresher[g] \in Refreshes /\ RefresherLeads(g)
    BY <1>13 DEF RefreshKeeps, DurableLeads
  <2>2. CASE refresher[g].at = "durable"
    <3>1. /\ durable' = refresher[g].record
          /\ refresher' = [refresher EXCEPT ![g].at = "hot"]
          /\ UNCHANGED redis
      BY <1>0, <1>13, <2>2 DEF RefreshKeeps
    <3>2. durable <= durable' /\ durable' \in Times
      BY <2>1, <2>2, <3>1 DEF RefresherLeads, Refreshes
    <3>3. \A h \in Gateways : reader[h].at \notin Busy /\ (h # g => refresher[h].at \notin Busy)
      BY <2>2 DEF OneLoad, Reading, Refreshing, Busy
    <3>4. RefresherLeads(g)'
      <4>1. refresher'[g].at = "hot" /\ refresher'[g].record = refresher[g].record
        BY <2>1, <3>1 DEF Refreshes
      <4>2. QED
        BY <3>1, <3>2, <4>1 DEF RefresherLeads, Times, None
    <3>5. ASSUME NEW h \in Gateways
          PROVE  ReaderLeads(h)'
      <4>1. reader[h] \in Requests /\ reader[h].at \notin Busy /\ ReaderLeads(h)
        BY <3>3 DEF DurableLeads
      <4>2. QED
        BY <2>1, <3>2, <4>1 DEF ReaderLeads, Requests, Times, None, Busy
    <3>6. ASSUME NEW h \in Gateways, h # g
          PROVE  RefresherLeads(h)'
      <4>1. /\ refresher'[h] = refresher[h] /\ refresher[h] \in Refreshes
            /\ refresher[h].at \notin Busy /\ RefresherLeads(h)
        BY <3>1, <3>3, <3>6 DEF DurableLeads
      <4>2. QED
        BY <3>2, <4>1 DEF RefresherLeads, Refreshes, Times, None, Busy
    <3>7. redis <= durable' /\ asked.told <= durable'
      BY <3>2 DEF DurableLeads, Times, None, Asked
    <3>8. QED
      BY <2>1, <3>1, <3>4, <3>5, <3>6, <3>7 DEF DurableLeads
  <2>3. CASE refresher[g].at = "hot"
    <3>1. /\ redis' = refresher[g].record
          /\ refresher' = [refresher EXCEPT ![g] = [at |-> "release", record |-> None]]
          /\ UNCHANGED durable
      BY <1>0, <1>13, <2>3 DEF RefreshKeeps
    <3>2. RefresherLeads(g)'
      BY <3>1 DEF RefresherLeads
    <3>3. redis' <= durable
      BY <2>1, <2>3, <3>1 DEF RefresherLeads
    <3>4. Others(g)
      BY <1>1, <2>1, <3>1
    <3>5. QED
      BY <1>3, <2>1, <3>1, <3>2, <3>3, <3>4 DEF DurableLeads
  <2>4. QED
    BY <1>13, <2>2, <2>3 DEF RefreshKeeps
<1>14. ASSUME NEW g \in Gateways, RefreshMarks(g)
       PROVE  DurableLeads'
  <2>1. /\ UNCHANGED <<durable, reader, asked>>
        /\ refresher' = [refresher EXCEPT ![g] = [at |-> "release", record |-> None]]
        /\ redis' <= durable
    BY <1>14 DEF RefreshMarks, DurableLeads, RefresherLeads
  <2>2. RefresherLeads(g)'
    BY <2>1 DEF RefresherLeads
  <2>3. Others(g)
    BY <1>1, <2>1
  <2>4. QED
    BY <1>3, <2>1, <2>2, <2>3 DEF DurableLeads
<1>15. ASSUME NEW g \in Gateways, ReleaseLock(g) \/ GatewayRestarts(g)
       PROVE  DurableLeads'
  <2>1. /\ UNCHANGED <<redis, durable, asked>>
        /\ refresher' = [refresher EXCEPT ![g] = NoRefresh]
        /\ reader' = reader \/ reader' = [reader EXCEPT ![g] = NoRead]
    BY <1>15 DEF ReleaseLock, GatewayRestarts
  <2>2. RefresherLeads(g)'
    BY <2>1 DEF RefresherLeads, NoRefresh
  <2>3. ReaderLeads(g)'
    <3>1. CASE reader' = [reader EXCEPT ![g] = NoRead]
      BY <2>1, <3>1 DEF ReaderLeads, NoRead, Times, None
    <3>2. QED
      BY <1>3, <2>1, <3>1
  <2>4. Others(g)
    BY <1>1, <2>1
  <2>5. QED
    BY <2>1, <2>2, <2>3, <2>4 DEF DurableLeads
<1>16. ASSUME \/ \E g \in Gateways : BackoffEnds(g)
              \/ LockEnds \/ HotForgets \/ TimePasses \/ UNCHANGED caches
       PROVE  DurableLeads'
  <2>1. UNCHANGED <<durable, reader, refresher, asked>> /\ redis' \in {redis, None}
    BY <1>16 DEF BackoffEnds, LockEnds, HotForgets, TimePasses, caches
  <2>2. redis' <= durable
    BY <2>1 DEF DurableLeads, Times, None
  <2>3. QED
    BY <1>2, <1>3, <2>1, <2>2 DEF DurableLeads
<1>17. QED
  BY <1>4, <1>5, <1>6, <1>7, <1>8, <1>9, <1>10, <1>11, <1>12, <1>13, <1>14, <1>15, <1>16
     DEF IdCacheNext, ReadSteps, RefreshSteps

-----------------------------------------------------------------------------
(* The theorems.                                                           *)

\* A key is refreshed while its task is due, and put off or done after that.
LEMMA TasksPreserved ==
    ASSUME TimesTyped, TasksHeld, [IdCacheNext]_caches
    PROVE  TasksHeld'
<1> USE DEF TimesTyped, TasksHeld
<1>1. ASSUME NEW g \in Gateways, ReadSteps(g)
      PROVE  TasksHeld'
  <2>1. refresher' = refresher
    BY <1>1 DEF ReadSteps, ReadHot, ReadDurable, WarmHot, Decide, LoadMissing, KeepLoaded,
       MarkFailed
  <2>2. tasks' = tasks \/ tasks' = Enqueued(g)
    BY <1>1 DEF ReadSteps, ReadHot, ReadDurable, WarmHot, Decide, LoadMissing, KeepLoaded,
       MarkFailed
  <2>3. QED
    BY <2>1, <2>2 DEF Enqueued
<1>2. ASSUME NEW g \in Gateways, RefreshSteps(g)
      PROVE  TasksHeld'
  <2>1. \A h \in Gateways \ {g} : tasks'[h] = tasks[h] /\ refresher'[h] = refresher[h]
    BY <1>2 DEF RefreshSteps, RefreshLoads, RefreshKeeps, RefreshMarks, ReleaseLock, PutOff
  <2>2. refresher'[g].at \in Busy => tasks'[g] = "due"
    <3>0. PutOff(g) => refresher'[g].at \notin Busy
      BY DEF PutOff, Busy
    <3>1. RefreshLoads(g) => (refresher'[g].at \in Busy => tasks'[g] = "due")
      <4>1. refresher' = [refresher EXCEPT ![g].at = "release"] => refresher'[g].at \notin Busy
        BY DEF Busy, Refreshes
      <4>2. RefreshLoads(g) => tasks[g] = "due"
        BY DEF RefreshLoads, Busy
      <4>3. QED
        BY <3>0, <4>1, <4>2 DEF RefreshLoads
    <3>2. RefreshKeeps(g) => (refresher'[g].at \in Busy => tasks'[g] = "due")
      <4>1. refresher' = [refresher EXCEPT ![g] = [at |-> "release", record |-> None]] =>
                refresher'[g].at \notin Busy
        BY DEF Busy
      <4>2. RefreshKeeps(g) => tasks[g] = "due"
        BY DEF RefreshKeeps, Busy
      <4>3. QED
        BY <3>0, <4>1, <4>2 DEF RefreshKeeps
    <3>3. RefreshMarks(g) \/ ReleaseLock(g) => refresher'[g].at \notin Busy
      BY DEF RefreshMarks, ReleaseLock, NoRefresh, Busy
    <3>4. QED
      BY <1>2, <3>1, <3>2, <3>3 DEF RefreshSteps
  <2>3. QED
    BY <2>1, <2>2
<1>3. ASSUME NEW g \in Gateways, AcquireLock(g)
      PROVE  TasksHeld'
  BY <1>3 DEF AcquireLock
<1>4. ASSUME NEW g \in Gateways, BackoffEnds(g)
      PROVE  TasksHeld'
  BY <1>4 DEF BackoffEnds
<1>5. ASSUME NEW g \in Gateways, GatewayRestarts(g)
      PROVE  TasksHeld'
  BY <1>5 DEF GatewayRestarts, NoRefresh, Busy
<1>6. ASSUME LockEnds \/ HotForgets \/ TimePasses \/ UNCHANGED caches
      PROVE  TasksHeld'
  BY <1>6 DEF LockEnds, HotForgets, TimePasses, caches
<1>7. QED
  BY <1>1, <1>2, <1>3, <1>4, <1>5, <1>6 DEF IdCacheNext

\* A request is refused while it is calm only if nothing was told in its grace.
LEMMA BridgePreserved ==
    ASSUME TimesTyped, CalmLeads, OutageIsBridged, [IdCacheNext]_caches
    PROVE  OutageIsBridged'
<1> USE DEF OutageIsBridged
<1>1. ASSUME NEW g \in Gateways, LoadMissing(g)
      PROVE  ~asked'.refused
  <2>1. Calm => ~WithinGrace(g)
    BY <1>1 DEF CalmLeads, DurableLeads, ReaderLeads, LoadMissing
  <2>2. ~(WithinGrace(g) /\ ~trouble.store /\ ~trouble.crossed)
    BY <2>1 DEF Calm
  <2>3. QED
    BY <1>1, <2>2 DEF LoadMissing, TimesTyped, Asked
<1>2. ASSUME NEW g \in Gateways,
             ReadHot(g) \/ Decide(g) \/ KeepLoaded(g)
      PROVE  ~asked'.refused
  <2>1. \A r \in Times : Told(r) \in Asked /\ Told(r).refused = asked.refused
    BY ToldNewer
  <2>2. reader[g].record \in Times /\ redis \in Times /\ None \in Times
    BY IdCacheAssumption DEF TimesTyped, Requests, Times, None
  <2>3. CASE ReadHot(g)
    BY <2>1, <2>2, <2>3 DEF ReadHot, TimesTyped, Asked
  <2>4. CASE Decide(g)
    BY <2>1, <2>2, <2>4 DEF Decide
  <2>5. CASE KeepLoaded(g)
    BY <2>1, <2>2, <2>5 DEF KeepLoaded
  <2>6. QED
    BY <1>2, <2>3, <2>4, <2>5
<1>3. ASSUME UNCHANGED asked
      PROVE  ~asked'.refused
  BY <1>3
<1>4. QED
  BY <1>1, <1>2, <1>3 DEF IdCacheNext, ReadSteps, ReadDurable, WarmHot, MarkFailed, AcquireLock,
     RefreshSteps, RefreshLoads, RefreshKeeps, RefreshMarks, ReleaseLock, BackoffEnds,
     GatewayRestarts, LockEnds, HotForgets, TimePasses, caches

\* The invariant is inductive.
LEMMA CacheStepPreserves == CacheInv /\ [IdCacheNext]_caches => CacheInv'
<1> SUFFICES ASSUME CacheInv, [IdCacheNext]_caches
             PROVE  CacheInv'
  OBVIOUS
<1>1. /\ TimesTyped /\ RecordsPast /\ TasksHeld /\ LockHeld /\ CalmLeads
      /\ OutageIsBridged
  BY DEF CacheInv
<1>2. TimesTyped' /\ RecordsPast'
  BY <1>1, CacheTypesPreserved
<1>3. TasksHeld' /\ LockHeld' /\ OutageIsBridged'
  BY <1>1, TasksPreserved, LockPreserved, BridgePreserved
<1>4. CalmLeads'
  <2>1. SUFFICES ASSUME Calm'
                 PROVE  OneLoad' /\ DurableLeads'
    BY DEF CalmLeads
  <2>2. Calm /\ OneLoad /\ DurableLeads
    BY <1>1, <2>1, CalmBefore DEF CalmLeads
  <2>3. QED
    BY <1>1, <2>1, <2>2, OneLoadPreserved, LeadsPreserved
<1>5. QED
  BY <1>2, <1>3, <1>4 DEF CacheInv

\* The inductive invariant holds in every reachable state.
LEMMA CacheInvariance == IdCacheSpec => []CacheInv
<1>1. QED
  BY CacheInitEstablishes, CacheStepPreserves, PTL DEF IdCacheSpec

\* The composition's steps are those of the gateways, or leave them alone.
LEMMA WorkRunsGateways == WorkSpec => IdCacheSpec
<1>1. WorkInit => IdCacheInit
  BY DEF WorkInit
<1>2. [WorkNext]_work => [IdCacheNext]_caches
  BY DEF WorkNext, ByWriters, ByRefresh, ByIdentities, ByGateways, work
<1> QED
  BY <1>1, <1>2, PTL DEF WorkSpec, IdCacheSpec

\* The records, tasks, requests and refreshes keep their types.
THEOREM CacheTypeCorrect == WorkSpec => []IdCacheTypeOK
<1>1. CacheInv => IdCacheTypeOK
  BY DEF CacheInv, TimesTyped, TasksHeld, IdCacheTypeOK, Times, Stages, Requests, Refreshes
<1>2. QED
  BY <1>1, CacheInvariance, WorkRunsGateways, PTL

\* However many gateways there are and whenever they restart, one of them at most
\* refreshes the key, but for those whose lock ended while they were at it.
THEOREM SingleRefresh == WorkSpec => []OneRefresh
<1>1. CacheInv => OneRefresh
  <2>1. SUFFICES ASSUME LockHeld
                 PROVE  OneRefresh
    BY DEF CacheInv
  <2>2. Refreshing \ trouble.overrun \subseteq {lock}
    BY <2>1 DEF LockHeld
  <2>3. IsFiniteSet({lock}) /\ Cardinality({lock}) = 1
    BY FS_Singleton
  <2>4. Cardinality(Refreshing \ trouble.overrun) <= 1
    BY <2>2, <2>3, FS_Subset
  <2>5. QED
    BY <2>4 DEF OneRefresh
<1>2. QED
  BY <1>1, CacheInvariance, WorkRunsGateways, PTL

\* While ESI fails a value that was told is told again for its grace, through
\* restarts, lost Redis records and any order of requests and refreshes.
THEOREM OutageBridged == WorkSpec => []OutageIsBridged
<1>1. CacheInv => OutageIsBridged
  BY DEF CacheInv
<1>2. QED
  BY <1>1, CacheInvariance, WorkRunsGateways, PTL

-----------------------------------------------------------------------------
IdentitySpec == IdentityInit /\ [][IdentityNext]_identities

-----------------------------------------------------------------------------
(* The identity tasks: the inductive invariant.                            *)

Identities == [generation : Nat, profile : Nat] \cup {NoIdentity}

Tasks == [key : Rows, phase : {"reading", "read", "returned", "done"}, generation : Nat,
          newFrame : BOOLEAN, newRow : BOOLEAN, value : Identities]

\* The types, with that of the task in hand.
RowsTyped ==
    /\ archive \in {"on", "off"} /\ generation \in Nat /\ profile \in Nat
    /\ row \in [Rows -> {"unseen", "active", "gone"}]
    /\ shows \in [Rows -> Identities]
    /\ changed \subseteq Rows /\ accepted \subseteq Rows /\ skipped \subseteq Rows
    /\ force \in BOOLEAN /\ unrepaired \in BOOLEAN
    /\ uploads \in Nat /\ taskFaults \in Nat

WorkTyped ==
    /\ closed \in BOOLEAN
    /\ queue \in Seq(Rows \cup {"close"})
    /\ pending \subseteq Rows
    /\ thread \in {"none", "waiting", "timed out", "busy"}
    /\ task \in Tasks \cup {NoTask}
    /\ (thread = "busy") = (task # NoTask)

\* The sentinel is only in the queue of a closed worker.
QueueHeld ==
    /\ NoStrandedTask
    /\ ~closed => "close" \notin ToSet(queue)

\* Only a row that has been seen shows an identity or has a task.
SeenFirst ==
    \A k \in Rows : row[k] = "unseen" => shows[k] = NoIdentity /\ k \notin accepted \cup pending

\* A task is of this generation or of an earlier one; what it has read of ESI is
\* the identity of its generation.
TaskRead ==
    task # NoTask =>
        /\ task.generation <= generation
        /\ task.phase = "read" => task.value \in [generation : {task.generation}, profile : Nat]
        /\ task.phase = "read" /\ task.generation = generation /\ archive = "off" =>
               task.value = Current

\* A task whose handler has ended in the generation of this moment has given its
\* row an identity, or has been ended on the way.
Answered(k) == row[k] # "active" \/ shows[k] # NoIdentity \/ k \in skipped

TaskAnswered ==
    \/ task = NoTask
    \/ task.phase \in {"reading", "read"}
    \/ task.phase = "returned" /\ task.generation # generation
    \/ Answered(task.key)

IdentityInv ==
    /\ RowsTyped /\ WorkTyped /\ QueueHeld
    /\ SeenFirst /\ TaskRead /\ TaskAnswered /\ PendingIsWorkedOn

-----------------------------------------------------------------------------
(* Sequences as the queue uses them.                                       *)

\* SetToSeqs orders the elements of a finite set: each of them, once.
LEMMA Ordering ==
    ASSUME NEW S, IsFiniteSet(S), NEW order \in SetToSeqs(S)
    PROVE  /\ order \in Seq(S)
           /\ ToSet(order) = S
           /\ IsInjective(order)
           /\ order = <<>> <=> S = {}
<1> DEFINE n == Cardinality(S)
<1>1. n \in Nat
  BY FS_CardinalityType
<1>2. order \in [1..n -> S] /\ \A i, j \in 1..n : i # j => order[i] # order[j]
  BY DEF SetToSeqs
<1>3. order \in Seq(S)
  BY <1>1, <1>2, SeqDef
<1>4. IsInjective(order)
  BY <1>2 DEF IsInjective
<1>5. order \in Injection(1..n, S)
  BY <1>2, <1>4 DEF Injection
<1>6. IsFiniteSet(1..n) /\ Cardinality(1..n) = n
  BY <1>1, FS_Interval
<1>7. order \in Surjection(1..n, S)
  BY <1>5, <1>6, FS_Injection
<1>8. ToSet(order) = S
  BY <1>2, <1>7 DEF ToSet, Surjection
<1>9. order = <<>> <=> S = {}
  <2>1. Len(order) = n
    BY <1>1, <1>2, <1>3, LenProperties
  <2>2. n = 0 <=> S = {}
    BY FS_EmptySet
  <2> QED
    BY <2>1, <2>2, <1>3, EmptySeq
<1> QED
  BY <1>3, <1>4, <1>8, <1>9

\* A sequence with others put behind it holds the elements of both.
LEMMA Joined ==
    ASSUME NEW S, NEW s \in Seq(S), NEW t \in Seq(S)
    PROVE  /\ s \o t \in Seq(S)
           /\ ToSet(s \o t) = ToSet(s) \cup ToSet(t)
           /\ IsInjective(s) /\ IsInjective(t) /\ ToSet(s) \cap ToSet(t) = {} =>
                  IsInjective(s \o t)
<1> DEFINE st == s \o t
<1>1. /\ st \in Seq(S) /\ Len(st) = Len(s) + Len(t)
      /\ \A i \in 1..Len(s) + Len(t) : st[i] = IF i <= Len(s) THEN s[i] ELSE t[i - Len(s)]
  BY ConcatProperties
<1>2. /\ Len(s) \in Nat /\ DOMAIN s = 1..Len(s)
      /\ Len(t) \in Nat /\ DOMAIN t = 1..Len(t)
      /\ DOMAIN st = 1..(Len(s) + Len(t))
  BY <1>1, LenProperties
<1>3. ToSet(st) = ToSet(s) \cup ToSet(t)
  <2>1. ASSUME NEW i \in DOMAIN s
        PROVE  i \in DOMAIN st /\ st[i] = s[i]
    BY <1>1, <1>2
  <2>2. ASSUME NEW i \in DOMAIN t
        PROVE  i + Len(s) \in DOMAIN st /\ st[i + Len(s)] = t[i]
    BY <1>1, <1>2
  <2>3. ASSUME NEW i \in DOMAIN st
        PROVE  \/ i \in DOMAIN s /\ st[i] = s[i]
               \/ i - Len(s) \in DOMAIN t /\ st[i] = t[i - Len(s)]
    BY <1>1, <1>2
  <2>4. ASSUME NEW x \in ToSet(st)
        PROVE  x \in ToSet(s) \cup ToSet(t)
    BY <2>3 DEF ToSet
  <2>5. ASSUME NEW x \in ToSet(s) \cup ToSet(t)
        PROVE  x \in ToSet(st)
    BY <2>1, <2>2 DEF ToSet
  <2> QED
    BY <2>4, <2>5
<1>4. ASSUME IsInjective(s), IsInjective(t), ToSet(s) \cap ToSet(t) = {},
             NEW i \in DOMAIN st, NEW j \in DOMAIN st, st[i] = st[j]
      PROVE  i = j
  <2>1. CASE i <= Len(s) /\ j <= Len(s)
    BY <1>1, <1>2, <1>4, <2>1 DEF IsInjective
  <2>2. CASE i > Len(s) /\ j > Len(s)
    <3>1. i - Len(s) \in DOMAIN t /\ j - Len(s) \in DOMAIN t
      BY <1>2, <2>2
    <3>2. t[i - Len(s)] = t[j - Len(s)]
      BY <1>1, <1>2, <1>4, <2>2
    <3>3. i - Len(s) = j - Len(s)
      BY <3>1, <3>2, <1>4 DEF IsInjective
    <3> QED
      BY <3>3, <1>2
  <2>3. CASE i <= Len(s) /\ j > Len(s)
    <3>1. i \in DOMAIN s /\ j - Len(s) \in DOMAIN t /\ s[i] = t[j - Len(s)]
      BY <1>1, <1>2, <1>4, <2>3
    <3> QED
      BY <3>1, <1>4 DEF ToSet
  <2>4. CASE i > Len(s) /\ j <= Len(s)
    <3>1. j \in DOMAIN s /\ i - Len(s) \in DOMAIN t /\ s[j] = t[i - Len(s)]
      BY <1>1, <1>2, <1>4, <2>4
    <3> QED
      BY <3>1, <1>4 DEF ToSet
  <2> QED
    BY <1>2, <2>1, <2>2, <2>3, <2>4
<1> QED
  BY <1>1, <1>3, <1>4 DEF IsInjective

\* What is left of a queue whose head is taken out.
LEMMA HeadTaken ==
    ASSUME NEW S, NEW s \in Seq(S), s # <<>>, IsInjective(s)
    PROVE  /\ Head(s) \in S /\ Tail(s) \in Seq(S)
           /\ Head(s) \in ToSet(s)
           /\ ToSet(Tail(s)) = ToSet(s) \ {Head(s)}
           /\ IsInjective(Tail(s))
<1> DEFINE t == Tail(s)
<1>1. /\ Head(s) \in S /\ t \in Seq(S) /\ Len(t) = Len(s) - 1
      /\ \A i \in 1..Len(t) : t[i] = s[i + 1]
  BY HeadTailProperties
<1>2. /\ Len(s) \in Nat \ {0} /\ DOMAIN s = 1..Len(s)
      /\ DOMAIN t = 1..(Len(s) - 1)
  BY <1>1, LenProperties, EmptySeq
<1>3. Head(s) = s[1]
  OBVIOUS
<1>4. ASSUME NEW i \in DOMAIN t
      PROVE  i + 1 \in DOMAIN s /\ t[i] = s[i + 1] /\ s[i + 1] # s[1]
  <2>1. i + 1 \in DOMAIN s /\ 1 \in DOMAIN s /\ i + 1 # 1 /\ t[i] = s[i + 1]
    BY <1>1, <1>2
  <2> QED
    BY <2>1 DEF IsInjective
<1>5. ASSUME NEW i \in DOMAIN s, i # 1
      PROVE  i - 1 \in DOMAIN t /\ t[i - 1] = s[i]
  BY <1>1, <1>2, <1>5
<1>6. ToSet(t) = ToSet(s) \ {Head(s)}
  <2>1. ASSUME NEW x \in ToSet(t)
        PROVE  x \in ToSet(s) \ {Head(s)}
    BY <1>3, <1>4 DEF ToSet
  <2>2. ASSUME NEW x \in ToSet(s) \ {Head(s)}
        PROVE  x \in ToSet(t)
    BY <1>3, <1>5 DEF ToSet
  <2> QED
    BY <2>1, <2>2
<1>7. IsInjective(t)
  <2> SUFFICES ASSUME NEW i \in DOMAIN t, NEW j \in DOMAIN t, t[i] = t[j]
               PROVE  i = j
    BY DEF IsInjective
  <2>1. i + 1 = j + 1
    BY <1>4 DEF IsInjective
  <2> QED
    BY <2>1, <1>2
<1>8. Head(s) \in ToSet(s)
  BY <1>2, <1>3 DEF ToSet
<1> QED
  BY <1>1, <1>6, <1>7, <1>8

\* One element put behind a sequence.
LEMMA Appended ==
    ASSUME NEW S, NEW s \in Seq(S), NEW e \in S
    PROVE  /\ Append(s, e) \in Seq(S)
           /\ ToSet(Append(s, e)) = ToSet(s) \cup {e}
           /\ IsInjective(s) /\ e \notin ToSet(s) => IsInjective(Append(s, e))
<1>1. /\ Append(s, e) \in Seq(S) /\ Len(Append(s, e)) = Len(s) + 1
      /\ \A i \in 1..Len(s) : Append(s, e)[i] = s[i]
      /\ Append(s, e)[Len(s) + 1] = e
  BY AppendProperties
<1>2. Len(s) \in Nat /\ DOMAIN s = 1..Len(s) /\ DOMAIN Append(s, e) = 1..(Len(s) + 1)
  BY <1>1, LenProperties
<1>3. \A i \in DOMAIN Append(s, e) : i \in DOMAIN s \/ i = Len(s) + 1
  BY <1>2
<1>4. \A i \in DOMAIN s : i \in DOMAIN Append(s, e) /\ i # Len(s) + 1
  BY <1>2
<1>5. Len(s) + 1 \in DOMAIN Append(s, e)
  BY <1>2
<1>6. ToSet(Append(s, e)) = ToSet(s) \cup {e}
  BY <1>1, <1>2, <1>3, <1>4, <1>5 DEF ToSet
<1>7. ASSUME IsInjective(s), e \notin ToSet(s)
      PROVE  IsInjective(Append(s, e))
  BY <1>1, <1>2, <1>3, <1>4, <1>5, <1>7 DEF IsInjective, ToSet
<1> QED
  BY <1>1, <1>6, <1>7

-----------------------------------------------------------------------------
(* The worker.                                                             *)

\* submit keeps what is known of the queue, and remembers the keys it takes.
LEMMA Submits ==
    ASSUME WorkTyped, QueueHeld, NEW keys \in SUBSET Rows, SubmitAll(keys),
           UNCHANGED <<task, closed>>
    PROVE  /\ WorkTyped' /\ QueueHeld'
           /\ pending' = pending \cup Submitted(keys)
<1> DEFINE new == Submitted(keys)
<1>1. new \subseteq Rows /\ new \cap pending = {} /\ (closed => new = {})
  BY DEF Submitted
<1>2. IsFiniteSet(new)
  BY <1>1, RowsAssumption, FS_Subset
<1>3. PICK order \in SetToSeqs(new) :
          /\ queue' = queue \o order
          /\ pending' = pending \cup new
          /\ thread' = IF order # <<>> /\ thread = "none" THEN "waiting" ELSE thread
  BY DEF SubmitAll
<1>4. /\ order \in Seq(new) /\ ToSet(order) = new /\ IsInjective(order)
      /\ order = <<>> <=> new = {}
  BY <1>2, Ordering
<1>5. order \in Seq(Rows \cup {"close"})
  BY <1>1, <1>4, SeqMonotonic
<1>6. /\ queue \in Seq(Rows \cup {"close"})
      /\ IsInjective(queue) /\ ToSet(queue) \ {"close"} \subseteq pending
  BY DEF WorkTyped, QueueHeld, NoStrandedTask
<1>7. ToSet(queue) \cap new = {}
  BY <1>1, <1>6, RowsAssumption
<1>8. /\ queue' \in Seq(Rows \cup {"close"})
      /\ ToSet(queue') = ToSet(queue) \cup new
      /\ IsInjective(queue')
  BY <1>3, <1>4, <1>5, <1>6, <1>7, Joined
<1>9. WorkTyped'
  BY <1>1, <1>3, <1>8 DEF WorkTyped
<1>10. "close" \notin new
  BY <1>1, RowsAssumption
<1>11. closed' = closed /\ task' = task
  OBVIOUS
<1>12. (~closed => "close" \notin ToSet(queue))'
  BY <1>8, <1>10, <1>11 DEF QueueHeld
<1>13. NoStrandedTask'
  <2> DEFINE waiting == ToSet(queue) \ {"close"}
             handled == IF task = NoTask THEN {} ELSE {task.key}
  <2>1. /\ pending = waiting \cup handled /\ waiting \cap handled = {}
        /\ ~closed /\ pending # {} => thread # "none"
    BY DEF QueueHeld, NoStrandedTask
  <2>2. waiting' = waiting \cup new /\ handled' = handled
    BY <1>8, <1>10, <1>11
  <2>3. pending' = waiting' \cup handled' /\ waiting' \cap handled' = {}
    BY <1>1, <1>3, <2>1, <2>2
  <2>4. ~closed' /\ pending' # {} => thread' # "none"
    BY <1>3, <1>4, <1>11, <2>1
  <2> QED
    BY <1>8, <2>3, <2>4 DEF NoStrandedTask
<1> QED
  BY <1>3, <1>9, <1>12, <1>13 DEF QueueHeld

\* A step that leaves the worker's own state alone.
LEMMA WorkerUndisturbed ==
    ASSUME WorkTyped, QueueHeld, UNCHANGED <<queue, pending, thread, task, closed>>
    PROVE  WorkTyped' /\ QueueHeld'
BY DEF WorkTyped, QueueHeld, NoStrandedTask

\* A step of the handler that stays with its key.
LEMMA HandlerGoesOn ==
    ASSUME WorkTyped, QueueHeld, UNCHANGED <<queue, pending, thread, closed>>,
           task # NoTask, task' \in Tasks, task'.key = task.key
    PROVE  WorkTyped' /\ QueueHeld'
<1>1. task' # NoTask
  BY DEF Tasks, NoTask
<1>2. WorkTyped'
  BY <1>1 DEF WorkTyped
<1>3. QueueHeld'
  BY <1>1 DEF QueueHeld, NoStrandedTask
<1> QED
  BY <1>2, <1>3

\* What a handler begins with.
LEMMA PinnedTyped ==
    ASSUME RowsTyped, NEW k \in Rows
    PROVE  Pinned(k) \in Tasks
BY DEF RowsTyped, Pinned, Tasks, Identities

\* What the rows show now is an identity, and not that of none.
LEMMA CurrentTyped ==
    ASSUME RowsTyped
    PROVE  Current \in [generation : Nat, profile : Nat] /\ Current # NoIdentity
BY DEF RowsTyped, Current, NoIdentity

\* The fields of a task that a step of the handler or of a row's presence sets.
LEMMA TaskFields ==
    ASSUME NEW t \in Tasks, NEW phase \in {"reading", "read", "returned", "done"},
           NEW value \in Identities
    PROVE  /\ [t EXCEPT !.phase = phase] \in Tasks
           /\ [t EXCEPT !.phase = phase, !.value = value] \in Tasks
           /\ [t EXCEPT !.newFrame = TRUE] \in Tasks
           /\ [t EXCEPT !.newRow = TRUE] \in Tasks
BY DEF Tasks

\* Every step keeps the types of the rows.
LEMMA RowsTypesStep ==
    ASSUME RowsTyped, WorkTyped, QueueHeld, [IdentityNext]_identities
    PROVE  RowsTyped'
<1> USE DEF RowsTyped
<1>1. ASSUME NEW k \in Rows, NEW cached \in BOOLEAN, NEW flag \in BOOLEAN,
             Recognize(k, cached, flag)
      PROVE  RowsTyped'
  <2>1. Current \in Identities /\ NoIdentity \in Identities
    BY CurrentTyped DEF Identities
  <2>2. shows' \in [Rows -> Identities]
    BY <1>1, <2>1 DEF Recognize
  <2> QED
    BY <1>1, <2>2 DEF Recognize
<1>2. ASSUME NEW k \in Rows, NEW written \in BOOLEAN, SubmitTask(k, written)
      PROVE  RowsTyped'
  <2>1. CASE written
    BY <1>2, <2>1 DEF SubmitTask
  <2>2. CASE ~written
    BY <1>2, <2>2 DEF SubmitTask, TaskFault
  <2> QED
    BY <2>1, <2>2
<1>3. ASSUME NEW k \in Rows, Leave(k)
      PROVE  RowsTyped'
  BY <1>3 DEF Leave
<1>4. CASE NewFrame \/ SeenAgain
  BY <1>4 DEF NewFrame, SeenAgain, Upload
<1>5. CASE RepairState
  BY <1>5 DEF RepairState
<1>6. CASE TakeTask \/ ReadIdentity \/ ReturnTask \/ FinishTask \/ TimeOut \/ TimedOut \/ TakeSentinel
  BY <1>6 DEF TakeTask, ReadIdentity, ReturnTask, FinishTask, TimeOut, TimedOut, TakeSentinel
<1>7. CASE WriteIdentity
  <2>1. task.key \in Rows /\ task.value \in Identities
    BY <1>7 DEF WriteIdentity, WorkTyped, Tasks
  <2>2. shows' \in [Rows -> Identities]
    BY <1>7, <2>1 DEF WriteIdentity
  <2>3. changed' \subseteq Rows /\ skipped' \subseteq Rows
    BY <1>7, <2>1 DEF WriteIdentity
  <2> QED
    BY <1>7, <2>2, <2>3 DEF WriteIdentity
<1>8. CASE FailTask
  <2>1. task.key \in Rows
    BY <1>8 DEF FailTask, WorkTyped, Tasks
  <2> QED
    BY <1>8, <2>1 DEF FailTask, TaskFault
<1>9. CASE Close
  BY <1>9 DEF Close, TaskFault
<1>10. CASE UpdateProfile
  BY <1>10 DEF UpdateProfile
<1>11. ASSUME NEW all \in BOOLEAN, Callback(all)
       PROVE  RowsTyped'
  BY <1>11 DEF Callback
<1>12. CASE Switch
  BY <1>12 DEF Switch
<1>13. ASSUME NEW lost \in {{}, accepted}, RestartIdentities(lost)
       PROVE  RowsTyped'
  <2>1. row' = [k \in Rows |-> IF k \in lost THEN "gone" ELSE row[k]]
    BY <1>13 DEF RestartIdentities
  <2>2. row' \in [Rows -> {"unseen", "active", "gone"}]
    BY <2>1
  <2>3. /\ UNCHANGED <<archive, generation, profile, shows, uploads>>
        /\ changed' = {} /\ accepted' = {} /\ skipped' = {} /\ unrepaired' = FALSE
        /\ taskFaults' = taskFaults + 1
    BY <1>13 DEF RestartIdentities, TaskFault
  <2>4. force' \in BOOLEAN
    BY <1>13 DEF RestartIdentities
  <2>5. taskFaults' \in Nat
    BY <2>3
  <2>6. unrepaired' \in BOOLEAN
    BY <2>3, Zenon
  <2> QED
    BY <2>2, <2>3, <2>4, <2>5, <2>6
<1>14. CASE UNCHANGED identities
  BY <1>14 DEF identities
<1> QED
  BY <1>1, <1>2, <1>3, <1>4, <1>5, <1>6, <1>7, <1>8, <1>9, <1>10, <1>11, <1>12, <1>13, <1>14
     DEF IdentityNext, WorkerSteps

\* Every step keeps what is known of the worker and its queue.
LEMMA WorkerStep ==
    ASSUME RowsTyped, WorkTyped, QueueHeld, [IdentityNext]_identities
    PROVE  WorkTyped' /\ QueueHeld'
<1> DEFINE Held == WorkTyped' /\ QueueHeld'
<1>1. ASSUME NEW k \in Rows, NEW cached \in BOOLEAN, NEW flag \in BOOLEAN,
             Recognize(k, cached, flag)
      PROVE  Held
  BY <1>1, WorkerUndisturbed DEF Recognize
<1>2. ASSUME NEW k \in Rows, NEW written \in BOOLEAN, SubmitTask(k, written)
      PROVE  Held
  <2>1. CASE written
    <3>1. SubmitAll({k}) /\ UNCHANGED <<task, closed>>
      BY <1>2, <2>1 DEF SubmitTask
    <3> QED
      BY <3>1, Submits
  <2>2. CASE ~written
    BY <1>2, <2>2, WorkerUndisturbed DEF SubmitTask
  <2> QED
    BY <2>1, <2>2
<1>3. ASSUME NEW k \in Rows, Leave(k)
      PROVE  Held
  BY <1>3, WorkerUndisturbed DEF Leave
<1>4. CASE NewFrame
  <2>1. task \in Tasks /\ task # NoTask /\ task' = [task EXCEPT !.newFrame = TRUE]
    BY <1>4 DEF NewFrame, WorkTyped
  <2>2. task' \in Tasks /\ task'.key = task.key
    BY <2>1 DEF Tasks
  <2> QED
    BY <1>4, <2>1, <2>2, HandlerGoesOn DEF NewFrame
<1>5. CASE SeenAgain
  <2>1. task \in Tasks /\ task # NoTask /\ task' = [task EXCEPT !.newRow = TRUE]
    BY <1>5 DEF SeenAgain, WorkTyped
  <2>2. task' \in Tasks /\ task'.key = task.key
    BY <2>1 DEF Tasks
  <2> QED
    BY <1>5, <2>1, <2>2, HandlerGoesOn DEF SeenAgain
<1>6. CASE RepairState
  <2>1. SubmitAll({k \in Active : shows[k] = NoIdentity}) /\ UNCHANGED <<task, closed>>
    BY <1>6 DEF RepairState
  <2>2. {k \in Active : shows[k] = NoIdentity} \in SUBSET Rows
    BY DEF Active
  <2> QED
    BY <2>1, <2>2, Submits
<1>7. CASE TakeTask
  <2> DEFINE S == Rows \cup {"close"}
             waiting == ToSet(queue) \ {"close"}
             handled == IF task = NoTask THEN {} ELSE {task.key}
             k == Head(queue)
  <2>1. /\ queue \in Seq(S) /\ queue # <<>> /\ IsInjective(queue)
        /\ k # "close" /\ task = NoTask
    BY <1>7 DEF TakeTask, WorkTyped, QueueHeld, NoStrandedTask
  <2>2. /\ k \in S /\ Tail(queue) \in Seq(S) /\ k \in ToSet(queue)
        /\ ToSet(Tail(queue)) = ToSet(queue) \ {k} /\ IsInjective(Tail(queue))
    BY <2>1, HeadTaken
  <2>3. /\ queue' = Tail(queue) /\ pending' = pending /\ closed' = closed
        /\ thread' = "busy" /\ task' = Pinned(k)
    BY <1>7 DEF TakeTask
  <2>4. k \in Rows
    BY <2>1, <2>2
  <2>5. task' \in Tasks /\ task'.key = k
    BY <2>3, <2>4, PinnedTyped DEF Pinned
  <2>6. task' # NoTask
    BY <2>5 DEF Tasks, NoTask
  <2>7. WorkTyped'
    BY <2>2, <2>3, <2>5, <2>6 DEF WorkTyped
  <2>8. handled' = {k} /\ waiting' = waiting \ {k} /\ k \in waiting
    BY <2>1, <2>2, <2>3, <2>5, <2>6
  <2>9. pending = waiting
    BY <2>1 DEF QueueHeld, NoStrandedTask
  <2>10. NoStrandedTask'
    BY <2>2, <2>3, <2>8, <2>9 DEF NoStrandedTask
  <2>11. (~closed => "close" \notin ToSet(queue))'
    BY <2>2, <2>3 DEF QueueHeld
  <2> QED
    BY <2>7, <2>10, <2>11 DEF QueueHeld
<1>8. CASE ReadIdentity
  <2>1. task \in Tasks /\ task # NoTask
    BY <1>8 DEF ReadIdentity, WorkTyped
  <2>2. task.generation \in Nat
    BY <2>1 DEF Tasks
  <2> DEFINE value == [Current EXCEPT !.generation = task.generation]
  <2>3. value \in Identities
    BY <2>2, CurrentTyped DEF Identities
  <2>4. task' = [task EXCEPT !.phase = "read", !.value = value]
    BY <1>8 DEF ReadIdentity
  <2>5. task' \in Tasks /\ task'.key = task.key
    BY <2>1, <2>3, <2>4, TaskFields DEF Tasks
  <2> QED
    BY <1>8, <2>1, <2>5, HandlerGoesOn DEF ReadIdentity
<1>9. CASE WriteIdentity
  <2>1. task \in Tasks /\ task # NoTask /\ task' = [task EXCEPT !.phase = "returned"]
    BY <1>9 DEF WriteIdentity, WorkTyped
  <2>2. task' \in Tasks /\ task'.key = task.key
    BY <2>1 DEF Tasks
  <2> QED
    BY <1>9, <2>1, <2>2, HandlerGoesOn DEF WriteIdentity
<1>10. CASE ReturnTask
  <2>1. task \in Tasks /\ task # NoTask /\ task.key \in Rows
    BY <1>10 DEF ReturnTask, WorkTyped, Tasks
  <2>2. CASE task.generation # generation
    <3>1. task' = Pinned(task.key)
      BY <1>10, <2>2 DEF ReturnTask
    <3>2. task' \in Tasks /\ task'.key = task.key
      BY <2>1, <3>1, PinnedTyped DEF Pinned
    <3> QED
      BY <1>10, <2>1, <3>2, HandlerGoesOn DEF ReturnTask
  <2>3. CASE task.generation = generation
    <3>1. task' = [task EXCEPT !.phase = "done"]
      BY <1>10, <2>3 DEF ReturnTask
    <3>2. task' \in Tasks /\ task'.key = task.key
      BY <2>1, <3>1 DEF Tasks
    <3> QED
      BY <1>10, <2>1, <3>2, HandlerGoesOn DEF ReturnTask
  <2> QED
    BY <2>2, <2>3
<1>11. CASE FailTask
  <2>1. task \in Tasks /\ task # NoTask /\ task' = [task EXCEPT !.phase = "done"]
    BY <1>11 DEF FailTask, WorkTyped
  <2>2. task' \in Tasks /\ task'.key = task.key
    BY <2>1 DEF Tasks
  <2> QED
    BY <1>11, <2>1, <2>2, HandlerGoesOn DEF FailTask
<1>12. CASE FinishTask
  <2>1. /\ task # NoTask /\ task' = NoTask /\ thread' = "waiting"
        /\ pending' = pending \ {task.key}
        /\ queue' = queue /\ closed' = closed
    BY <1>12 DEF FinishTask
  <2>2. WorkTyped'
    BY <2>1 DEF WorkTyped
  <2>3. QueueHeld'
    BY <2>1 DEF QueueHeld, NoStrandedTask
  <2> QED
    BY <2>2, <2>3
<1>13. CASE TimeOut
  BY <1>13 DEF TimeOut, WorkTyped, QueueHeld, NoStrandedTask
<1>14. CASE TimedOut
  BY <1>14 DEF TimedOut, WorkTyped, QueueHeld, NoStrandedTask
<1>15. CASE TakeSentinel
  <2> DEFINE S == Rows \cup {"close"}
  <2>1. /\ queue \in Seq(S) /\ queue # <<>> /\ IsInjective(queue)
        /\ Head(queue) = "close" /\ thread = "waiting"
    BY <1>15 DEF TakeSentinel, WorkTyped, QueueHeld, NoStrandedTask
  <2>2. /\ Tail(queue) \in Seq(S) /\ "close" \in ToSet(queue)
        /\ ToSet(Tail(queue)) = ToSet(queue) \ {"close"} /\ IsInjective(Tail(queue))
    BY <2>1, HeadTaken
  <2>3. /\ queue' = Tail(queue) /\ pending' = pending /\ closed' = closed
        /\ thread' = "none" /\ task' = task
    BY <1>15 DEF TakeSentinel
  <2>4. closed
    BY <2>2 DEF QueueHeld
  <2>5. WorkTyped'
    BY <2>1, <2>2, <2>3 DEF WorkTyped
  <2>6. QueueHeld'
    BY <2>2, <2>3, <2>4 DEF QueueHeld, NoStrandedTask
  <2> QED
    BY <2>5, <2>6
<1>16. CASE Close
  <2> DEFINE S == Rows \cup {"close"}
  <2>1. /\ ~closed /\ closed' /\ closed' \in BOOLEAN
        /\ pending' = pending /\ thread' = thread /\ task' = task
    BY <1>16 DEF Close
  <2>2. queue \in Seq(S) /\ IsInjective(queue) /\ "close" \notin ToSet(queue)
    BY <2>1 DEF WorkTyped, QueueHeld, NoStrandedTask
  <2>3. /\ Append(queue, "close") \in Seq(S)
        /\ ToSet(Append(queue, "close")) = ToSet(queue) \cup {"close"}
        /\ IsInjective(Append(queue, "close"))
    BY <2>2, Appended
  <2>4. queue' = queue \/ queue' = Append(queue, "close")
    BY <1>16 DEF Close
  <2>5. queue' \in Seq(S) /\ IsInjective(queue') /\ ToSet(queue') \ {"close"} = ToSet(queue) \ {"close"}
    BY <2>2, <2>3, <2>4
  <2>6. WorkTyped'
    BY <2>1, <2>5 DEF WorkTyped
  <2>7. QueueHeld'
    BY <2>1, <2>5 DEF QueueHeld, NoStrandedTask
  <2> QED
    BY <2>6, <2>7
<1>17. CASE UpdateProfile
  BY <1>17, WorkerUndisturbed DEF UpdateProfile
<1>18. ASSUME NEW all \in BOOLEAN, Callback(all)
       PROVE  Held
  <2> DEFINE keys == {k \in Active : all \/ k \in changed \/ shows[k] = NoIdentity}
  <2>1. keys \in SUBSET Rows
    BY DEF Active
  <2>2. SubmitAll(keys) /\ UNCHANGED <<task, closed>>
    BY <1>18 DEF Callback
  <2> QED
    BY <2>1, <2>2, Submits
<1>19. CASE Switch
  BY <1>19, WorkerUndisturbed DEF Switch
<1>20. ASSUME NEW lost \in {{}, accepted}, RestartIdentities(lost)
       PROVE  Held
  <2> DEFINE resumed == {k \in Active \ lost : shows[k] = NoIdentity}
  <2>1. /\ pending' = resumed /\ task' = NoTask /\ closed' = FALSE
        /\ thread' = IF resumed = {} THEN "none" ELSE "waiting"
    BY <1>20 DEF RestartIdentities
  <2>2. PICK order \in SetToSeqs(resumed) : queue' = order
    BY <1>20 DEF RestartIdentities
  <2>3. resumed \subseteq Rows /\ "close" \notin resumed
    BY RowsAssumption DEF Active
  <2>4. IsFiniteSet(resumed)
    BY <2>3, RowsAssumption, FS_Subset
  <2>5. order \in Seq(resumed) /\ ToSet(order) = resumed /\ IsInjective(order)
    BY <2>4, Ordering
  <2>6. queue' \in Seq(Rows \cup {"close"})
    BY <2>2, <2>3, <2>5, SeqMonotonic
  <2>7. WorkTyped'
    BY <2>1, <2>3, <2>6 DEF WorkTyped
  <2>8. QueueHeld'
    BY <2>1, <2>2, <2>3, <2>5 DEF QueueHeld, NoStrandedTask
  <2> QED
    BY <2>7, <2>8
<1>21. CASE UNCHANGED identities
  BY <1>21, WorkerUndisturbed DEF identities
<1> QED
  BY <1>1, <1>2, <1>3, <1>4, <1>5, <1>6, <1>7, <1>8, <1>9, <1>10, <1>11, <1>12, <1>13, <1>14,
     <1>15, <1>16, <1>17, <1>18, <1>19, <1>20, <1>21
     DEF IdentityNext, WorkerSteps
-----------------------------------------------------------------------------
(* The rows and the tasks.                                                 *)

\* What a task in hand is, and what that of the next moment is.
LEMMA InHand ==
    ASSUME WorkTyped, QueueHeld, task # NoTask
    PROVE  task \in Tasks /\ task.key \in pending /\ task.key \in Rows
BY DEF WorkTyped, QueueHeld, NoStrandedTask, Tasks

\* Only the first name of a row gives it an identity at once, and only the second
\* lock of a handler writes one.
LEMMA SeenFirstStep ==
    ASSUME RowsTyped, WorkTyped, QueueHeld, SeenFirst, [IdentityNext]_identities
    PROVE  SeenFirst'
<1> USE DEF RowsTyped, SeenFirst
<1>1. ASSUME NEW k \in Rows, NEW cached \in BOOLEAN, NEW flag \in BOOLEAN,
             Recognize(k, cached, flag)
      PROVE  SeenFirst'
  BY <1>1 DEF Recognize
<1>2. ASSUME NEW k \in Rows, NEW written \in BOOLEAN, SubmitTask(k, written)
      PROVE  SeenFirst'
  <2>1. row' = row /\ shows' = shows /\ accepted' = accepted \ {k} /\ k \in accepted
    BY <1>2 DEF SubmitTask
  <2>2. pending' \subseteq pending \cup {k}
    BY <1>2 DEF SubmitTask, SubmitAll, Submitted
  <2> QED
    BY <2>1, <2>2
<1>3. ASSUME NEW k \in Rows, Leave(k)
      PROVE  SeenFirst'
  BY <1>3 DEF Leave
<1>4. CASE NewFrame \/ SeenAgain
  BY <1>4 DEF NewFrame, SeenAgain
<1>5. ASSUME NEW keys \in SUBSET Active, SubmitAll(keys), UNCHANGED <<row, shows, accepted>>
      PROVE  SeenFirst'
  <2>1. pending' \subseteq pending \cup Active
    BY <1>5 DEF SubmitAll, Submitted
  <2> QED
    BY <1>5, <2>1 DEF Active
<1>6. CASE RepairState
  <2>1. {k \in Active : shows[k] = NoIdentity} \in SUBSET Active
    OBVIOUS
  <2> QED
    BY <1>5, <1>6, <2>1 DEF RepairState
<1>7. CASE TakeTask \/ ReadIdentity \/ ReturnTask \/ FailTask \/ TimeOut \/ TimedOut
          \/ TakeSentinel \/ Close \/ UpdateProfile \/ Switch
  BY <1>7 DEF TakeTask, ReadIdentity, ReturnTask, FailTask, TimeOut, TimedOut,
              TakeSentinel, Close, UpdateProfile, Switch
<1>8. CASE FinishTask
  <2>1. row' = row /\ shows' = shows /\ accepted' = accepted /\ pending' \subseteq pending
    BY <1>8 DEF FinishTask
  <2> QED
    BY <2>1
<1>9. CASE WriteIdentity
  <2>1. row' = row /\ accepted' = accepted /\ pending' = pending
    BY <1>9 DEF WriteIdentity
  <2>2. ASSUME NEW k \in Rows, shows'[k] # shows[k]
        PROVE  row[k] # "unseen"
    BY <1>9, <2>2 DEF WriteIdentity
  <2> QED
    BY <2>1, <2>2
<1>10. ASSUME NEW all \in BOOLEAN, Callback(all)
       PROVE  SeenFirst'
  <2>1. {k \in Active : all \/ k \in changed \/ shows[k] = NoIdentity} \in SUBSET Active
    OBVIOUS
  <2> QED
    BY <1>5, <1>10, <2>1 DEF Callback
<1>11. ASSUME NEW lost \in {{}, accepted}, RestartIdentities(lost)
       PROVE  SeenFirst'
  <2>1. /\ row' = [k \in Rows |-> IF k \in lost THEN "gone" ELSE row[k]]
        /\ shows' = shows /\ accepted' = {} /\ pending' \subseteq Active \ lost
    BY <1>11 DEF RestartIdentities
  <2> QED
    BY <2>1 DEF Active
<1>12. CASE UNCHANGED identities
  BY <1>12 DEF identities
<1> QED
  BY <1>1, <1>2, <1>3, <1>4, <1>6, <1>7, <1>8, <1>9, <1>10, <1>11, <1>12
     DEF IdentityNext, WorkerSteps

\* A switch makes a task one of an earlier generation; only without the archive
\* do the profiles stay as the handler has read them.
LEMMA TaskReadStep ==
    ASSUME RowsTyped, WorkTyped, QueueHeld, TaskRead, [IdentityNext]_identities
    PROVE  TaskRead'
<1>1. CASE UNCHANGED <<task, archive, generation, profile>>
  BY <1>1 DEF TaskRead, Current
<1>2. CASE NewFrame
  <2>1. task # NoTask /\ task' = [task EXCEPT !.newFrame = TRUE]
        /\ UNCHANGED <<archive, generation, profile>>
    BY <1>2 DEF NewFrame
  <2>2. task'.phase = task.phase /\ task'.generation = task.generation /\ task'.value = task.value
    BY <2>1, InHand DEF Tasks
  <2> QED
    BY <2>1, <2>2 DEF TaskRead, Current
<1>3. CASE SeenAgain
  <2>1. task # NoTask /\ task' = [task EXCEPT !.newRow = TRUE]
        /\ UNCHANGED <<archive, generation, profile>>
    BY <1>3 DEF SeenAgain
  <2>2. task'.phase = task.phase /\ task'.generation = task.generation /\ task'.value = task.value
    BY <2>1, InHand DEF Tasks
  <2> QED
    BY <2>1, <2>2 DEF TaskRead, Current
<1>4. ASSUME NEW k \in Rows, task' = Pinned(k), UNCHANGED generation
      PROVE  TaskRead'
  BY <1>4 DEF TaskRead, Pinned, RowsTyped
<1>5. CASE TakeTask
  <2>1. Head(queue) \in Rows /\ task' = Pinned(Head(queue)) /\ generation' = generation
    BY <1>5, HeadTaken DEF TakeTask, WorkTyped, QueueHeld, NoStrandedTask
  <2> QED
    BY <1>4, <2>1
<1>6. CASE ReadIdentity
  <2>1. /\ task # NoTask /\ UNCHANGED <<archive, generation, profile>>
        /\ task' = [task EXCEPT !.phase = "read",
                                !.value = [Current EXCEPT !.generation = task.generation]]
    BY <1>6 DEF ReadIdentity
  <2>2. /\ task'.generation = task.generation
        /\ task'.value = [Current EXCEPT !.generation = task.generation]
    BY <2>1, InHand DEF Tasks
  <2>3. task.generation \in Nat
    BY <2>1, InHand DEF Tasks
  <2>4. task'.value \in [generation : {task.generation}, profile : Nat]
    BY <2>2, <2>3, CurrentTyped
  <2>5. task.generation = generation => task'.value = Current
    BY <2>2, CurrentTyped DEF Current
  <2>6. Current' = Current
    BY <2>1 DEF Current
  <2> QED
    BY <2>1, <2>2, <2>4, <2>5, <2>6 DEF TaskRead
<1>7. ASSUME task # NoTask, NEW phase \in {"returned", "done"}, task' = [task EXCEPT !.phase = phase],
             UNCHANGED generation
      PROVE  TaskRead'
  <2>1. task'.phase = phase /\ task'.generation = task.generation
    BY <1>7, InHand DEF Tasks
  <2> QED
    BY <1>7, <2>1 DEF TaskRead
<1>8. CASE WriteIdentity
  BY <1>7, <1>8 DEF WriteIdentity
<1>9. CASE ReturnTask
  <2>1. task # NoTask /\ generation' = generation /\ task.key \in Rows
    BY <1>9, InHand DEF ReturnTask
  <2>2. task' = Pinned(task.key) \/ task' = [task EXCEPT !.phase = "done"]
    BY <1>9 DEF ReturnTask
  <2> QED
    BY <1>4, <1>7, <2>1, <2>2
<1>10. CASE FailTask
  BY <1>7, <1>10 DEF FailTask
<1>11. CASE FinishTask
  BY <1>11 DEF FinishTask, TaskRead
<1>12. CASE UpdateProfile
  <2>1. archive = "on" /\ UNCHANGED <<task, archive, generation>>
    BY <1>12 DEF UpdateProfile
  <2> QED
    BY <2>1 DEF TaskRead
<1>13. CASE Switch
  <2>1. task' = task /\ generation' = generation + 1
    BY <1>13 DEF Switch
  <2>2. task # NoTask => task.generation \in Nat
    BY InHand DEF Tasks
  <2>3. generation \in Nat
    BY DEF RowsTyped
  <2>4. task # NoTask => task.generation <= generation' /\ task.generation # generation'
    BY <2>1, <2>2, <2>3 DEF TaskRead
  <2> QED
    BY <2>1, <2>4 DEF TaskRead
<1>14. ASSUME NEW lost \in {{}, accepted}, RestartIdentities(lost)
       PROVE  TaskRead'
  BY <1>14 DEF RestartIdentities, TaskRead
<1>15. ASSUME \/ \E k \in Rows : \/ \E cached, flag \in BOOLEAN : Recognize(k, cached, flag)
                                 \/ \E written \in BOOLEAN : SubmitTask(k, written)
                                 \/ Leave(k)
              \/ RepairState \/ TimeOut \/ TimedOut \/ TakeSentinel \/ Close
              \/ \E all \in BOOLEAN : Callback(all)
              \/ UNCHANGED identities
       PROVE  UNCHANGED <<task, archive, generation, profile>>
  BY <1>15 DEF Recognize, SubmitTask, Leave, RepairState, TimeOut, TimedOut, TakeSentinel,
               Close, Callback, identities
<1> QED
  BY <1>1, <1>2, <1>3, <1>5, <1>6, <1>8, <1>9, <1>10, <1>11, <1>12, <1>13, <1>14, <1>15
     DEF IdentityNext, WorkerSteps

\* No step but a restart takes away what answers the task of a row.
LEMMA AnswersLast ==
    ASSUME RowsTyped, WorkTyped, QueueHeld, TaskRead, [IdentityNext]_identities,
           NEW k \in Rows, row[k] # "unseen", Answered(k)
    PROVE  Answered(k)' \/ task' = NoTask
<1>1. ASSUME NEW lost \in {{}, accepted}, RestartIdentities(lost)
      PROVE  task' = NoTask
  BY <1>1 DEF RestartIdentities
<1>2. ASSUME NEW j \in Rows, NEW cached \in BOOLEAN, NEW flag \in BOOLEAN,
             Recognize(j, cached, flag)
      PROVE  Answered(k)'
  <2>1. row'[k] = row[k] /\ shows'[k] = shows[k] /\ skipped' = skipped
    BY <1>2 DEF Recognize, RowsTyped
  <2> QED
    BY <2>1 DEF Answered
<1>3. ASSUME NEW j \in Rows, Leave(j)
      PROVE  Answered(k)'
  <2>1. row'[k] \in {row[k], "gone"} /\ shows' = shows /\ skipped' = skipped
    BY <1>3 DEF Leave, RowsTyped
  <2> QED
    BY <2>1 DEF Answered
<1>4. CASE WriteIdentity
  <2>1. task # NoTask /\ task.phase = "read"
    BY <1>4 DEF WriteIdentity
  <2>2. task.value \in [generation : {task.generation}, profile : Nat] /\ task.generation \in Nat
    BY <2>1, InHand DEF TaskRead, Tasks
  <2>3. task.value # NoIdentity
    BY <2>2 DEF NoIdentity
  <2>4. shows' = shows \/ shows' = [shows EXCEPT ![task.key] = task.value]
    BY <1>4 DEF WriteIdentity
  <2>5. row' = row /\ skipped \subseteq skipped'
    BY <1>4 DEF WriteIdentity
  <2> QED
    BY <2>3, <2>4, <2>5 DEF Answered, RowsTyped
<1>5. CASE FailTask
  <2>1. row' = row /\ shows' = shows /\ skipped \subseteq skipped'
    BY <1>5 DEF FailTask
  <2> QED
    BY <2>1 DEF Answered
<1>6. CASE UNCHANGED <<row, shows, skipped>>
  BY <1>6 DEF Answered
<1>7. ASSUME \/ \E j \in Rows, written \in BOOLEAN : SubmitTask(j, written)
             \/ NewFrame \/ SeenAgain \/ RepairState \/ Close \/ UpdateProfile \/ Switch
             \/ \E all \in BOOLEAN : Callback(all)
             \/ TakeTask \/ ReadIdentity \/ ReturnTask \/ FinishTask
             \/ TimeOut \/ TimedOut \/ TakeSentinel
             \/ UNCHANGED identities
      PROVE  UNCHANGED <<row, shows, skipped>>
  BY <1>7 DEF SubmitTask, NewFrame, SeenAgain, RepairState, Close, UpdateProfile, Switch,
              Callback, identities, TakeTask, ReadIdentity, ReturnTask, FinishTask,
              TimeOut, TimedOut, TakeSentinel
<1> QED
  BY <1>1, <1>2, <1>3, <1>4, <1>5, <1>6, <1>7 DEF IdentityNext, WorkerSteps

\* What a handler leaves behind: an identity, a later generation, or a reason.
LEMMA TaskAnsweredStep ==
    ASSUME RowsTyped, WorkTyped, QueueHeld, SeenFirst, TaskRead, TaskAnswered,
           [IdentityNext]_identities
    PROVE  TaskAnswered'
<1>1. task # NoTask => /\ task \in Tasks /\ task.key \in Rows /\ row[task.key] # "unseen"
                       /\ task.generation \in Nat /\ task.generation <= generation
  BY InHand DEF SeenFirst, TaskRead, Tasks
\* The handler is where it was.
<1>2. ASSUME task # NoTask => task' # NoTask /\ task'.phase = task.phase
                              /\ task'.generation = task.generation /\ task'.key = task.key,
             task = NoTask => task' = NoTask,
             generation' = generation \/ generation' = generation + 1
      PROVE  TaskAnswered'
  <2>1. generation \in Nat
    BY DEF RowsTyped
  <2>2. task # NoTask /\ task.generation # generation => task.generation # generation'
    BY <1>1, <1>2, <2>1
  <2>3. CASE task # NoTask /\ Answered(task.key)
    <3>1. PICK k \in Rows : k = task.key
      BY <1>1, <2>3
    <3>2. Answered(k)'
      BY <1>1, <1>2, <2>3, <3>1, AnswersLast
    <3>3. task'.key = k
      BY <1>2, <2>3, <3>1
    <3> QED
      BY <3>2, <3>3 DEF TaskAnswered, Answered
  <2> QED
    BY <1>2, <2>2, <2>3 DEF TaskAnswered
<1>3. CASE NewFrame
  <2>1. /\ task # NoTask /\ task' = [task EXCEPT !.newFrame = TRUE]
        /\ generation' = generation
    BY <1>3 DEF NewFrame
  <2>2. /\ task' \in Tasks /\ task'.phase = task.phase
        /\ task'.generation = task.generation /\ task'.key = task.key
    BY <1>1, <2>1 DEF Tasks
  <2>3. task' # NoTask
    BY <2>2 DEF Tasks, NoTask
  <2> QED
    BY <1>2, <2>1, <2>2, <2>3
<1>4. CASE SeenAgain
  <2>1. /\ task # NoTask /\ task' = [task EXCEPT !.newRow = TRUE]
        /\ generation' = generation
    BY <1>4 DEF SeenAgain
  <2>2. /\ task' \in Tasks /\ task'.phase = task.phase
        /\ task'.generation = task.generation /\ task'.key = task.key
    BY <1>1, <2>1 DEF Tasks
  <2>3. task' # NoTask
    BY <2>2 DEF Tasks, NoTask
  <2> QED
    BY <1>2, <2>1, <2>2, <2>3
<1>5. CASE task' = task /\ (generation' = generation \/ generation' = generation + 1)
  BY <1>2, <1>5
<1>6. ASSUME NEW k \in Rows, task' = Pinned(k), UNCHANGED row
      PROVE  TaskAnswered'
  BY <1>6 DEF TaskAnswered, Answered, Pinned
<1>7. CASE TakeTask
  <2>1. Head(queue) \in Rows /\ task' = Pinned(Head(queue)) /\ row' = row
    BY <1>7, HeadTaken DEF TakeTask, WorkTyped, QueueHeld, NoStrandedTask
  <2> QED
    BY <1>6, <2>1
<1>8. CASE ReadIdentity
  <2>1. task # NoTask /\ task' = [task EXCEPT !.phase = "read", !.value = [Current EXCEPT !.generation = task.generation]]
    BY <1>8 DEF ReadIdentity
  <2>2. task'.phase = "read"
    BY <1>1, <2>1 DEF Tasks
  <2> QED
    BY <2>2 DEF TaskAnswered
<1>9. CASE WriteIdentity
  <2> DEFINE k == task.key
  <2>1. /\ task # NoTask /\ task.phase = "read" /\ task' = [task EXCEPT !.phase = "returned"]
        /\ row' = row /\ generation' = generation
    BY <1>9 DEF WriteIdentity
  <2>2. /\ task'.phase = "returned" /\ task'.generation = task.generation /\ task'.key = k
    BY <1>1, <2>1 DEF Tasks
  <2>3. task.value # NoIdentity
    BY <1>1, <2>1 DEF TaskRead, NoIdentity
  <2>4. \/ Switched
        \/ skipped' = skipped \cup {k}
        \/ shows' = [shows EXCEPT ![k] = task.value]
    BY <1>9 DEF WriteIdentity
  <2>5. CASE Switched
    BY <2>1, <2>2, <2>5 DEF TaskAnswered, Switched
  <2>6. CASE skipped' = skipped \cup {k}
    BY <2>2, <2>6 DEF TaskAnswered, Answered
  <2>7. CASE shows' = [shows EXCEPT ![k] = task.value]
    <3>1. shows'[k] # NoIdentity
      BY <1>1, <2>1, <2>3, <2>7 DEF RowsTyped
    <3> QED
      BY <2>2, <3>1 DEF TaskAnswered, Answered
  <2> QED
    BY <2>4, <2>5, <2>6, <2>7
<1>10. CASE ReturnTask
  <2>1. /\ task # NoTask /\ task.phase = "returned"
        /\ UNCHANGED <<row, shows, skipped, generation>>
    BY <1>10 DEF ReturnTask
  <2>2. CASE task.generation # generation
    BY <1>1, <1>6, <1>10, <2>1, <2>2 DEF ReturnTask
  <2>3. CASE task.generation = generation
    <3>1. task' = [task EXCEPT !.phase = "done"]
      BY <1>10, <2>3 DEF ReturnTask
    <3>2. task'.key = task.key
      BY <1>1, <2>1, <3>1 DEF Tasks
    <3>3. Answered(task.key)
      BY <2>1, <2>3 DEF TaskAnswered
    <3> QED
      BY <2>1, <3>2, <3>3 DEF TaskAnswered, Answered
  <2> QED
    BY <2>2, <2>3
<1>11. CASE FailTask
  <2>1. task # NoTask /\ task' = [task EXCEPT !.phase = "done"] /\ skipped' = skipped \cup {task.key}
    BY <1>11 DEF FailTask
  <2>2. task'.key = task.key
    BY <1>1, <2>1 DEF Tasks
  <2> QED
    BY <2>1, <2>2 DEF TaskAnswered, Answered
<1>12. CASE task' = NoTask
  BY <1>12 DEF TaskAnswered
<1>13. ASSUME FinishTask \/ \E lost \in {{}, accepted} : RestartIdentities(lost)
       PROVE  task' = NoTask
  BY <1>13 DEF FinishTask, RestartIdentities
<1>14. ASSUME \/ \E j \in Rows : \/ \E cached, flag \in BOOLEAN : Recognize(j, cached, flag)
                                 \/ \E written \in BOOLEAN : SubmitTask(j, written)
                                 \/ Leave(j)
              \/ RepairState \/ Close \/ UpdateProfile \/ Switch
              \/ \E all \in BOOLEAN : Callback(all)
              \/ TimeOut \/ TimedOut \/ TakeSentinel
              \/ UNCHANGED identities
       PROVE  task' = task /\ (generation' = generation \/ generation' = generation + 1)
  BY <1>14 DEF Recognize, SubmitTask, RepairState, Close, Leave, UpdateProfile, Switch,
               Callback, identities, TimeOut, TimedOut, TakeSentinel
<1> QED
  BY <1>3, <1>4, <1>5, <1>7, <1>8, <1>9, <1>10, <1>11, <1>12, <1>13, <1>14
     DEF IdentityNext, WorkerSteps
\* A row that waits for its identity: its task is submitted, refused for one that
\* is known, ended, or on its way there.
LEMMA PendingStep ==
    ASSUME RowsTyped, WorkTyped, QueueHeld, SeenFirst, TaskRead, TaskAnswered,
           PendingIsWorkedOn, [IdentityNext]_identities
    PROVE  PendingIsWorkedOn'
<1> SUFFICES ASSUME ~closed', ~unrepaired', NEW k \in Rows,
                    row'[k] = "active", shows'[k] = NoIdentity
             PROVE  k \in accepted' \cup pending' \cup skipped'
  BY DEF PendingIsWorkedOn, Active
<1> DEFINE Worked == k \in accepted' \cup pending' \cup skipped'
           Before == ~closed /\ ~unrepaired /\ row[k] = "active" /\ shows[k] = NoIdentity
\* Nothing that is known is forgotten.
<1>1. ASSUME ~closed, ~unrepaired, row[k] = "active", shows[k] = NoIdentity,
             accepted \subseteq accepted', pending \subseteq pending', skipped \subseteq skipped'
      PROVE  Worked
  BY <1>1 DEF PendingIsWorkedOn, Active
<1>2. ASSUME NEW j \in Rows, NEW cached \in BOOLEAN, NEW flag \in BOOLEAN,
             Recognize(j, cached, flag)
      PROVE  Worked
  <2>1. CASE j = k
    <3>1. ~cached
      BY <1>2, <2>1, CurrentTyped DEF Recognize, RowsTyped
    <3> QED
      BY <1>2, <2>1, <3>1 DEF Recognize
  <2>2. CASE j # k
    <3>1. row'[k] = row[k] /\ shows'[k] = shows[k]
      BY <1>2, <2>2 DEF Recognize, RowsTyped
    <3>2. UNCHANGED <<closed, unrepaired, pending, skipped>> /\ accepted \subseteq accepted'
      BY <1>2 DEF Recognize
    <3> QED
      BY <1>1, <3>1, <3>2
  <2> QED
    BY <2>1, <2>2
<1>3. ASSUME NEW j \in Rows, NEW written \in BOOLEAN, SubmitTask(j, written)
      PROVE  Worked
  <2>1. /\ accepted' = accepted \ {j} /\ UNCHANGED <<row, shows, closed, skipped>>
    BY <1>3 DEF SubmitTask
  <2>2. written /\ unrepaired' = unrepaired /\ SubmitAll({j})
    BY <1>3 DEF SubmitTask
  <2>3. pending' = pending \cup {j}
    BY <2>1, <2>2 DEF SubmitAll, Submitted
  <2> QED
    BY <2>1, <2>2, <2>3 DEF PendingIsWorkedOn, Active
<1>4. ASSUME NEW j \in Rows, Leave(j)
      PROVE  Worked
  <2>1. /\ row'[k] = row[k] /\ UNCHANGED <<shows, closed, unrepaired, accepted, pending, skipped>>
    BY <1>4 DEF Leave, RowsTyped
  <2> QED
    BY <1>1, <2>1
<1>5. CASE RepairState
  <2>1. UNCHANGED <<row, shows, closed>> /\ SubmitAll({i \in Active : shows[i] = NoIdentity})
    BY <1>5 DEF RepairState
  <2>2. pending' = pending \cup {i \in Active : shows[i] = NoIdentity}
    BY <2>1 DEF SubmitAll, Submitted
  <2> QED
    BY <2>1, <2>2 DEF Active
<1>6. CASE WriteIdentity
  <2>1. /\ UNCHANGED <<row, closed, unrepaired, accepted, pending>> /\ skipped \subseteq skipped'
        /\ task # NoTask /\ task.phase = "read"
        /\ shows' = shows \/ shows' = [shows EXCEPT ![task.key] = task.value]
    BY <1>6 DEF WriteIdentity
  <2>2. task.value # NoIdentity
    BY <2>1, InHand DEF TaskRead, Tasks, NoIdentity
  <2>3. shows[k] = NoIdentity
    BY <2>1, <2>2 DEF RowsTyped
  <2> QED
    BY <1>1, <2>1, <2>3
<1>7. CASE FailTask
  <2>1. UNCHANGED <<row, shows, closed, unrepaired, accepted, pending>> /\ skipped \subseteq skipped'
    BY <1>7 DEF FailTask
  <2> QED
    BY <1>1, <2>1
<1>8. CASE FinishTask
  <2>1. /\ UNCHANGED <<row, shows, closed, unrepaired, accepted, skipped>>
        /\ task # NoTask /\ task.phase = "done" /\ pending' = pending \ {task.key}
    BY <1>8 DEF FinishTask
  <2>2. Answered(task.key)
    BY <2>1 DEF TaskAnswered
  <2>3. task.key = k => k \in skipped
    BY <2>1, <2>2 DEF Answered
  <2> QED
    BY <2>1, <2>3 DEF PendingIsWorkedOn, Active
<1>9. ASSUME NEW all \in BOOLEAN, Callback(all)
      PROVE  Worked
  <2>1. UNCHANGED <<row, shows, closed, unrepaired, accepted, skipped>> /\ pending \subseteq pending'
    BY <1>9 DEF Callback, SubmitAll
  <2> QED
    BY <1>1, <2>1
<1>10. ASSUME NEW lost \in {{}, accepted}, RestartIdentities(lost)
       PROVE  Worked
  <2>1. /\ row' = [i \in Rows |-> IF i \in lost THEN "gone" ELSE row[i]] /\ shows' = shows
        /\ pending' = {i \in Active \ lost : shows[i] = NoIdentity}
    BY <1>10 DEF RestartIdentities
  <2> QED
    BY <2>1 DEF Active
<1>11. CASE UNCHANGED <<row, shows, closed, unrepaired, accepted, pending, skipped>>
  BY <1>1, <1>11
<1>12. CASE Close
  BY <1>12 DEF Close
<1>13. ASSUME \/ NewFrame \/ SeenAgain \/ TakeTask \/ ReadIdentity \/ ReturnTask
              \/ TimeOut \/ TimedOut \/ TakeSentinel \/ UpdateProfile \/ Switch
              \/ UNCHANGED identities
       PROVE  UNCHANGED <<row, shows, closed, unrepaired, accepted, pending, skipped>>
  BY <1>13 DEF NewFrame, SeenAgain, TakeTask, ReadIdentity, ReturnTask, TimeOut, TimedOut,
               TakeSentinel, UpdateProfile, Switch, identities
<1> QED
  BY <1>2, <1>3, <1>4, <1>5, <1>6, <1>7, <1>8, <1>9, <1>10, <1>11, <1>12, <1>13
     DEF IdentityNext, WorkerSteps

-----------------------------------------------------------------------------
(* The invariant, and what follows from it.                                *)

LEMMA IdentityInitEstablishes == IdentityInit => IdentityInv
<1> SUFFICES ASSUME IdentityInit
             PROVE  IdentityInv
  OBVIOUS
<1> USE DEF IdentityInit
<1>1. RowsTyped
  BY DEF RowsTyped, Identities, NoIdentity
<1>2. queue = <<>> /\ queue \in Seq(Rows \cup {"close"}) /\ Len(queue) = 0
  BY EmptySeq
<1>3. WorkTyped
  BY <1>2 DEF WorkTyped
<1>4. ToSet(queue) = {} /\ IsInjective(queue)
  BY <1>2, LenProperties DEF ToSet, IsInjective
<1>5. QueueHeld
  BY <1>4 DEF QueueHeld, NoStrandedTask
<1>6. SeenFirst /\ TaskRead /\ TaskAnswered /\ PendingIsWorkedOn
  BY DEF SeenFirst, TaskRead, TaskAnswered, PendingIsWorkedOn, Active
<1> QED
  BY <1>1, <1>3, <1>5, <1>6 DEF IdentityInv

LEMMA IdentityStepPreserves == IdentityInv /\ [IdentityNext]_identities => IdentityInv'
BY RowsTypesStep, WorkerStep, SeenFirstStep, TaskReadStep, TaskAnsweredStep, PendingStep
   DEF IdentityInv

LEMMA IdentityInvariance == IdentitySpec => []IdentityInv
BY IdentityInitEstablishes, IdentityStepPreserves, PTL DEF IdentitySpec

\* The composition's steps are those of the identity tasks, or leave them alone.
LEMMA WorkRunsIdentities == WorkSpec => IdentitySpec
<1>1. WorkInit => IdentityInit
  BY DEF WorkInit
<1>2. [WorkNext]_work => [IdentityNext]_identities
  BY DEF WorkNext, ByWriters, ByRefresh, ByIdentities, ByGateways, work
<1> QED
  BY <1>1, <1>2, PTL DEF WorkSpec, IdentitySpec

\* Rows, tasks and the worker keep their types, and the handler's key is known.
THEOREM IdentityTypesCorrect == WorkSpec => []IdentityTypeOK
<1>1. IdentityInv => IdentityTypeOK
  <2> SUFFICES ASSUME IdentityInv
               PROVE  IdentityTypeOK
    OBVIOUS
  <2>1. queue \in Seq(Rows \cup {"close"})
    BY DEF IdentityInv, WorkTyped
  <2>2. ToSet(queue) \subseteq Rows \cup {"close"}
    BY <2>1, LenProperties DEF ToSet
  <2>3. task # NoTask => task.value \in Identities /\ task.key \in pending
    BY InHand DEF IdentityInv, Tasks
  <2> QED
    BY <2>2, <2>3 DEF IdentityInv, RowsTyped, WorkTyped, IdentityTypeOK, Identities
<1> QED
  BY <1>1, IdentityInvariance, WorkRunsIdentities, PTL

\* A key that the worker knows is in its queue once or in its hands, and a thread
\* will come to it; and no row waits in vain, unless its task was ended.
THEOREM EveryTaskServed == WorkSpec => []TasksAreServed
<1>1. IdentityInv => TasksAreServed
  BY DEF IdentityInv, QueueHeld, TasksAreServed
<1> QED
  BY <1>1, IdentityInvariance, WorkRunsIdentities, PTL

\* No identity is written that is late: whatever is switched or learned while the
\* handler reads, the row shows what the archive of the moment says.
THEOREM NoLateIdentity == WorkSpec => NothingLate
<1> DEFINE Timely == \A k \in Rows : shows'[k] # shows[k] => shows'[k] = Current
<1>1. IdentityInv /\ [IdentityNext]_identities => [Timely]_identities
  <2> SUFFICES ASSUME IdentityInv, IdentityNext, NEW k \in Rows, shows'[k] # shows[k]
               PROVE  shows'[k] = Current
    OBVIOUS
  <2> USE DEF IdentityInv
  <2>1. ASSUME NEW j \in Rows, NEW cached \in BOOLEAN, NEW flag \in BOOLEAN,
               Recognize(j, cached, flag)
        PROVE  shows'[k] = Current
    <3>1. /\ row[j] = "unseen"
          /\ shows' = [shows EXCEPT ![j] = IF cached THEN Current ELSE NoIdentity]
      BY <2>1 DEF Recognize
    <3>2. shows[j] = NoIdentity
      BY <3>1 DEF SeenFirst
    <3> QED
      BY <3>1, <3>2 DEF RowsTyped
  <2>2. CASE WriteIdentity
    <3>1. /\ task # NoTask /\ task.phase = "read" /\ ~Switched /\ ~Late
          /\ shows' = [shows EXCEPT ![task.key] = task.value]
      BY <2>2 DEF WriteIdentity
    <3>2. task.value = Current
      BY <3>1 DEF Late, Switched, TaskRead, RowsTyped
    <3> QED
      BY <3>1, <3>2 DEF RowsTyped
  <2>3. ASSUME \/ \E j \in Rows : (\E written \in BOOLEAN : SubmitTask(j, written)) \/ Leave(j)
               \/ NewFrame \/ SeenAgain \/ RepairState \/ Close \/ UpdateProfile \/ Switch
               \/ \E all \in BOOLEAN : Callback(all)
               \/ TakeTask \/ ReadIdentity \/ ReturnTask \/ FailTask \/ FinishTask
               \/ TimeOut \/ TimedOut \/ TakeSentinel
               \/ \E lost \in {{}, accepted} : RestartIdentities(lost)
        PROVE  shows' = shows
    BY <2>3 DEF SubmitTask, Leave, NewFrame, SeenAgain, RepairState, Close, UpdateProfile, Switch,
                Callback, TakeTask, ReadIdentity, ReturnTask, FailTask, FinishTask, TimeOut,
                TimedOut, TakeSentinel, RestartIdentities
  <2> QED
    BY <2>1, <2>2, <2>3 DEF IdentityNext, WorkerSteps
<1> QED
  BY <1>1, IdentityInvariance, WorkRunsIdentities, PTL DEF IdentitySpec, NothingLate

-----------------------------------------------------------------------------
(* The archive of a character's affiliation: what was read was committed.  *)

RefreshSpec == RefreshInit /\ [][RefreshNext]_refresh

Versions == [stamp : Nat, revision : Nat]

Leases == [lane : Lanes, due : BOOLEAN, failing : BOOLEAN, live : BOOLEAN,
           bumped : BOOLEAN, holder : Lanes \cup {"none"}]

Asking == {Idle} \cup [phase : {"asking", "answered", "committed"}, stamp : Nat]

Reads == [phase : {"read"}, row : Versions]

\* A row as it was read is no newer than the archive's, and the same if it is of the
\* same revision.
IsOf(read, now) == read.revision <= now.revision /\ (read.revision = now.revision => read = now)

ArchiveTyped ==
    /\ affiliation \in Nat /\ stored \in Versions
    /\ batch \in [Lanes -> Asking \cup Reads] /\ lookup \in Asking
    /\ hot \in Versions \cup {NoProfile}

\* Whatever anybody has read of the archive was committed, and nobody works on a
\* character that is unknown.
ReadWasCommitted ==
    /\ hot # NoProfile => IsOf(hot, stored)
    /\ \A lane \in Lanes : batch[lane].phase = "read" => IsOf(batch[lane].row, stored)

LeaseTyped == job \in {NoJob} \cup Leases

Known ==
    /\ hot # NoProfile => identified
    /\ job # NoJob => identified
    /\ \A lane \in Lanes : batch[lane] # Idle => identified
    /\ lookup # Idle => identified

RefreshInv ==
    /\ ArchiveTyped /\ ReadWasCommitted /\ Known /\ LeaseTyped
    /\ identified \in BOOLEAN /\ sighted \in {"not yet", "now", "gone"}

\* What is no row of the archive.
LEMMA NoProfileIs == /\ NoProfile.revision = -1 /\ NoProfile.stamp = 0 /\ NoProfile \notin Versions
                     /\ Idle.phase = "idle"
BY DEF NoProfile, Versions, Idle

\* What is saved is not older, and of a later revision if it is another.
LEMMA SavedLater ==
    ASSUME NEW old \in Versions, NEW stamp \in Nat
    PROVE  /\ Saved(old, stamp) \in Versions /\ old.stamp <= Saved(old, stamp).stamp
           /\ Saved(old, stamp) = old \/ old.revision < Saved(old, stamp).revision
BY DEF Saved, Versions

\* What was read of a row is of what is saved in its place.
LEMMA StillOf ==
    ASSUME NEW old \in Versions, NEW new \in Versions, NEW read \in Versions,
           new = old \/ old.revision < new.revision, IsOf(read, old)
    PROVE  IsOf(read, new)
BY DEF IsOf, Versions

\* What the runtime remembers is the newer of the two.
LEMMA RemembersNewer ==
    ASSUME NEW old \in Versions \cup {NoProfile}, NEW read \in Versions, NEW now \in Versions,
           old # NoProfile => IsOf(old, now), IsOf(read, now)
    PROVE  /\ Remembered(old, read) \in Versions /\ IsOf(Remembered(old, read), now)
           /\ old.revision <= Remembered(old, read).revision
<1>1. CASE old = NoProfile
  <2>1. old.revision = -1 /\ read.revision \in Nat
    BY <1>1, NoProfileIs DEF Versions
  <2>2. Remembered(old, read) = read
    BY <2>1 DEF Remembered
  <2> QED
    BY <2>1, <2>2
<1>2. CASE old \in Versions
  <2>1. old.revision \in Nat /\ read.revision \in Nat /\ IsOf(old, now)
    BY <1>2, NoProfileIs DEF Versions
  <2>2. CASE old.revision > read.revision
    BY <1>2, <2>1, <2>2 DEF Remembered
  <2>3. CASE ~ (old.revision > read.revision)
    <3>1. Remembered(old, read) = read
      BY <2>3 DEF Remembered
    <3> QED
      BY <2>1, <2>3, <3>1
  <2> QED
    BY <2>2, <2>3
<1> QED
  BY <1>1, <1>2

\* A lane's batch goes on.
LEMMA BatchGoes ==
    ASSUME NEW lane \in Lanes, batch \in [Lanes -> Asking \cup Reads], NEW new \in Asking \cup Reads,
           batch' = [batch EXCEPT ![lane] = new]
    PROVE  /\ batch' \in [Lanes -> Asking \cup Reads] /\ batch'[lane] = new
           /\ \A other \in Lanes : other # lane => batch'[other] = batch[other]
BY DEF Lanes

\* What a lane may have in hand.
LEMMA LaneHas ==
    ASSUME batch \in [Lanes -> Asking \cup Reads], NEW lane \in Lanes
    PROVE  /\ batch[lane].phase = "answered" => batch[lane].stamp \in Nat
           /\ batch[lane].phase = "read" => batch[lane].row \in Versions
           /\ batch[lane].phase # "idle" => batch[lane] # Idle
<1>1. batch[lane] \in Asking \cup Reads
  OBVIOUS
<1> QED
  BY <1>1, NoProfileIs DEF Asking, Reads

\* What was said of the archive holds at the start.
LEMMA RefreshBegins == RefreshInit => RefreshInv
<1> SUFFICES ASSUME RefreshInit
             PROVE  RefreshInv
  OBVIOUS
<1>1. /\ affiliation = 1 /\ identified = FALSE /\ stored = [stamp |-> 0, revision |-> 0]
      /\ job = NoJob /\ batch = [lane \in Lanes |-> Idle] /\ lookup = Idle
      /\ hot = NoProfile /\ sighted = "not yet"
  BY Zenon DEF RefreshInit
<1>2. stored \in Versions
  BY <1>1 DEF Versions
<1>3. ArchiveTyped
  BY <1>1, <1>2 DEF ArchiveTyped, Asking
<1>4. ReadWasCommitted
  BY <1>1, NoProfileIs DEF ReadWasCommitted
<1>5. Known
  BY <1>1, Zenon DEF Known
<1>6. LeaseTyped /\ identified \in BOOLEAN /\ sighted \in {"not yet", "now", "gone"}
  BY <1>1, Zenon DEF LeaseTyped
<1> QED
  BY <1>3, <1>4, <1>5, <1>6 DEF RefreshInv

\* The archive's row, what is read of it and what is remembered never go back.
GoesForward ==
    /\ stored.stamp <= stored'.stamp
    /\ hot' # NoProfile => hot.revision <= hot'.revision

\* Of every step: the archive goes forward, and what was read of it was committed.
LEMMA ArchiveStep ==
    ASSUME RefreshInv, RefreshNext
    PROVE  ArchiveTyped' /\ ReadWasCommitted' /\ GoesForward
<1>1. /\ affiliation \in Nat /\ stored \in Versions /\ lookup \in Asking
      /\ batch \in [Lanes -> Asking \cup Reads] /\ hot \in Versions \cup {NoProfile}
      /\ hot # NoProfile => IsOf(hot, stored)
      /\ \A lane \in Lanes : batch[lane].phase = "read" => IsOf(batch[lane].row, stored)
  BY DEF RefreshInv, ArchiveTyped, ReadWasCommitted
<1>2. /\ stored.stamp \in Nat /\ stored.revision \in Nat /\ IsOf(stored, stored)
      /\ hot.revision \in Int /\ hot.stamp \in Int
      /\ Idle \in Asking /\ Idle.phase # "read"
      /\ \A phase \in {"asking", "answered", "committed"}, stamp \in Nat :
            At(phase, stamp) \in Asking /\ At(phase, stamp).phase # "read"
      /\ \A other \in Lanes : batch[other].phase = "read" => batch[other].row \in Versions
  BY <1>1, NoProfileIs, LaneHas DEF Versions, IsOf, Asking, At
<1>3. ASSUME UNCHANGED <<stored, batch, hot>>, affiliation' \in Nat, lookup' \in Asking
      PROVE  ArchiveTyped' /\ ReadWasCommitted' /\ GoesForward
  BY <1>1, <1>2, <1>3 DEF ArchiveTyped, ReadWasCommitted, GoesForward
<1>4. ASSUME NEW lane \in Lanes, NEW new \in Asking \cup Reads,
             batch' = [batch EXCEPT ![lane] = new],
             new.phase = "read" => IsOf(new.row, stored),
             UNCHANGED <<affiliation, stored, lookup, hot>>
      PROVE  ArchiveTyped' /\ ReadWasCommitted' /\ GoesForward
  <2>1. /\ batch' \in [Lanes -> Asking \cup Reads] /\ batch'[lane] = new
        /\ \A other \in Lanes : other # lane => batch'[other] = batch[other]
    BY <1>1, <1>4, BatchGoes
  <2> QED
    BY <1>1, <1>2, <1>4, <2>1 DEF ArchiveTyped, ReadWasCommitted, GoesForward
<1>5. CASE Transfer \/ SetActive \/ Maintain \/ ComesDue \/ LookUp \/ AskOnce
           \/ \E early \in BOOLEAN : LeaseEnds(early)
  <2>1. UNCHANGED <<stored, batch, hot>> /\ (affiliation' = affiliation \/ affiliation' = affiliation + 1)
    BY <1>5 DEF Transfer, SetActive, Maintain, ComesDue, LookUp, AskOnce, LeaseEnds
  <2>2. lookup' = lookup \/ lookup' = At("asking", 0) \/ lookup' = At("answered", affiliation)
    BY <1>5 DEF Transfer, SetActive, Maintain, ComesDue, LookUp, AskOnce, LeaseEnds
  <2> QED
    BY <1>1, <1>2, <1>3, <2>1, <2>2
<1>6. CASE Drain
  <2>1. hot' = Remembered(hot, stored) /\ UNCHANGED <<affiliation, stored, batch, lookup>>
    BY <1>6 DEF Drain
  <2>2. hot' \in Versions /\ IsOf(hot', stored) /\ hot.revision <= hot'.revision
    BY <1>1, <1>2, <2>1, RemembersNewer
  <2> QED
    BY <1>1, <1>2, <2>1, <2>2 DEF ArchiveTyped, ReadWasCommitted, GoesForward
<1>7. ASSUME NEW lane \in Lanes, Claim(lane)
      PROVE  ArchiveTyped' /\ ReadWasCommitted' /\ GoesForward
  <2>1. batch' = [batch EXCEPT ![lane] = At("asking", 0)]
        /\ UNCHANGED <<affiliation, stored, lookup, hot>>
    BY <1>7 DEF Claim
  <2> QED
    BY <1>2, <1>4, <2>1
<1>8. ASSUME NEW lane \in Lanes, Ask(lane)
      PROVE  ArchiveTyped' /\ ReadWasCommitted' /\ GoesForward
  <2>1. batch' = [batch EXCEPT ![lane] = At("answered", affiliation)]
        /\ UNCHANGED <<affiliation, stored, lookup, hot>>
    BY <1>8 DEF Ask
  <2> QED
    BY <1>1, <1>2, <1>4, <2>1
<1>9. ASSUME NEW lane \in Lanes, CommitBatch(lane)
      PROVE  ArchiveTyped' /\ ReadWasCommitted' /\ GoesForward
  <2>1. /\ batch[lane].phase = "answered" /\ UNCHANGED <<affiliation, lookup, hot>>
        /\ \/ /\ stored' = Saved(stored, batch[lane].stamp)
              /\ batch' = [batch EXCEPT ![lane] = At("committed", 0)]
           \/ stored' = stored /\ batch' = [batch EXCEPT ![lane] = Idle]
    BY <1>9 DEF CommitBatch
  <2>2. CASE stored' = stored /\ batch' = [batch EXCEPT ![lane] = Idle]
    BY <1>2, <1>4, <2>1, <2>2
  <2>3. CASE /\ stored' = Saved(stored, batch[lane].stamp)
             /\ batch' = [batch EXCEPT ![lane] = At("committed", 0)]
    <3>1. /\ batch' \in [Lanes -> Asking \cup Reads] /\ batch'[lane] = At("committed", 0)
          /\ \A other \in Lanes : other # lane => batch'[other] = batch[other]
      BY <1>1, <1>2, <2>3, BatchGoes
    <3>2. /\ stored' \in Versions /\ stored.stamp <= stored'.stamp
          /\ stored' = stored \/ stored.revision < stored'.revision
      BY <1>1, <2>1, <2>3, LaneHas, SavedLater
    <3>3. \A read \in Versions : IsOf(read, stored) => IsOf(read, stored')
      BY <1>1, <3>2, StillOf
    <3>4. \A other \in Lanes : batch'[other].phase = "read" =>
              batch'[other] = batch[other] /\ batch[other].phase = "read"
      BY <1>2, <3>1
    <3> QED
      BY <1>1, <1>2, <2>1, <3>1, <3>2, <3>3, <3>4 DEF ArchiveTyped, ReadWasCommitted, GoesForward
  <2> QED
    BY <2>1, <2>2, <2>3
<1>10. ASSUME NEW lane \in Lanes, ReadBack(lane)
       PROVE  ArchiveTyped' /\ ReadWasCommitted' /\ GoesForward
  <2> DEFINE new == [phase |-> "read", row |-> stored]
  <2>1. batch' = [batch EXCEPT ![lane] = new] /\ UNCHANGED <<affiliation, stored, lookup, hot>>
    BY <1>10 DEF ReadBack
  <2>2. new \in Reads /\ new.row = stored
    BY <1>1 DEF Reads
  <2> HIDE DEF new
  <2> QED
    BY <1>2, <1>4, <2>1, <2>2
<1>11. ASSUME NEW lane \in Lanes, Publish(lane)
       PROVE  ArchiveTyped' /\ ReadWasCommitted' /\ GoesForward
  <2>1. /\ batch[lane].phase = "read" /\ UNCHANGED <<affiliation, stored, lookup>>
        /\ hot' = Remembered(hot, batch[lane].row) /\ batch' = [batch EXCEPT ![lane] = Idle]
    BY <1>11 DEF Publish
  <2>2. hot' \in Versions /\ IsOf(hot', stored) /\ hot.revision <= hot'.revision
    BY <1>1, <1>2, <2>1, RemembersNewer
  <2>3. /\ batch' \in [Lanes -> Asking \cup Reads] /\ batch'[lane] = Idle
        /\ \A other \in Lanes : other # lane => batch'[other] = batch[other]
    BY <1>1, <1>2, <2>1, BatchGoes
  <2> QED
    BY <1>1, <1>2, <2>1, <2>2, <2>3 DEF ArchiveTyped, ReadWasCommitted, GoesForward
<1>12. ASSUME NEW lane \in Lanes, NEW noted \in BOOLEAN, FailBatch(lane, noted)
       PROVE  ArchiveTyped' /\ ReadWasCommitted' /\ GoesForward
  <2>1. batch' = [batch EXCEPT ![lane] = Idle] /\ UNCHANGED <<affiliation, stored, lookup, hot>>
    BY <1>12, Zenon DEF FailBatch
  <2> QED
    BY <1>2, <1>4, <2>1
<1>13. ASSUME NEW answered \in BOOLEAN, SaveOnce(answered)
       PROVE  ArchiveTyped' /\ ReadWasCommitted' /\ GoesForward
  <2>1. /\ lookup' = Idle /\ UNCHANGED <<affiliation, batch>> /\ hot' = Remembered(hot, stored')
        /\ \/ lookup.phase = "answered" /\ stored' = Saved(stored, lookup.stamp)
           \/ stored' = stored
    BY <1>13, Zenon DEF SaveOnce
  <2>2. lookup.phase = "answered" => lookup.stamp \in Nat
    BY <1>1, NoProfileIs DEF Asking
  <2>3. /\ stored' \in Versions /\ stored.stamp <= stored'.stamp
        /\ stored' = stored \/ stored.revision < stored'.revision
    BY <1>1, <1>2, <2>1, <2>2, SavedLater
  <2>4. \A read \in Versions : IsOf(read, stored) => IsOf(read, stored')
    BY <1>1, <2>3, StillOf
  <2>5. IsOf(stored', stored') /\ (hot # NoProfile => IsOf(hot, stored'))
    BY <1>1, <2>3, <2>4 DEF IsOf, Versions
  <2>6. hot' \in Versions /\ IsOf(hot', stored') /\ hot.revision <= hot'.revision
    BY <1>1, <2>1, <2>3, <2>5, RemembersNewer
  <2> QED
    BY <1>1, <1>2, <2>1, <2>3, <2>4, <2>6 DEF ArchiveTyped, ReadWasCommitted, GoesForward
<1>14. CASE RestartServer
  <2>1. /\ batch' = [lane \in Lanes |-> Idle] /\ lookup' = Idle /\ hot' = NoProfile
        /\ UNCHANGED <<affiliation, stored>>
    BY <1>14 DEF RestartServer
  <2> QED
    BY <1>1, <1>2, <2>1 DEF ArchiveTyped, ReadWasCommitted, GoesForward
<1> QED
  BY <1>5, <1>6, <1>7, <1>8, <1>9, <1>10, <1>11, <1>12, <1>13, <1>14, Zenon
     DEF RefreshNext, LaneStep

-----------------------------------------------------------------------------
(* The lease of its job.                                                   *)

\* What a job's row holds.
LEMMA LeaseFields ==
    ASSUME NEW lease \in Leases
    PROVE  /\ lease.lane \in Lanes /\ lease.due \in BOOLEAN /\ lease.failing \in BOOLEAN
           /\ lease.live \in BOOLEAN /\ lease.bumped \in BOOLEAN
           /\ lease.holder \in Lanes \cup {"none"}
           /\ lease # NoJob
<1>1. "none" \notin Lanes
  BY DEF Lanes
<1>2. lease.lane \in Lanes
  BY Zenon DEF Leases
<1>3. NoJob.lane = "none"
  BY DEF NoJob
<1> QED
  BY <1>1, <1>2, <1>3, Zenon DEF Leases

\* The tier of a character is a lane.
LEMMA TierIsLane == Tier \in Lanes
BY DEF Tier, Lanes

\* Whatever is done with a job's row leaves a row.
LEMMA ScheduledTyped ==
    ASSUME NEW lease \in {NoJob} \cup Leases, NEW tier \in Lanes, NEW overdue \in BOOLEAN
    PROVE  Scheduled(lease, tier, overdue) \in Leases
<1>1. CASE lease = NoJob
  <2>1. Scheduled(lease, tier, overdue) =
            [lane |-> tier, due |-> overdue, failing |-> FALSE,
             holder |-> "none", live |-> FALSE, bumped |-> FALSE]
    BY <1>1, Zenon DEF Scheduled
  <2>2. "none" \in Lanes \cup {"none"} /\ FALSE \in BOOLEAN
    OBVIOUS
  <2> DEFINE new == [lane |-> tier, due |-> overdue, failing |-> FALSE,
                     holder |-> "none", live |-> FALSE, bumped |-> FALSE]
  <2>3. new \in Leases
    BY <2>2, Zenon DEF Leases
  <2> QED
    BY <2>1, <2>3, Zenon
<1>2. CASE lease \in Leases
  <2> DEFINE due == lease.due \/ (overdue /\ ~lease.failing)
             expedited == due /\ ~lease.due /\ ~lease.live
             promoted == tier = "realtime" /\ lease.lane = "background"
             lane == IF promoted THEN "realtime" ELSE lease.lane
  <2>1. lease # NoJob
    BY <1>2, LeaseFields, Zenon
  <2>2. due \in BOOLEAN
    BY Zenon
  <2>3. lane \in Lanes
    BY <1>2, LeaseFields DEF Lanes
  <2>4. Scheduled(lease, tier, overdue) =
            IF expedited \/ promoted
            THEN [lease EXCEPT !.due = due, !.bumped = TRUE, !.lane = lane]
            ELSE lease
    BY <2>1, Zenon DEF Scheduled
  <2> HIDE DEF due, expedited, promoted, lane
  <2>5. TRUE \in BOOLEAN
    OBVIOUS
  <2>6. [lease EXCEPT !.due = due, !.bumped = TRUE, !.lane = lane] \in Leases
    BY <1>2, <2>2, <2>3, <2>5, Zenon DEF Leases
  <2> QED
    BY <1>2, <2>4, <2>6, Zenon
<1> QED
  BY <1>1, <1>2, Zenon

\* The same for the end of a batch.
LEMMA EndedTyped ==
    ASSUME NEW lease \in Leases
    PROVE  Finished(lease) \in Leases /\ Failed(lease) \in Leases
<1> DEFINE due == IF lease.bumped THEN lease.due ELSE FALSE
           lane == IF lease.bumped THEN lease.lane ELSE Tier
<1>1. due \in BOOLEAN
  BY LeaseFields, Zenon
<1>2. lane \in Lanes
  BY LeaseFields, TierIsLane, Zenon
<1>3. Finished(lease) = [lease EXCEPT !.holder = "none", !.live = FALSE, !.failing = FALSE,
                                      !.bumped = FALSE, !.due = due, !.lane = lane]
  BY Zenon DEF Finished
<1> HIDE DEF due, lane
<1>4. "none" \in Lanes \cup {"none"} /\ FALSE \in BOOLEAN
  OBVIOUS
<1>5. Finished(lease) \in Leases
  BY <1>1, <1>2, <1>3, <1>4, Zenon DEF Leases
<1>6. Failed(lease) \in Leases
  BY <1>4, Zenon DEF Failed, Leases
<1> QED
  BY <1>5, <1>6

\* Of every step: the job's row stays a row.
LEMMA LeaseStep ==
    ASSUME RefreshInv, RefreshNext
    PROVE  LeaseTyped'
<1>1. job \in {NoJob} \cup Leases
  BY DEF RefreshInv, LeaseTyped
<1>2. (stored.stamp = 0) \in BOOLEAN /\ TRUE \in BOOLEAN /\ FALSE \in BOOLEAN
  OBVIOUS
<1>3. ASSUME job # NoJob
      PROVE  job \in Leases
  BY <1>1, <1>3, Zenon
<1>4. ASSUME job' \in Leases \/ job' = job
      PROVE  LeaseTyped'
  BY <1>1, <1>4, Zenon DEF LeaseTyped
<1>5. CASE Transfer \/ SetActive \/ LookUp \/ AskOnce \/ RestartServer
  <2>1. job' = job
    BY <1>5, Zenon DEF Transfer, SetActive, LookUp, AskOnce, RestartServer
  <2> QED
    BY <2>1, <1>4, Zenon
<1>6. CASE Drain \/ Maintain
  <2>1. job' = Scheduled(job, Tier, stored.stamp = 0)
    BY <1>6, Zenon DEF Drain, Maintain
  <2>2. job' \in Leases
    BY <2>1, <1>1, <1>2, TierIsLane, ScheduledTyped, Zenon
  <2> QED
    BY <2>2, <1>4, Zenon
<1>7. CASE ComesDue
  <2>1. job # NoJob /\ job' = [job EXCEPT !.due = TRUE]
    BY <1>7, Zenon DEF ComesDue
  <2>2. job' \in Leases
    BY <2>1, <1>2, <1>3, Zenon DEF Leases
  <2> QED
    BY <2>2, <1>4, Zenon
<1>8. ASSUME NEW early \in BOOLEAN, LeaseEnds(early)
      PROVE  LeaseTyped'
  <2>1. job # NoJob /\ job' = [job EXCEPT !.live = FALSE]
    BY <1>8, Zenon DEF LeaseEnds
  <2>2. job' \in Leases
    BY <2>1, <1>2, <1>3, Zenon DEF Leases
  <2> QED
    BY <2>2, <1>4, Zenon
<1>9. ASSUME NEW lane \in Lanes, Claim(lane)
      PROVE  LeaseTyped'
  <2>1. job # NoJob /\ job' = [job EXCEPT !.holder = lane, !.live = TRUE, !.bumped = FALSE]
    BY <1>9, Zenon DEF Claim, Claimable
  <2>2. lane \in Lanes \cup {"none"}
    OBVIOUS
  <2>3. job' \in Leases
    BY <2>1, <2>2, <1>2, <1>3, Zenon DEF Leases
  <2> QED
    BY <2>3, <1>4, Zenon
<1>10. ASSUME NEW lane \in Lanes, LaneStep(lane)
       PROVE  LeaseTyped'
  <2>1. job' = job \/ (job # NoJob /\ job' = Finished(job))
    BY <1>10, Zenon DEF LaneStep, Ask, CommitBatch, ReadBack, Publish, Holds
  <2> QED
    BY <2>1, <1>3, <1>4, EndedTyped, Zenon
<1>11. ASSUME NEW lane \in Lanes, NEW noted \in BOOLEAN, FailBatch(lane, noted)
       PROVE  LeaseTyped'
  <2>1. job' = job \/ (job # NoJob /\ job' = Failed(job))
    BY <1>11, Zenon DEF FailBatch, Holds
  <2> QED
    BY <2>1, <1>3, <1>4, EndedTyped, Zenon
<1>12. ASSUME NEW answered \in BOOLEAN, SaveOnce(answered)
       PROVE  LeaseTyped'
  <2>1. job' = job
    BY <1>12, Zenon DEF SaveOnce
  <2> QED
    BY <2>1, <1>4, Zenon
<1> QED
  BY <1>5, <1>6, <1>7, <1>8, <1>9, <1>10, <1>11, <1>12, Zenon DEF RefreshNext

\* Of every step: what is worked on is known, and what is known stays known.
LEMMA KnownStep ==
    ASSUME RefreshInv, RefreshNext
    PROVE  Known' /\ identified' \in BOOLEAN /\ sighted' \in {"not yet", "now", "gone"}
<1>1. /\ identified \in BOOLEAN /\ sighted \in {"not yet", "now", "gone"}
      /\ hot # NoProfile => identified
      /\ job # NoJob => identified
      /\ \A lane \in Lanes : batch[lane] # Idle => identified
      /\ lookup # Idle => identified
  BY Zenon DEF RefreshInv, Known
<1>2. /\ batch \in [Lanes -> Asking \cup Reads]
      /\ \A lane \in Lanes : batch[lane].phase # "idle" => batch[lane] # Idle
      /\ lookup.phase # "idle" => lookup # Idle
  BY LaneHas, NoProfileIs DEF RefreshInv, ArchiveTyped
<1>3. ASSUME identified' = TRUE, sighted' \in {"not yet", "now", "gone"}
      PROVE  Known' /\ identified' \in BOOLEAN /\ sighted' \in {"not yet", "now", "gone"}
  BY <1>3, Zenon DEF Known
<1>4. ASSUME identified' = identified, identified = TRUE, sighted' = sighted
      PROVE  Known' /\ identified' \in BOOLEAN /\ sighted' \in {"not yet", "now", "gone"}
  BY <1>1, <1>3, <1>4, Zenon
<1>5. CASE Transfer \/ SetActive
  <2>1. UNCHANGED <<identified, hot, job, batch, lookup>>
    BY <1>5, Zenon DEF Transfer, SetActive
  <2>2. sighted' \in {"not yet", "now", "gone"}
    BY <1>5, <1>1, Zenon DEF Transfer, SetActive
  <2>3. Known'
    BY <1>1, <2>1, Zenon DEF Known
  <2> QED
    BY <1>1, <2>1, <2>2, <2>3, Zenon
<1>6. CASE Drain \/ LookUp
  <2>1. identified' = TRUE /\ sighted' = sighted
    BY <1>6, Zenon DEF Drain, LookUp
  <2> QED
    BY <2>1, <1>1, <1>3, Zenon
<1>7. CASE Maintain \/ ComesDue \/ AskOnce
  <2>1. identified = TRUE /\ identified' = identified /\ sighted' = sighted
    BY <1>7, <1>1, <1>2, Zenon DEF Maintain, ComesDue, AskOnce
  <2> QED
    BY <2>1, <1>4, Zenon
<1>8. ASSUME NEW early \in BOOLEAN, LeaseEnds(early)
      PROVE  Known' /\ identified' \in BOOLEAN /\ sighted' \in {"not yet", "now", "gone"}
  <2>1. identified = TRUE /\ identified' = identified /\ sighted' = sighted
    BY <1>8, <1>1, Zenon DEF LeaseEnds
  <2> QED
    BY <2>1, <1>4, Zenon
<1>9. ASSUME NEW answered \in BOOLEAN, SaveOnce(answered)
      PROVE  Known' /\ identified' \in BOOLEAN /\ sighted' \in {"not yet", "now", "gone"}
  <2>1. identified = TRUE /\ identified' = identified /\ sighted' = sighted
    BY <1>9, <1>1, Zenon DEF SaveOnce
  <2> QED
    BY <2>1, <1>4, Zenon
<1>10. ASSUME NEW lane \in Lanes, Claim(lane)
       PROVE  Known' /\ identified' \in BOOLEAN /\ sighted' \in {"not yet", "now", "gone"}
  <2>1. identified = TRUE /\ identified' = identified /\ sighted' = sighted
    BY <1>10, <1>1, Zenon DEF Claim, Claimable
  <2> QED
    BY <2>1, <1>4, Zenon
<1>11. ASSUME NEW lane \in Lanes, LaneStep(lane)
       PROVE  Known' /\ identified' \in BOOLEAN /\ sighted' \in {"not yet", "now", "gone"}
  <2>1. batch[lane].phase # "idle" /\ identified' = identified /\ sighted' = sighted
    BY <1>11 DEF LaneStep, Ask, CommitBatch, ReadBack, Publish
  <2>2. identified = TRUE
    BY <2>1, <1>1, <1>2, Zenon
  <2> QED
    BY <2>1, <2>2, <1>4, Zenon
<1>12. ASSUME NEW lane \in Lanes, NEW noted \in BOOLEAN, FailBatch(lane, noted)
       PROVE  Known' /\ identified' \in BOOLEAN /\ sighted' \in {"not yet", "now", "gone"}
  <2>1. identified = TRUE /\ identified' = identified /\ sighted' = sighted
    BY <1>12, <1>1, Zenon DEF FailBatch
  <2> QED
    BY <2>1, <1>4, Zenon
<1>13. CASE RestartServer
  <2>1. /\ batch' = [lane \in Lanes |-> Idle] /\ lookup' = Idle /\ hot' = NoProfile
        /\ UNCHANGED <<identified, job, sighted>>
    BY <1>13, Zenon DEF RestartServer
  <2>2. \A lane \in Lanes : batch'[lane] = Idle
    BY <2>1, Zenon
  <2>3. Known'
    BY <1>1, <2>1, <2>2, Zenon DEF Known
  <2> QED
    BY <1>1, <2>1, <2>3, Zenon
<1> QED
  BY <1>5, <1>6, <1>7, <1>8, <1>9, <1>10, <1>11, <1>12, <1>13, Zenon DEF RefreshNext

\* The invariant is kept by every step, and no step loses a profile.
LEMMA RefreshStepKeeps == RefreshInv /\ [RefreshNext]_refresh => RefreshInv' /\ GoesForward
<1>1. CASE RefreshNext
  BY <1>1, ArchiveStep, LeaseStep, KnownStep, Zenon DEF RefreshInv
<1>2. ASSUME RefreshInv, UNCHANGED refresh
      PROVE  RefreshInv' /\ GoesForward
  <2>1. UNCHANGED <<affiliation, identified, stored, job, batch, lookup, hot, sighted>>
    BY <1>2 DEF refresh
  <2>2. ArchiveTyped' /\ ReadWasCommitted'
    BY <1>2, <2>1 DEF RefreshInv, ArchiveTyped, ReadWasCommitted
  <2>3. Known' /\ LeaseTyped' /\ identified' \in BOOLEAN /\ sighted' \in {"not yet", "now", "gone"}
    BY <1>2, <2>1, Zenon DEF RefreshInv, Known, LeaseTyped
  <2>4. stored \in Versions /\ hot \in Versions \cup {NoProfile}
    BY <1>2, Zenon DEF RefreshInv, ArchiveTyped
  <2>5. stored.stamp \in Nat /\ hot.revision \in Int
    BY <2>4, NoProfileIs DEF Versions
  <2>6. GoesForward
    BY <2>1, <2>5 DEF GoesForward
  <2> QED
    BY <2>2, <2>3, <2>6, Zenon DEF RefreshInv
<1> QED
  BY <1>1, <1>2, Zenon

\* What the profiles rest on holds in every behaviour of the refresh.
LEMMA RefreshInvariance == RefreshSpec => [](RefreshInv) /\ [][GoesForward]_refresh
<1>1. RefreshInit => RefreshInv
  BY RefreshBegins
<1>2. RefreshInv /\ [RefreshNext]_refresh => RefreshInv'
  BY RefreshStepKeeps
<1>3. RefreshInv /\ [RefreshNext]_refresh => [GoesForward]_refresh
  BY RefreshStepKeeps
<1> QED
  BY <1>1, <1>2, <1>3, PTL DEF RefreshSpec

\* In the composition every step is one of the refresh, or none of its variables change.
LEMMA WorkRunsRefresh == WorkSpec => RefreshSpec
<1>1. WorkInit => RefreshInit
  BY Zenon DEF WorkInit
<1>2. [WorkNext]_work => [RefreshNext]_refresh
  BY Zenon DEF WorkNext, work, ByWriters, ByRefresh, ByIdentities, ByGateways
<1> QED
  BY <1>1, <1>2, PTL DEF WorkSpec, RefreshSpec

\* The same for the writes.
LEMMA WorkRunsWrites == WorkSpec => Spec
<1>1. WorkInit => Init
  BY Zenon DEF WorkInit
<1>2. [WorkNext]_work => [Next]_vars
  BY Zenon DEF WorkNext, work, ByWriters, ByRefresh, ByIdentities, ByGateways
<1> QED
  BY <1>1, <1>2, PTL DEF WorkSpec, Spec

\* For any number of transfers, failures, early ends of leases and restarts: what the
\* runtime keeps in memory was committed to the archive, never of a transaction that was
\* rolled back, and neither the archive nor the memory takes something older for
\* something newer, though a late answer comes from a lane whose lease is another's, and
\* rows are read before they are put into memory (personnel_archive.py, _affiliation;
\* personnel_runtime.py, _remember).
THEOREM ProfilesCommitted == WorkSpec => ProfilesAreCommitted
<1>1. RefreshInv => HotIsCommitted
  <2> SUFFICES ASSUME RefreshInv, hot # NoProfile
               PROVE  identified /\ hot.revision <= stored.revision
                      /\ (hot.revision = stored.revision => hot = stored)
    BY Zenon DEF HotIsCommitted
  <2>1. identified
    BY Zenon DEF RefreshInv, Known
  <2>2. IsOf(hot, stored)
    BY Zenon DEF RefreshInv, ReadWasCommitted
  <2> QED
    BY <2>1, <2>2, Zenon DEF IsOf
<1>2. GoesForward => /\ stored.stamp <= stored'.stamp
                     /\ hot' # NoProfile => hot.revision <= hot'.revision
  BY DEF GoesForward
<1> QED
  BY <1>1, <1>2, WorkRunsRefresh, RefreshInvariance, PTL DEF ProfilesAreCommitted, ProfilesNeverGoBack

\* The state of the refresh keeps its types.
THEOREM RefreshTypesCorrect == WorkSpec => []RefreshTypeOK
<1>1. RefreshInv => RefreshTypeOK
  <2> SUFFICES ASSUME RefreshInv
               PROVE  RefreshTypeOK
    OBVIOUS
  <2>1. /\ affiliation \in Nat /\ stored \in Versions /\ lookup \in Asking
        /\ hot \in Versions \cup {NoProfile}
        /\ batch \in [Lanes -> Asking \cup Reads]
    BY Zenon DEF RefreshInv, ArchiveTyped
  <2>2. \A lane \in Lanes : batch[lane] \in Asking \cup Reads
    BY <2>1
  <2>3. job \in {NoJob} \cup Leases
    BY Zenon DEF RefreshInv, LeaseTyped
  <2>4. identified \in BOOLEAN /\ sighted \in {"not yet", "now", "gone"}
    BY Zenon DEF RefreshInv
  <2> QED
    BY <2>1, <2>2, <2>3, <2>4, Zenon DEF RefreshTypeOK, Versions, Asking, Reads, Leases
<1> QED
  BY <1>1, WorkRunsRefresh, RefreshInvariance, PTL

\* All state of the server's background work keeps its types, for any numbers of threads,
\* rows, gateways, changes and failures.
THEOREM WorkTypesCorrect == WorkSpec => []WorkTypeOK
BY WorkRunsWrites, TypeCorrect, RefreshTypesCorrect, IdentityTypesCorrect, CacheTypeCorrect, PTL DEF WorkTypeOK
=============================================================================
