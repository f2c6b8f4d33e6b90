-------------------------------- MODULE IdCache --------------------------------
(***************************************************************************)
(* The identity cache of the ESI gateway (esi_gateway/id_cache.py), for    *)
(* one key: records in Redis and in PostgreSQL that gateways share, their  *)
(* requests, and in each gateway a thread that loads again what requests   *)
(* have found stale, under a lock in Redis that ends by itself.            *)
(*                                                                         *)
(* A record is the time its value was fetched at: the payload goes with    *)
(* it, and the counts of failures are written but never read.              *)
(***************************************************************************)
EXTENDS Integers, FiniteSets

CONSTANTS
    Gateways,       \* processes
    Ttl,            \* ttl_seconds
    StaleGrace,     \* stale_grace_seconds
    MaxTime,        \* bound on the time
    MaxReads,       \* bound on the requests
    MaxCacheFaults  \* bound on failures, locks that end too early, and restarts

ASSUME IdCacheAssumption ==
    {Ttl, StaleGrace} \subseteq Nat \ {0} /\ {MaxTime, MaxReads, MaxCacheFaults} \subseteq Nat

\* No gateway's token is taken for that of none.
ASSUME TokenAssumption == "none" \notin Gateways

VARIABLES
    redis,      \* Redis
    durable,    \* PostgreSQL
    lock,       \* the key's lock in Redis: whose token
    tasks,      \* _pending of each gateway
    reader,     \* by gateway: its request in fetch_batch; known: what was told before it
    refresher,  \* by gateway: its thread in _refresh_group
    time,
    asked,      \* requests so far; the newest record told; whether one was refused
    trouble     \* faults so far; whether a store failed, loads overlapped, whose lock ended

caches == <<redis, durable, lock, tasks, reader, refresher, time, asked, trouble>>

-----------------------------------------------------------------------------
None == -1
NoToken == "none"

IsFresh(r, now) == r # None /\ now < r + Ttl

\* Mutant of IsStale: the grace is counted from the fetch.
IsStaleFromFetch(r, now) == r # None /\ r + Ttl <= now /\ now < r + StaleGrace

IsStale(r, now) == r # None /\ r + Ttl <= now /\ now < r + Ttl + StaleGrace

Usable(r, now) == IsFresh(r, now) \/ IsStale(r, now)

NoRead == [at |-> "free", begun |-> 0, known |-> None, record |-> None]
NoRefresh == [at |-> "idle", record |-> None]

Busy == {"load", "durable", "hot"}

\* From before a load to after its writes.
Refreshing == {g \in Gateways : refresher[g].at \in Busy}
Reading == {g \in Gateways : reader[g].at \in Busy}

Overlapping(g) == Refreshing # {} \/ Reading \ {g} # {}

HasFault == trouble.faults < MaxCacheFaults

Fault(store) ==
    HasFault /\ trouble' = [trouble EXCEPT !.faults = @ + 1, !.store = @ \/ store]

\* A store takes a record, or fails; PostgreSQL may do so too.
HotTakes(r) == (redis' = r /\ UNCHANGED trouble) \/ (Fault(TRUE) /\ UNCHANGED redis)
DurableTakes(r) == (durable' = r /\ UNCHANGED trouble) \/ (Fault(TRUE) /\ UNCHANGED durable)

-----------------------------------------------------------------------------
IdCacheInit ==
    /\ redis = None
    /\ durable = None
    /\ lock = NoToken
    /\ tasks = [g \in Gateways |-> "none"]
    /\ reader = [g \in Gateways |-> NoRead]
    /\ refresher = [g \in Gateways |-> NoRefresh]
    /\ time = 0
    /\ asked = [reads |-> 0, told |-> None, refused |-> FALSE]
    /\ trouble = [faults |-> 0, store |-> FALSE, crossed |-> FALSE, overrun |-> {}]

-----------------------------------------------------------------------------
(* A request *)

\* _enqueue: a key is queued once.
Enqueued(g) == [tasks EXCEPT ![g] = IF @ = "none" THEN "due" ELSE @]

Told(r) == [asked EXCEPT !.told = IF @ > r THEN @ ELSE r]

\* Redis is read first, if it answers.
ReadHot(g) ==
    /\ reader[g].at = "free"
    /\ asked.reads < MaxReads
    /\ \E r \in {redis, None} :
        /\ IF r = redis THEN UNCHANGED trouble ELSE Fault(TRUE)
        /\ IF IsFresh(r, time)
           THEN /\ asked' = [Told(r) EXCEPT !.reads = @ + 1]
                /\ UNCHANGED reader
           ELSE /\ asked' = [asked EXCEPT !.reads = @ + 1]
                /\ reader' = [reader EXCEPT ![g] =
                    [at |-> "read", begun |-> time, known |-> asked.told, record |-> r]]
    /\ UNCHANGED <<redis, durable, lock, tasks, refresher, time>>

\* PostgreSQL's record replaces that of Redis, in the answer and in Redis.
ReadDurable(g) ==
    /\ reader[g].at = "read"
    /\ \/ /\ durable # None
          /\ reader' = [reader EXCEPT ![g].at = "warm", ![g].record = durable]
          /\ UNCHANGED trouble
       \/ /\ reader' = [reader EXCEPT ![g].at = "decide"]
          /\ IF durable = None THEN UNCHANGED trouble ELSE Fault(TRUE)
    /\ UNCHANGED <<redis, durable, lock, tasks, refresher, time, asked>>

WarmHot(g) ==
    /\ reader[g].at = "warm"
    /\ HotTakes(reader[g].record)
    /\ reader' = [reader EXCEPT ![g].at = "decide"]
    /\ UNCHANGED <<durable, lock, tasks, refresher, time, asked>>

\* A value that was usable when the request came is told; a stale one makes a task.
Decide(g) ==
    LET r == reader[g].record
        begun == reader[g].begun
    IN  /\ reader[g].at = "decide"
        /\ tasks' = IF IsStale(r, begun) THEN Enqueued(g) ELSE tasks
        /\ IF Usable(r, begun)
           THEN /\ reader' = [reader EXCEPT ![g] = NoRead]
                /\ asked' = Told(r)
                /\ UNCHANGED trouble
           ELSE /\ reader' = [reader EXCEPT ![g].at = "load"]
                /\ trouble' = [trouble EXCEPT !.crossed = @ \/ Overlapping(g)]
                /\ UNCHANGED asked
        /\ UNCHANGED <<redis, durable, lock, refresher, time>>

\* Something was told before the request that is still within its grace.
WithinGrace(g) == reader[g].known # None /\ reader[g].begun < reader[g].known + Ttl + StaleGrace

\* ESI answers or fails.  After a failure the request has no value, even if it has
\* found a stale one in Redis; mark_failure reads Redis and will write what it read.
LoadMissing(g) ==
    /\ reader[g].at = "load"
    /\ \/ /\ reader' = [reader EXCEPT ![g].at = "durable", ![g].record = time]
          /\ UNCHANGED <<asked, trouble>>
       \/ /\ Fault(FALSE)
          /\ reader' = [reader EXCEPT ![g] = [NoRead EXCEPT !.at = "mark", !.record = redis]]
          /\ asked' = [asked EXCEPT !.refused =
                @ \/ (WithinGrace(g) /\ ~trouble.store /\ ~trouble.crossed)]
    /\ UNCHANGED <<redis, durable, lock, tasks, refresher, time>>

\* What was loaded goes to PostgreSQL, then to Redis, and is told in any case.
KeepLoaded(g) ==
    \/ /\ reader[g].at = "durable"
       /\ DurableTakes(reader[g].record)
       /\ reader' = [reader EXCEPT ![g].at = "hot"]
       /\ UNCHANGED <<redis, lock, tasks, refresher, time, asked>>
    \/ /\ reader[g].at = "hot"
       /\ HotTakes(reader[g].record)
       /\ reader' = [reader EXCEPT ![g] = NoRead]
       /\ asked' = Told(reader[g].record)
       /\ UNCHANGED <<durable, lock, tasks, refresher, time>>

\* RedisHotStore.mark_failure: what was read is put back, however old it is now.
MarkFailed(g) ==
    /\ reader[g].at = "mark"
    /\ reader' = [reader EXCEPT ![g] = NoRead]
    /\ redis' = IF reader[g].record = None THEN redis ELSE reader[g].record
    /\ UNCHANGED <<durable, lock, tasks, refresher, time, asked, trouble>>

-----------------------------------------------------------------------------
(* The thread that refreshes *)

\* acquire_lock: SET NX; if it is taken, or Redis is away, the task waits.
AcquireLock(g) ==
    /\ tasks[g] = "due" /\ refresher[g].at = "idle"
    /\ lock = NoToken
    /\ lock' = g
    /\ refresher' = [refresher EXCEPT ![g].at = "load"]
    /\ trouble' = [trouble EXCEPT !.crossed = @ \/ Reading # {} \/ Refreshing # {}]
    /\ UNCHANGED <<redis, durable, tasks, reader, time, asked>>

\* A failure puts the task off and marks the record.
PutOff(g) ==
    /\ tasks' = [tasks EXCEPT ![g] = "later"]
    /\ refresher' = [refresher EXCEPT ![g] = [at |-> "mark", record |-> redis]]

RefreshLoads(g) ==
    /\ refresher[g].at = "load"
    /\ \/ /\ refresher' = [refresher EXCEPT ![g] = [at |-> "durable", record |-> time]]
          /\ UNCHANGED <<tasks, trouble>>
       \/ Fault(FALSE) /\ PutOff(g)
       \/ /\ Fault(FALSE)           \* ESI leaves the key out
          /\ tasks' = [tasks EXCEPT ![g] = "later"]
          /\ refresher' = [refresher EXCEPT ![g].at = "release"]
    /\ UNCHANGED <<redis, durable, lock, reader, time, asked>>

\* Unlike a request's, a failed write fails the refresh.
RefreshKeeps(g) ==
    \/ /\ refresher[g].at = "durable"
       /\ \/ /\ durable' = refresher[g].record
             /\ refresher' = [refresher EXCEPT ![g].at = "hot"]
             /\ UNCHANGED <<tasks, trouble>>
          \/ Fault(TRUE) /\ PutOff(g) /\ UNCHANGED durable
       /\ UNCHANGED <<redis, lock, reader, time, asked>>
    \/ /\ refresher[g].at = "hot"
       /\ \/ /\ redis' = refresher[g].record
             /\ refresher' = [refresher EXCEPT ![g] = [at |-> "release", record |-> None]]
             /\ tasks' = [tasks EXCEPT ![g] = "none"]
             /\ UNCHANGED trouble
          \/ Fault(TRUE) /\ PutOff(g) /\ UNCHANGED redis
       /\ UNCHANGED <<durable, lock, reader, time, asked>>

RefreshMarks(g) ==
    /\ refresher[g].at = "mark"
    /\ refresher' = [refresher EXCEPT ![g] = [at |-> "release", record |-> None]]
    /\ redis' = IF refresher[g].record = None THEN redis ELSE refresher[g].record
    /\ UNCHANGED <<durable, lock, tasks, reader, time, asked, trouble>>

\* Mutant of Unlocked: the lock is deleted whoever holds it.
UnlockedAnyway(g) == NoToken

\* The script of release_lock deletes the lock of its own token only.
Unlocked(g) == IF lock = g THEN NoToken ELSE lock

ReleaseLock(g) ==
    /\ refresher[g].at = "release"
    /\ refresher' = [refresher EXCEPT ![g] = NoRefresh]
    /\ lock' = Unlocked(g)
    /\ trouble' = [trouble EXCEPT !.overrun = @ \ {g}]
    /\ UNCHANGED <<redis, durable, tasks, reader, time, asked>>

BackoffEnds(g) ==
    /\ tasks[g] = "later"
    /\ tasks' = [tasks EXCEPT ![g] = "due"]
    /\ UNCHANGED <<redis, durable, lock, reader, refresher, time, asked, trouble>>

-----------------------------------------------------------------------------
(* Time and restarts *)

\* A lock that nobody will release ends; one may also end while its holder is slow.
LockEnds ==
    /\ lock # NoToken
    /\ IF refresher[lock].at = "idle" THEN UNCHANGED trouble
       ELSE /\ HasFault
            /\ trouble' = [trouble EXCEPT !.faults = @ + 1, !.overrun = @ \cup {lock}]
    /\ lock' = NoToken
    /\ UNCHANGED <<redis, durable, tasks, reader, refresher, time, asked>>

\* Redis forgets a record at its stale_until.
HotForgets ==
    /\ redis # None /\ ~Usable(redis, time)
    /\ redis' = None
    /\ UNCHANGED <<durable, lock, tasks, reader, refresher, time, asked, trouble>>

TimePasses ==
    /\ time < MaxTime
    /\ time' = time + 1
    /\ UNCHANGED <<redis, durable, lock, tasks, reader, refresher, asked, trouble>>

\* A gateway starts again; its lock stays in Redis.
GatewayRestarts(g) ==
    /\ HasFault
    /\ trouble' = [trouble EXCEPT !.faults = @ + 1, !.overrun = @ \ {g}]
    /\ tasks' = [tasks EXCEPT ![g] = "none"]
    /\ reader' = [reader EXCEPT ![g] = NoRead]
    /\ refresher' = [refresher EXCEPT ![g] = NoRefresh]
    /\ UNCHANGED <<redis, durable, lock, time, asked>>

-----------------------------------------------------------------------------
ReadSteps(g) ==
    ReadHot(g) \/ ReadDurable(g) \/ WarmHot(g) \/ Decide(g) \/ LoadMissing(g) \/ KeepLoaded(g)
    \/ MarkFailed(g)

RefreshSteps(g) ==
    RefreshLoads(g) \/ RefreshKeeps(g) \/ RefreshMarks(g) \/ ReleaseLock(g)

IdCacheNext ==
    \/ \E g \in Gateways :
        \/ ReadSteps(g) \/ AcquireLock(g) \/ RefreshSteps(g) \/ BackoffEnds(g)
        \/ GatewayRestarts(g)
    \/ LockEnds \/ HotForgets \/ TimePasses

-----------------------------------------------------------------------------
IdCacheTypeOK ==
    /\ {redis, durable} \subseteq None..MaxTime
    /\ lock \in Gateways \cup {NoToken}
    /\ tasks \in [Gateways -> {"none", "due", "later"}]
    /\ reader \in [Gateways -> [at : {"free", "read", "warm", "decide", "mark"} \cup Busy,
                                begun : 0..MaxTime, known : None..MaxTime, record : None..MaxTime]]
    /\ refresher \in [Gateways -> [at : {"idle", "mark", "release"} \cup Busy,
                                   record : None..MaxTime]]
    /\ \A g \in Gateways : refresher[g].at \in Busy => tasks[g] = "due"

\* Gateways do not refresh the key at once, except those whose lock has ended while
\* they were at it: they do not release the lock of the next one (id_cache.py 603).
OneRefresh == Cardinality(Refreshing \ trouble.overrun) <= 1

\* While ESI fails, whoever asks within the grace of a value that somebody was told
\* gets it or a newer one - as long as the stores work and loads do not overlap,
\* whose writes may cross (id_cache.py 426).
OutageIsBridged == ~asked.refused

\* Tasks come to an end when failures do.
TasksEnd == \A g \in Gateways : tasks[g] = "none" /\ refresher[g].at = "idle"
=============================================================================
