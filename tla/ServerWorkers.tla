---------------------------- MODULE ServerWorkers ---------------------------
(***************************************************************************)
(* The background work of the server: the writes to its database, the      *)
(* refresh of the personnel archive, the identities of the names that OCR  *)
(* has read, and the cache of the gateway that stands between it and ESI.  *)
(* Each waits for the others at its ends only, so each is put to work      *)
(* alone.                                                                  *)
(***************************************************************************)
EXTENDS WriteQueue, PersonnelRefresh, IdentityTasks, IdCache

VARIABLE worker     \* which of them works, for good

work == <<vars, refresh, identities, caches, worker>>

-----------------------------------------------------------------------------
WorkInit ==
    /\ Init
    /\ RefreshInit
    /\ IdentityInit
    /\ IdCacheInit
    /\ worker \in {"writes", "refresh", "identities", "gateway"}
    /\ worker # "identities" => archive = "off"    \* one start is enough

ByWriters(step) == worker = "writes" /\ step /\ UNCHANGED <<refresh, identities, caches, worker>>

ByRefresh(step) == worker = "refresh" /\ step /\ UNCHANGED <<vars, identities, caches, worker>>

ByIdentities(step) == worker = "identities" /\ step /\ UNCHANGED <<vars, refresh, caches, worker>>

ByGateways(step) == worker = "gateway" /\ step /\ UNCHANGED <<vars, refresh, identities, worker>>

WorkNext ==
    \/ ByWriters(Next)
    \/ ByRefresh(RefreshNext)
    \/ ByIdentities(IdentityNext)
    \/ ByGateways(IdCacheNext)

WorkSpec == WorkInit /\ [][WorkNext]_work

\* Beside the writes: the runtime's thread goes round every second, where it
\* drains requests, starts batches for the realtime lane and calls back; leases and
\* the time to a refresh end; the enrichment thread works off its queue, and an
\* upload that was written submits its tasks.  A gateway's thread goes round every
\* five seconds, and a lock ends.
WorkFairness ==
    /\ \A t \in Threads : WF_vars(worker = "writes" /\ Begin(t)) /\ WF_vars(worker = "writes" /\ Finish(t))
    /\ WF_refresh(worker = "refresh" /\ Drain)
    /\ WF_refresh(worker = "refresh" /\ ComesDue)
    /\ WF_refresh(worker = "refresh" /\ Claim("realtime"))
    /\ \A lane \in Lanes : WF_refresh(worker = "refresh" /\ LaneStep(lane))
    /\ WF_refresh(worker = "refresh" /\ LeaseEnds(FALSE))
    /\ WF_identities(worker = "identities" /\ WorkerSteps)
    /\ WF_identities(worker = "identities" /\ Callback(TRUE))
    /\ WF_identities(worker = "identities" /\ (\E k \in Rows : SubmitTask(k, TRUE)))
    /\ \A g \in Gateways : WF_caches(worker = "gateway" /\ AcquireLock(g))
    /\ \A g \in Gateways : WF_caches(worker = "gateway" /\ RefreshSteps(g)) /\ WF_caches(worker = "gateway" /\ BackoffEnds(g))
    /\ WF_caches(worker = "gateway" /\ LockEnds)

FairWorkSpec == WorkSpec /\ WorkFairness

-----------------------------------------------------------------------------
WorkTypeOK == TypeOK /\ RefreshTypeOK /\ IdentityTypeOK /\ IdCacheTypeOK

\* Every write that took a ticket gets its transaction; and when characters stop
\* moving and requests stop failing, a character in a window gets its newest
\* profile and every row the newest identity; and a key that a gateway has found
\* stale is loaded again (postgres_store.py 841, personnel_runtime.py 376,
\* personnel_routing.py 23, id_cache.py 590).
WorkSettles == <>[](CallsReturn /\ HotIsCurrent /\ IdentitiesSettle /\ TasksEnd)
=============================================================================
