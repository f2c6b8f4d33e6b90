-------------------------- MODULE PersonnelRefresh --------------------------
(***************************************************************************)
(* The archive of a character's affiliation and its refresh.  Jobs in      *)
(* PostgreSQL are leased to the realtime and the background lane of the    *)
(* runtime (app/esi/personnel_archive.py, personnel_batches.py), which ask *)
(* ESI, commit, and copy what is committed into the hot cache that the     *)
(* server reads (personnel_runtime.py).  A profile asked for by its id is  *)
(* fetched and saved without a lease when nobody knows it.                 *)
(*                                                                         *)
(* There is one character and the job of its affiliation.  Every change of *)
(* the affiliation has a number, which also stands for the time it was     *)
(* fetched at.  The name is resolved by a job like this one, in one step.  *)
(***************************************************************************)
EXTENDS Integers

CONSTANTS
    MaxTransfers,       \* bound on the changes of the affiliation
    MaxRefreshFaults    \* bound on failed batches and look-ups, leases that end
                        \* too early, and restarts of the server

ASSUME RefreshBoundsAssumption == {MaxTransfers, MaxRefreshFaults} \subseteq Nat

VARIABLES
    affiliation,    \* what ESI answers
    identified,     \* the archive has the character's profile
    stored,         \* its affiliation there, 0 if none yet, and its revision
    job,            \* the row of the affiliation's job
    batch,          \* what each lane is doing
    lookup,         \* the look-up by id
    hot,            \* the profile in the runtime's memory
    sighted,        \* "not yet", "now" in a window, or "gone"
    refreshFaults

refresh == <<affiliation, identified, stored, job, batch, lookup, hot, sighted, refreshFaults>>

-----------------------------------------------------------------------------
Lanes == {"realtime", "background"}

NoProfile == [stamp |-> 0, revision |-> -1]
NoJob == [lane |-> "none"]
Idle == [phase |-> "idle"]
At(phase, stamp) == [phase |-> phase, stamp |-> stamp]

RefreshFault ==
    /\ refreshFaults < MaxRefreshFaults
    /\ refreshFaults' = refreshFaults + 1

\* Mutant of Saved: a late answer replaces a newer one.
SavedUnordered(old, stamp) ==
    IF old.stamp = stamp THEN old ELSE [stamp |-> stamp, revision |-> old.revision + 1]

\* _affiliation: only what was fetched later is saved.
Saved(old, stamp) ==
    IF old.stamp >= stamp THEN old ELSE [stamp |-> stamp, revision |-> old.revision + 1]

\* _remember: a row that was read before a newer revision came is dropped.
Remembered(old, row) == IF old.revision > row.revision THEN old ELSE row

\* schedule_profiles: personnel_tier of the character, and whether it is due.
Tier == IF sighted = "now" THEN "realtime" ELSE "background"

\* expedite_stale_affiliation, and request_refresh_many with promote_only.
Scheduled(row, tier, overdue) ==
    LET due == row.due \/ (overdue /\ ~row.failing)
        expedited == due /\ ~row.due /\ ~row.live
        promoted == tier = "realtime" /\ row.lane = "background"
    IN  IF row = NoJob
        THEN [lane |-> tier, due |-> overdue, failing |-> FALSE,
              holder |-> "none", live |-> FALSE, bumped |-> FALSE]
        ELSE IF expedited \/ promoted
        THEN [row EXCEPT !.due = due, !.bumped = TRUE,
                         !.lane = IF promoted THEN "realtime" ELSE @]
        ELSE row

\* finish: a job that was promoted meanwhile keeps its new schedule.
Finished(row) ==
    [row EXCEPT !.holder = "none", !.live = FALSE, !.failing = FALSE, !.bumped = FALSE,
                !.due = IF row.bumped THEN @ ELSE FALSE,
                !.lane = IF row.bumped THEN @ ELSE Tier]

\* fail: tried again after a while.
Failed(row) ==
    [row EXCEPT !.holder = "none", !.live = FALSE, !.failing = TRUE, !.due = FALSE]

Holds(lane) == job # NoJob /\ job.live /\ job.holder = lane

-----------------------------------------------------------------------------
RefreshInit ==
    /\ affiliation = 1
    /\ identified = FALSE
    /\ stored = [stamp |-> 0, revision |-> 0]
    /\ job = NoJob
    /\ batch = [lane \in Lanes |-> Idle]
    /\ lookup = Idle
    /\ hot = NoProfile
    /\ sighted = "not yet"
    /\ refreshFaults = 0

Transfer ==
    /\ affiliation <= MaxTransfers
    /\ affiliation' = affiliation + 1
    /\ UNCHANGED <<identified, stored, job, batch, lookup, hot, sighted, refreshFaults>>

\* refresh_personnel calls set_active with the names in the windows.
SetActive ==
    /\ \/ sighted = "not yet" /\ sighted' = "now"
       \/ sighted = "now" /\ sighted' = "gone"
    /\ UNCHANGED <<affiliation, identified, stored, job, batch, lookup, hot, refreshFaults>>

\* drain_requests, for the names that are active; an unknown one is resolved.
Drain ==
    /\ sighted = "now"
    /\ identified' = TRUE
    /\ hot' = Remembered(hot, stored)
    /\ job' = Scheduled(job, Tier, stored.stamp = 0)
    /\ UNCHANGED <<affiliation, stored, batch, lookup, sighted, refreshFaults>>

\* maintenance and the promotion of a profile read from the archive.
Maintain ==
    /\ identified
    /\ job' = Scheduled(job, Tier, stored.stamp = 0)
    /\ job' # job
    /\ UNCHANGED <<affiliation, identified, stored, batch, lookup, hot, sighted, refreshFaults>>

\* An hour, or the time after a failure, has passed.
ComesDue ==
    /\ job # NoJob /\ ~job.due
    /\ job' = [job EXCEPT !.due = TRUE]
    /\ UNCHANGED <<affiliation, identified, stored, batch, lookup, hot, sighted, refreshFaults>>

-----------------------------------------------------------------------------
(* A lane's batch *)

\* Mutant of Claimable: a lease ends only with the batch that took it.
ClaimableWhenReleased(lane) ==
    /\ job # NoJob /\ job.lane = lane
    /\ job.due /\ job.holder = "none"

Claimable(lane) ==
    /\ job # NoJob /\ job.lane = lane
    /\ job.due /\ ~job.live

\* claim, in run_batch.
Claim(lane) ==
    /\ batch[lane] = Idle
    /\ Claimable(lane)
    /\ job' = [job EXCEPT !.holder = lane, !.live = TRUE, !.bumped = FALSE]
    /\ batch' = [batch EXCEPT ![lane] = At("asking", 0)]
    /\ UNCHANGED <<affiliation, identified, stored, lookup, hot, sighted, refreshFaults>>

Ask(lane) ==
    /\ batch[lane].phase = "asking"
    /\ batch' = [batch EXCEPT ![lane] = At("answered", affiliation)]
    /\ UNCHANGED <<affiliation, identified, stored, job, lookup, hot, sighted, refreshFaults>>

\* commit_refresh_batch, the transaction: a late result is not written.
CommitBatch(lane) ==
    /\ batch[lane].phase = "answered"
    /\ IF Holds(lane)
       THEN /\ stored' = Saved(stored, batch[lane].stamp)
            /\ job' = Finished(job)
            /\ batch' = [batch EXCEPT ![lane] = At("committed", 0)]
       ELSE /\ batch' = [batch EXCEPT ![lane] = Idle]
            /\ UNCHANGED <<stored, job>>
    /\ UNCHANGED <<affiliation, identified, lookup, hot, sighted, refreshFaults>>

\* After the transaction: get_profiles, then _remember.
ReadBack(lane) ==
    /\ batch[lane].phase = "committed"
    /\ batch' = [batch EXCEPT ![lane] = [phase |-> "read", row |-> stored]]
    /\ UNCHANGED <<affiliation, identified, stored, job, lookup, hot, sighted, refreshFaults>>

Publish(lane) ==
    /\ batch[lane].phase = "read"
    /\ hot' = Remembered(hot, batch[lane].row)
    /\ batch' = [batch EXCEPT ![lane] = Idle]
    /\ UNCHANGED <<affiliation, identified, stored, job, lookup, sighted, refreshFaults>>

\* except Exception in run_batch, at ESI or the database, before or after the
\* commit; noting the failure may fail, too.
FailBatch(lane, noted) ==
    /\ batch[lane] # Idle
    /\ RefreshFault
    /\ batch' = [batch EXCEPT ![lane] = Idle]
    /\ job' = IF noted /\ Holds(lane) THEN Failed(job) ELSE job
    /\ UNCHANGED <<affiliation, identified, stored, lookup, hot, sighted>>

\* After 90 seconds: nobody has finished, or the batch is still at work.
LeaseEnds(early) ==
    /\ job # NoJob /\ job.live
    /\ early = (batch[job.holder].phase \in {"asking", "answered"})
    /\ job' = [job EXCEPT !.live = FALSE]
    /\ IF early THEN RefreshFault ELSE UNCHANGED refreshFaults
    /\ UNCHANGED <<affiliation, identified, stored, batch, lookup, hot, sighted>>

-----------------------------------------------------------------------------
(* character_profile of an id nobody knows *)

\* ESI names the character, and save_identity.
LookUp ==
    /\ lookup = Idle /\ hot = NoProfile /\ ~identified
    /\ identified' = TRUE
    /\ lookup' = At("asking", 0)
    /\ UNCHANGED <<affiliation, stored, job, batch, hot, sighted, refreshFaults>>

AskOnce ==
    /\ lookup.phase = "asking"
    /\ lookup' = At("answered", affiliation)
    /\ UNCHANGED <<affiliation, identified, stored, job, batch, hot, sighted, refreshFaults>>

\* save_affiliation, without a lease; not if ESI has failed.
SaveOnce(answered) ==
    /\ lookup # Idle
    /\ IF answered
       THEN /\ lookup.phase = "answered"
            /\ stored' = Saved(stored, lookup.stamp)
            /\ UNCHANGED refreshFaults
       ELSE RefreshFault /\ UNCHANGED stored
    /\ hot' = Remembered(hot, stored')
    /\ lookup' = Idle
    /\ UNCHANGED <<affiliation, identified, job, batch, sighted>>

\* The server restarts: what it has leased stays leased.
RestartServer ==
    /\ RefreshFault
    /\ batch' = [lane \in Lanes |-> Idle]
    /\ lookup' = Idle
    /\ hot' = NoProfile
    /\ UNCHANGED <<affiliation, identified, stored, job, sighted>>

-----------------------------------------------------------------------------
LaneStep(lane) == Ask(lane) \/ CommitBatch(lane) \/ ReadBack(lane) \/ Publish(lane)

RefreshNext ==
    \/ Transfer \/ SetActive \/ Drain \/ Maintain \/ ComesDue
    \/ \E lane \in Lanes :
        \/ Claim(lane) \/ LaneStep(lane)
        \/ \E noted \in BOOLEAN : FailBatch(lane, noted)
    \/ \E early \in BOOLEAN : LeaseEnds(early)
    \/ LookUp \/ AskOnce \/ \E answered \in BOOLEAN : SaveOnce(answered)
    \/ RestartServer

-----------------------------------------------------------------------------
RefreshTypeOK ==
    LET row == [stamp : Nat, revision : Nat]
        phases == {Idle} \cup [phase : {"asking", "answered", "committed"}, stamp : Nat]
    IN  /\ affiliation \in Nat /\ identified \in BOOLEAN
        /\ stored \in row
        /\ job \in {NoJob} \cup [lane : Lanes, due : BOOLEAN, failing : BOOLEAN, live : BOOLEAN,
                                 bumped : BOOLEAN, holder : Lanes \cup {"none"}]
        /\ \A lane \in Lanes : batch[lane] \in phases \cup [phase : {"read"}, row : row]
        /\ lookup \in phases
        /\ hot \in row \cup {NoProfile}
        /\ sighted \in {"not yet", "now", "gone"}

\* The hot copy is one the archive has had: never of a transaction that was
\* rolled back, and the archive's own while their revisions agree
\* (personnel_batches.py 97).
HotIsCommitted ==
    hot # NoProfile =>
        /\ identified
        /\ hot.revision <= stored.revision
        /\ hot.revision = stored.revision => hot = stored

\* A late answer, of a batch whose lease was taken over or of a look-up, never
\* undoes a later change in the archive (personnel_archive.py 243, 381), and the
\* runtime never forgets a revision for an older one, though rows are read before
\* they are put into memory (personnel_runtime.py 205).
ProfilesNeverGoBack ==
    [][/\ stored.stamp <= stored'.stamp
       /\ hot' # NoProfile => hot.revision <= hot'.revision]_refresh

\* Both: what is known of a character was committed, and nothing newer is
\* forgotten for it (personnel_runtime.py 205).
ProfilesAreCommitted == []HotIsCommitted /\ ProfilesNeverGoBack

\* The profile of a character in a window comes to be ESI's.
HotIsCurrent == sighted = "now" => hot.stamp = affiliation
=============================================================================
