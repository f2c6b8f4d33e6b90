---------------------------- MODULE AnalysisJobs ---------------------------
(***************************************************************************)
(* Reports on pilots, asked for in a QQ group: the message handler admits  *)
(* the names of a message one by one by a script in Redis and queues a job *)
(* for each, the workers write the reports and release what was admitted   *)
(* (src/bot/src/eve_risk/bot.py, admission.py, queueing.py, worker.py,     *)
(* storage.py).                                                            *)
(*                                                                         *)
(* A message with several names is a batch: its jobs share the lock of the *)
(* group and one global slot, and a counter frees both when the last job   *)
(* is released.  Everything in Redis has a time to live, so that a crash   *)
(* cannot hold a group for ever.                                           *)
(***************************************************************************)
EXTENDS Naturals, FiniteSets

CONSTANTS
    Orders,     \* messages that ask for reports
    Chats,        \* QQ groups
    Members,      \* who writes there
    MaxNames,     \* names in a message, at most (settings.max_characters)
    MaxActive,    \* messages under way, at most (settings.global_max_jobs)
    WorkerJobs,   \* jobs a worker runs at once (WorkerSettings.max_jobs)
    MaxHits       \* bound: messages that a crash or a failing call hits

Jobs == Orders \X (1..MaxNames)

NoOrder == "no message"

ASSUME AnalysisAssumption ==
    NoOrder \notin Orders /\ MaxNames \in Nat \ {0} /\ MaxActive \in Nat

VARIABLES
    asked,     \* [Orders -> how far the handler of each message is]
    jobs,      \* [Jobs -> where the report is, and whether the group was told]
    lock,      \* [Chats -> the message that holds the group]: limit:group
    count,     \* [Orders -> jobs of a batch not released]: limit:group-batch
    markers,   \* jobs of batches not released: limit:group-batch:...:job
    rated,     \* members who asked within a minute: limit:member
    active,    \* messages that hold a global slot: analysis:active
    overdue,   \* messages whose reply deadline is over
    hit        \* messages hit by a crash or a failing call

analysis == <<asked, jobs, lock, count, markers, rated, active, overdue, hit>>

JobsOf(m) == {j \in Jobs : j[1] = m /\ j[2] <= asked[m].size}

-----------------------------------------------------------------------------
AnalysisInit ==
    /\ asked = [m \in Orders |->
                   [step |-> "idle", chat |-> "none", member |-> "none",
                    size |-> 0, name |-> 1, told |-> FALSE]]
    /\ jobs = [j \in Jobs |-> [at |-> "none", told |-> FALSE]]
    /\ lock = [c \in Chats |-> NoOrder]
    /\ count = [m \in Orders |-> 0]
    /\ markers = {}
    /\ rated = {}
    /\ active = {}
    /\ overdue = {}
    /\ hit = {}

-----------------------------------------------------------------------------
(* The message handler.                                                    *)

\* on_group_at_message_create: a message comes; qq:event keeps one that QQ
\* delivers again from coming twice.
Ask(m, c, p, n) ==
    /\ asked[m].step = "idle"
    /\ asked' = [asked EXCEPT ![m] = [@ EXCEPT !.step = "admit", !.chat = c,
                                               !.member = p, !.size = n]]
    /\ UNCHANGED <<jobs, lock, count, markers, rated, active, overdue, hit>>

InBatch(m) == asked[m].size > 1

Owner(m) == lock[asked[m].chat]

\* ADMISSION_SCRIPT and BATCH_ADMISSION_SCRIPT: why the next name of m cannot
\* have a report now.
Refusal(m) ==
    CASE InBatch(m) /\ Owner(m) = m -> "none"
      [] InBatch(m) /\ Owner(m) \notin {m, NoOrder} -> "group_busy"
      [] asked[m].member \in rated /\ ~(InBatch(m) /\ Owner(m) = m) -> "member_rate"
      [] OTHER -> IF Owner(m) # NoOrder THEN "group_busy"
                  ELSE IF Cardinality(active) >= MaxActive THEN "global_busy"
                  ELSE "none"

\* The handler is through: it says why nothing was admitted, and nothing when
\* some name was.
Through(m) ==
    asked' = [asked EXCEPT ![m] = [@ EXCEPT !.step = "done",
                                            !.told = asked[m].name = 1]]

\* The name is refused, and with it those after it.
Refuse(m) ==
    /\ asked[m].step = "admit"
    /\ Refusal(m) # "none"
    /\ Through(m)
    /\ UNCHANGED <<jobs, lock, count, markers, rated, active, overdue, hit>>

\* The name is admitted: the first of a message takes the group, a slot and the
\* member's minute, the others of a batch are counted.
Admit(m) ==
    LET j == <<m, asked[m].name>>
        joins == InBatch(m) /\ Owner(m) = m
    IN  /\ asked[m].step = "admit"
        /\ Refusal(m) = "none"
        /\ asked' = [asked EXCEPT ![m].step = "enqueue"]
        /\ jobs' = [jobs EXCEPT ![j].at = "admitted"]
        /\ lock' = [lock EXCEPT ![asked[m].chat] = m]
        /\ rated' = rated \cup {asked[m].member}
        /\ active' = active \cup {m}
        /\ count' = [count EXCEPT ![m] = IF joins THEN @ + 1 ELSE 1]
        /\ markers' = IF InBatch(m) THEN markers \cup {j} ELSE markers
        /\ UNCHANGED <<overdue, hit>>

\* AnalysisQueue.enqueue, and on to the next name.
Enqueue(m) ==
    /\ asked[m].step = "enqueue"
    /\ jobs' = [jobs EXCEPT ![<<m, asked[m].name>>].at = "queued"]
    /\ asked' = [asked EXCEPT ![m] =
                    IF @.name < @.size
                    THEN [@ EXCEPT !.step = "admit", !.name = asked[m].name + 1]
                    ELSE [@ EXCEPT !.step = "done"]]
    /\ UNCHANGED <<lock, count, markers, rated, active, overdue, hit>>

\* Mutant of Release: any job of a batch frees the group.
ReleaseWithFirst(j) ==
    /\ lock' = [c \in Chats |-> IF lock[c] = j[1] THEN NoOrder ELSE lock[c]]
    /\ active' = active \ {j[1]}
    /\ markers' = markers \ {j}
    /\ count' = [count EXCEPT ![j[1]] = 0]

\* AdmissionController.release.  A batch frees the group and the slot with its
\* last job, and does nothing for a job whose marker is gone.
Release(j) ==
    LET m == j[1]
        mine == Owner(m) = m
        last == count[m] <= 1
    IN  IF ~InBatch(m)
        THEN /\ lock' = IF mine THEN [lock EXCEPT ![asked[m].chat] = NoOrder] ELSE lock
             /\ active' = active \ {m}
             /\ UNCHANGED <<count, markers>>
        ELSE /\ markers' = markers \ {j}
             /\ IF j \in markers /\ mine
                THEN /\ count' = [count EXCEPT ![m] = IF last THEN 0 ELSE @ - 1]
                     /\ lock' = IF last THEN [lock EXCEPT ![asked[m].chat] = NoOrder]
                                ELSE lock
                     /\ active' = IF last THEN active \ {m} ELSE active
                ELSE UNCHANGED <<count, lock, active>>

\* The queue does not take the job: what was admitted is released, and the
\* handler goes no further.
EnqueueFails(m) ==
    /\ asked[m].step = "enqueue"
    /\ Cardinality(hit) < MaxHits
    /\ hit' = hit \cup {m}
    /\ jobs' = [jobs EXCEPT ![<<m, asked[m].name>>].at = "closed"]
    /\ Release(<<m, asked[m].name>>)
    /\ Through(m)
    /\ UNCHANGED <<rated, overdue>>

\* The bot stops before it has queued the job: what was admitted stays.
HandlerDies(m) ==
    /\ asked[m].step = "enqueue"
    /\ Cardinality(hit) < MaxHits
    /\ hit' = hit \cup {m}
    /\ jobs' = [jobs EXCEPT ![<<m, asked[m].name>>].at = "lost"]
    /\ asked' = [asked EXCEPT ![m].step = "done"]
    /\ UNCHANGED <<lock, count, markers, rated, active, overdue>>

-----------------------------------------------------------------------------
(* The worker: run_analysis_job.                                           *)

Running == {j \in Jobs : jobs[j].at = "running"}

Start(j) ==
    /\ jobs[j].at = "queued"
    /\ Cardinality(Running) < WorkerJobs
    /\ jobs' = [jobs EXCEPT ![j].at = "running"]
    /\ UNCHANGED <<asked, lock, count, markers, rated, active, overdue, hit>>

\* The report is made and sent, from the cache or anew, or the reason why there
\* is none, and the job is released.  Past the deadline there is no word of an
\* error, and a report has a second to be sent.
Finish(j, told) ==
    /\ jobs[j].at = "running"
    /\ told \/ j[1] \in overdue
    /\ jobs' = [jobs EXCEPT ![j] = [at |-> "closed", told |-> told]]
    /\ Release(j)
    /\ UNCHANGED <<asked, rated, overdue, hit>>

\* job_timeout: the job is cancelled after five minutes, and released.
Cancel(j) ==
    /\ jobs[j].at = "running"
    /\ j[1] \in overdue
    /\ jobs' = [jobs EXCEPT ![j].at = "closed"]
    /\ Release(j)
    /\ UNCHANGED <<asked, rated, overdue, hit>>

\* A queued job that nobody started within 330 seconds is dropped (_expires).
Expire(j) ==
    /\ jobs[j].at = "queued"
    /\ j[1] \in overdue
    /\ Owner(j[1]) # j[1]
    /\ jobs' = [jobs EXCEPT ![j].at = "lost"]
    /\ UNCHANGED <<asked, lock, count, markers, rated, active, overdue, hit>>

\* The worker stops dead, before or after it has sent the report: max_tries is
\* one, the job is not run again, and nothing is released.
WorkerDies(j, told) ==
    /\ jobs[j].at = "running"
    /\ Cardinality(hit) < MaxHits
    /\ hit' = hit \cup {j[1]}
    /\ jobs' = [jobs EXCEPT ![j] = [at |-> "lost", told |-> told]]
    /\ UNCHANGED <<asked, lock, count, markers, rated, active, overdue>>

-----------------------------------------------------------------------------
(* Time.  The handler of a message is through within seconds.              *)

\* A minute after the member's last report.
MinuteOver(p) ==
    /\ p \in rated
    /\ \A m \in Orders : asked[m].member = p => asked[m].step \in {"idle", "done"}
    /\ rated' = rated \ {p}
    /\ UNCHANGED <<asked, jobs, lock, count, markers, active, overdue, hit>>

\* reply_deadline_at, after 270 seconds: a slot is no longer counted.
DeadlinePasses(m) ==
    /\ asked[m].step = "done"
    /\ m \notin overdue
    /\ m \in active
    /\ overdue' = overdue \cup {m}
    /\ active' = active \ {m}
    /\ UNCHANGED <<asked, jobs, lock, count, markers, rated, hit>>

\* group_job_ttl_seconds, after 330 seconds: the lock, the counter and the
\* markers of the message are gone.
KeysLapse(m) ==
    /\ m \in overdue
    /\ Owner(m) = m
    /\ lock' = [lock EXCEPT ![asked[m].chat] = NoOrder]
    /\ count' = [count EXCEPT ![m] = 0]
    /\ markers' = markers \ JobsOf(m)
    /\ UNCHANGED <<asked, jobs, rated, active, overdue, hit>>

-----------------------------------------------------------------------------
AnalysisSteps ==
    \/ \E m \in Orders :
          Refuse(m) \/ Admit(m) \/ Enqueue(m) \/ DeadlinePasses(m) \/ KeysLapse(m)
    \/ \E j \in Jobs :
          Start(j) \/ Cancel(j) \/ Expire(j) \/ \E told \in BOOLEAN : Finish(j, told)

AnalysisNext ==
    \/ \E m \in Orders, c \in Chats, p \in Members, n \in 1..MaxNames : Ask(m, c, p, n)
    \/ AnalysisSteps
    \/ \E m \in Orders : EnqueueFails(m) \/ HandlerDies(m)
    \/ \E j \in Jobs, told \in BOOLEAN : WorkerDies(j, told)
    \/ \E p \in Members : MinuteOver(p)

-----------------------------------------------------------------------------
AnalysisTypeOK ==
    /\ asked \in [Orders ->
           [step : {"idle", "admit", "enqueue", "done"}, chat : Chats \cup {"none"},
            member : Members \cup {"none"}, size : 0..MaxNames, name : 1..MaxNames,
            told : BOOLEAN]]
    /\ jobs \in [Jobs ->
           [at : {"none", "admitted", "queued", "running", "closed", "lost"},
            told : BOOLEAN]]
    /\ lock \in [Chats -> Orders \cup {NoOrder}]
    /\ count \in [Orders -> 0..MaxNames]
    /\ markers \subseteq Jobs /\ rated \subseteq Members
    /\ active \subseteq Orders /\ overdue \subseteq Orders /\ hit \subseteq Orders

\* Reports of m are being made.
UnderWay(m) == \E j \in JobsOf(m) : jobs[j].at \in {"admitted", "queued", "running"}

\* A group waits for one message at a time, and MaxActive messages are under
\* way in all, except for those whose deadline is over (admission.py 38-67).
ReportsTakeTurns ==
    /\ \A m1, m2 \in Orders \ overdue :
           UnderWay(m1) /\ UnderWay(m2) /\ asked[m1].chat = asked[m2].chat => m1 = m2
    /\ Cardinality({m \in Orders \ overdue : UnderWay(m)}) <= MaxActive

\* In the end no group is taken, nothing is under way, and each message has had
\* a word, a report or a reason, unless it was too late or hit by a crash
\* (bot.py 480-515, worker.py 330-360).
ReportsEnd ==
    /\ \A c \in Chats : lock[c] = NoOrder
    /\ \A m \in Orders :
           /\ asked[m].step \in {"idle", "done"}
           /\ ~UnderWay(m)
           /\ \/ asked[m].step = "idle"
              \/ asked[m].told
              \/ \E j \in JobsOf(m) : jobs[j].told
              \/ m \in overdue \cup hit
=============================================================================
