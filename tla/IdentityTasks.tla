---------------------------- MODULE IdentityTasks ----------------------------
(***************************************************************************)
(* The identities of the names that OCR has read.  A row of the active     *)
(* intel is enriched by a task of one worker thread (app/server/           *)
(* esi_worker.py), whose handler reads slowly and then writes under the    *)
(* store lock (intel_store.py, _process_ocr_esi_task).  Tasks come from    *)
(* uploads (postgres_store.py, record_ocr_snapshot), from the personnel    *)
(* runtime, which tells which profiles have changed (refresh_personnel),   *)
(* and from a restart.  Switching the personnel archive on or off replaces *)
(* what a handler reads from (personnel_control.py, personnel_routing.py). *)
(*                                                                         *)
(* The rows are those of one client.  A profile is the number of its last  *)
(* change; without the archive there is only the one ESI answers.          *)
(***************************************************************************)
EXTENDS Integers, Sequences, FiniteSets, SequencesExt

CONSTANTS
    Rows,           \* active_ids of the client's rows
    MaxUpdates,     \* bound on the changes of profiles
    MaxUploads,     \* bound on new frames and on refreshed rows
    MaxSwitches,    \* bound on the switches of the archive
    MaxTaskFaults   \* bound on failures, closings and restarts

ASSUME TaskBoundsAssumption == {MaxUpdates, MaxUploads, MaxSwitches, MaxTaskFaults} \subseteq Nat

\* No row's key is the sentinel of the worker's queue.
ASSUME RowsAssumption == IsFiniteSet(Rows) /\ "close" \notin Rows

VARIABLES
    archive,        \* "on" or "off"
    generation,     \* _personnel_generation
    profile,        \* the last change of the profiles
    changed,        \* _changed of the runtime, as rows
    force,          \* force_current
    row,            \* by row: "unseen", "active" or "gone"
    shows,          \* by row: the identity in it
    accepted,       \* rows whose upload has yet to submit their task
    queue,          \* the worker's queue
    pending,        \* _pending_keys
    thread,         \* the worker's thread
    task,           \* what its handler is doing
    closed,         \* _closed
    uploads,
    taskFaults,
    unrepaired,     \* a transaction has failed since the last repair of the state
    skipped         \* rows whose task has ended without a result

identities == <<archive, generation, profile, changed, force, row, shows, accepted, queue,
                pending, thread, task, closed, uploads, taskFaults, unrepaired, skipped>>

-----------------------------------------------------------------------------
NoIdentity == [generation |-> -1, profile |-> 0]

NoTask == [phase |-> "none"]

\* What a handler reads, and what a row ought to show.
Current == [generation |-> generation, profile |-> IF archive = "on" THEN profile ELSE 0]

Active == {k \in Rows : row[k] = "active"}

TaskFault == taskFaults < MaxTaskFaults /\ taskFaults' = taskFaults + 1

Upload == uploads < MaxUploads /\ uploads' = uploads + 1

\* submit: the keys it accepts.
Submitted(keys) == IF closed THEN {} ELSE keys \ pending

\* submit, for some keys one after the other; it starts a thread if none is alive.
SubmitAll(keys) ==
    \E order \in SetToSeqs(Submitted(keys)) :
        /\ queue' = queue \o order
        /\ pending' = pending \cup Submitted(keys)
        /\ thread' = IF order # <<>> /\ thread = "none" THEN "waiting" ELSE thread

\* personnel_task and the first lock of the handler: the route and the guards.
Pinned(k) ==
    [key |-> k, phase |-> IF row[k] = "active" THEN "reading" ELSE "returned",
     generation |-> generation, newFrame |-> FALSE, newRow |-> FALSE, value |-> NoIdentity]

IdentityInit ==
    /\ archive \in {"on", "off"} /\ generation = 0 /\ profile = 1
    /\ changed = {} /\ force = (archive = "on")
    /\ row = [k \in Rows |-> "unseen"] /\ shows = [k \in Rows |-> NoIdentity]
    /\ accepted = {} /\ queue = <<>> /\ pending = {}
    /\ thread = "none" /\ task = NoTask /\ closed = FALSE
    /\ uploads = 0 /\ taskFaults = 0 /\ unrepaired = FALSE /\ skipped = {}

-----------------------------------------------------------------------------
(* Uploads *)

\* record_ocr_snapshot, under the lock: a name whose identity is cached may
\* have a task, too, if the cache is stale.
Recognize(k, cached, stale) ==
    /\ row[k] = "unseen"
    /\ row' = [row EXCEPT ![k] = "active"]
    /\ shows' = [shows EXCEPT ![k] = IF cached THEN Current ELSE NoIdentity]
    /\ accepted' = IF cached /\ ~stale THEN accepted ELSE accepted \cup {k}
    /\ UNCHANGED <<archive, generation, profile, changed, force, queue, pending, thread,
                   task, closed, uploads, taskFaults, unrepaired, skipped>>

\* The end of record_ocr_snapshot; it is not reached if the transaction fails.
SubmitTask(k, written) ==
    /\ k \in accepted
    /\ accepted' = accepted \ {k}
    /\ IF written
       THEN SubmitAll({k}) /\ UNCHANGED <<taskFaults, unrepaired>>
       ELSE TaskFault /\ unrepaired' = TRUE /\ UNCHANGED <<queue, pending, thread>>
    /\ UNCHANGED <<archive, generation, profile, changed, force, row, shows, task, closed,
                   uploads, skipped>>

\* The end of a repair: _resume_pending_ocr_esi_tasks.
RepairState ==
    /\ unrepaired
    /\ unrepaired' = FALSE
    /\ SubmitAll({k \in Active : shows[k] = NoIdentity})
    /\ UNCHANGED <<archive, generation, profile, changed, force, row, shows, accepted, task,
                   closed, uploads, taskFaults, skipped>>

\* A presence with another capture, which capture_guard tells from the last.
NewFrame ==
    /\ task # NoTask /\ ~task.newFrame
    /\ Upload
    /\ task' = [task EXCEPT !.newFrame = TRUE]
    /\ UNCHANGED <<archive, generation, profile, changed, force, row, shows, accepted, queue,
                   pending, thread, closed, taskFaults, unrepaired, skipped>>

\* record_ocr_snapshot, of a row that is there: only last_seen_at changes.
SeenAgain ==
    /\ task # NoTask /\ ~task.newRow /\ row[task.key] = "active"
    /\ Upload
    /\ task' = [task EXCEPT !.newRow = TRUE]
    /\ UNCHANGED <<archive, generation, profile, changed, force, row, shows, accepted, queue,
                   pending, thread, closed, taskFaults, unrepaired, skipped>>

Leave(k) ==
    /\ row[k] = "active"
    /\ row' = [row EXCEPT ![k] = "gone"]
    /\ UNCHANGED <<archive, generation, profile, changed, force, shows, accepted, queue,
                   pending, thread, task, closed, uploads, taskFaults, unrepaired, skipped>>

-----------------------------------------------------------------------------
(* The worker's thread *)

\* Mutant of TakeTask: the key is given free as its handler begins.
TakeTaskFreeingKey ==
    /\ thread = "waiting" /\ queue # <<>> /\ Head(queue) # "close"
    /\ thread' = "busy"
    /\ task' = Pinned(Head(queue))
    /\ queue' = Tail(queue) /\ pending' = pending \ {Head(queue)}
    /\ UNCHANGED <<archive, generation, profile, changed, force, row, shows, accepted,
                   closed, uploads, taskFaults, unrepaired, skipped>>

\* The queue has a task: the handler begins.
TakeTask ==
    /\ thread = "waiting" /\ queue # <<>> /\ Head(queue) # "close"
    /\ thread' = "busy"
    /\ task' = Pinned(Head(queue))
    /\ queue' = Tail(queue)
    /\ UNCHANGED <<archive, generation, profile, changed, force, row, shows, accepted,
                   pending, closed, uploads, taskFaults, unrepaired, skipped>>

\* Up to the second lock: ESI, or the runtime's profiles.
ReadIdentity ==
    /\ task # NoTask /\ task.phase = "reading"
    /\ task' = [task EXCEPT !.phase = "read",
                            !.value = [Current EXCEPT !.generation = task.generation]]
    /\ UNCHANGED <<archive, generation, profile, changed, force, row, shows, accepted, queue,
                   pending, thread, closed, uploads, taskFaults, unrepaired, skipped>>

\* Mutant of Switched: a switch is not looked for.
NeverSwitched == FALSE

\* _personnel_read_current, of the handler.
Switched == task.generation # generation

\* The archive's results are checked against the row and the runtime's memory.
Late == archive = "on" /\ (task.newRow \/ task.value # Current)

\* The second lock.
WriteIdentity ==
    LET k == task.key
        dropped == task.newFrame \/ row[k] # "active"
    IN  /\ task # NoTask /\ task.phase = "read"
        /\ task' = [task EXCEPT !.phase = "returned"]
        /\ IF Switched
           THEN UNCHANGED <<changed, shows, skipped>>
           ELSE IF dropped
           THEN skipped' = skipped \cup {k} /\ UNCHANGED <<changed, shows>>
           ELSE IF Late
           THEN /\ changed' = IF shows[k] = NoIdentity THEN changed ELSE changed \cup {k}
                /\ skipped' = skipped \cup {k}
                /\ UNCHANGED shows
           ELSE /\ shows' = [shows EXCEPT ![k] = task.value]
                /\ UNCHANGED <<changed, skipped>>
        /\ UNCHANGED <<archive, generation, profile, force, row, accepted, queue, pending,
                       thread, closed, uploads, taskFaults, unrepaired>>

\* The loop of personnel_task, which takes the store lock once more.
ReturnTask ==
    /\ task # NoTask /\ task.phase = "returned"
    /\ task' = IF task.generation # generation
               THEN Pinned(task.key)
               ELSE [task EXCEPT !.phase = "done"]
    /\ UNCHANGED <<archive, generation, profile, changed, force, row, shows, accepted, queue,
                   pending, thread, closed, uploads, taskFaults, unrepaired, skipped>>

\* The handler raises: out of the loop of personnel_task, too.
FailTask ==
    /\ task # NoTask /\ task.phase \in {"reading", "read"}
    /\ TaskFault
    /\ task' = [task EXCEPT !.phase = "done"]
    /\ skipped' = skipped \cup {task.key}
    /\ UNCHANGED <<archive, generation, profile, changed, force, row, shows, accepted, queue,
                   pending, thread, closed, uploads, unrepaired>>

\* The finally of _run.
FinishTask ==
    /\ task # NoTask /\ task.phase = "done"
    /\ pending' = pending \ {task.key}
    /\ task' = NoTask /\ thread' = "waiting"
    /\ UNCHANGED <<archive, generation, profile, changed, force, row, shows, accepted, queue,
                   closed, uploads, taskFaults, unrepaired, skipped>>

\* queue.Empty: the lock is yet to be taken.
TimeOut ==
    /\ thread = "waiting" /\ queue = <<>>
    /\ thread' = "timed out"
    /\ UNCHANGED <<archive, generation, profile, changed, force, row, shows, accepted, queue,
                   pending, task, closed, uploads, taskFaults, unrepaired, skipped>>

\* Mutant of TimedOut: the thread ends whatever has come meanwhile.
TimedOutAnyway ==
    /\ thread = "timed out"
    /\ thread' = "none"
    /\ UNCHANGED <<archive, generation, profile, changed, force, row, shows, accepted, queue,
                   pending, task, closed, uploads, taskFaults, unrepaired, skipped>>

TimedOut ==
    /\ thread = "timed out"
    /\ thread' = IF closed \/ pending = {} THEN "none" ELSE "waiting"
    /\ UNCHANGED <<archive, generation, profile, changed, force, row, shows, accepted, queue,
                   pending, task, closed, uploads, taskFaults, unrepaired, skipped>>

\* close: nothing is taken any more, and the thread ends after the waiting tasks.
Close ==
    /\ ~closed /\ TaskFault
    /\ closed' = TRUE
    /\ queue' = IF thread = "none" THEN queue ELSE Append(queue, "close")
    /\ UNCHANGED <<archive, generation, profile, changed, force, row, shows, accepted,
                   pending, thread, task, uploads, unrepaired, skipped>>

TakeSentinel ==
    /\ thread = "waiting" /\ queue # <<>> /\ Head(queue) = "close"
    /\ thread' = "none" /\ queue' = Tail(queue)
    /\ UNCHANGED <<archive, generation, profile, changed, force, row, shows, accepted,
                   pending, task, closed, uploads, taskFaults, unrepaired, skipped>>

-----------------------------------------------------------------------------
(* The personnel runtime *)

\* _remember puts a newer profile into the runtime's memory.
UpdateProfile ==
    /\ archive = "on" /\ profile <= MaxUpdates
    /\ profile' = profile + 1
    /\ changed' = Rows
    /\ UNCHANGED <<archive, generation, force, row, shows, accepted, queue, pending, thread,
                   task, closed, uploads, taskFaults, unrepaired, skipped>>

\* A pass of the runtime's thread calls refresh_personnel, now and then for all
\* rows, and after a task was refused for all again.
Callback(all) ==
    LET keys == {k \in Active : all \/ k \in changed \/ shows[k] = NoIdentity}
    IN  /\ archive = "on" /\ ~closed
        /\ force => all
        /\ SubmitAll(keys)
        /\ changed' = {}
        /\ force' = (keys \cap pending # {})
        /\ UNCHANGED <<archive, generation, profile, row, shows, accepted, task, closed,
                       uploads, taskFaults, unrepaired, skipped>>

\* publish, with a new runtime or none.
Switch ==
    /\ generation < MaxSwitches /\ ~closed
    /\ generation' = generation + 1
    /\ archive' = IF archive = "on" THEN "off" ELSE "on"
    /\ changed' = {} /\ force' = (archive' = "on")
    /\ UNCHANGED <<profile, row, shows, accepted, queue, pending, thread, task, closed,
                   uploads, taskFaults, unrepaired, skipped>>

\* A crash or the end of the server, and _resume_pending_ocr_esi_tasks; the
\* uploads whose transaction has not ended are lost.
RestartIdentities(lost) ==
    LET resumed == {k \in Active \ lost : shows[k] = NoIdentity}
    IN  /\ TaskFault
        /\ row' = [k \in Rows |-> IF k \in lost THEN "gone" ELSE row[k]]
        /\ \E order \in SetToSeqs(resumed) : queue' = order
        /\ pending' = resumed
        /\ thread' = IF resumed = {} THEN "none" ELSE "waiting"
        /\ changed' = {} /\ force' = (archive = "on")
        /\ accepted' = {} /\ unrepaired' = FALSE /\ skipped' = {}
        /\ task' = NoTask /\ closed' = FALSE
        /\ UNCHANGED <<archive, generation, profile, shows, uploads>>

-----------------------------------------------------------------------------
WorkerSteps ==
    TakeTask \/ ReadIdentity \/ WriteIdentity \/ ReturnTask \/ FinishTask
    \/ TimeOut \/ TimedOut \/ TakeSentinel

IdentityNext ==
    \/ \E k \in Rows :
        \/ \E cached, flag \in BOOLEAN : Recognize(k, cached, flag)
        \/ \E written \in BOOLEAN : SubmitTask(k, written)
        \/ Leave(k)
    \/ NewFrame \/ SeenAgain \/ RepairState
    \/ WorkerSteps \/ FailTask \/ Close
    \/ UpdateProfile \/ (\E all \in BOOLEAN : Callback(all)) \/ Switch
    \/ \E lost \in {{}, accepted} : RestartIdentities(lost)

-----------------------------------------------------------------------------
IdentityTypeOK ==
    LET identity == [generation : Nat, profile : Nat] \cup {NoIdentity}
    IN  /\ archive \in {"on", "off"} /\ generation \in Nat /\ profile \in Nat
        /\ UNION {changed, accepted, pending, skipped} \subseteq Rows
        /\ {force, closed, unrepaired} \subseteq BOOLEAN
        /\ \A k \in Rows : row[k] \in {"unseen", "active", "gone"} /\ shows[k] \in identity
        /\ ToSet(queue) \subseteq Rows \cup {"close"}
        /\ thread \in {"none", "waiting", "timed out", "busy"}
        /\ (thread = "busy") = (task # NoTask)
        /\ task # NoTask => task.value \in identity /\ task.key \in pending

\* A key the worker remembers is in its queue once, or in its hands, and a
\* thread will come to it: an idle thread that ends as a task comes would leave
\* the key behind, and the key would refuse every task of its row
\* (esi_worker.py 37).
NoStrandedTask ==
    LET waiting == ToSet(queue) \ {"close"}
        handled == IF task = NoTask THEN {} ELSE {task.key}
    IN  /\ pending = waiting \cup handled
        /\ waiting \cap handled = {} /\ IsInjective(queue)
        /\ ~closed /\ pending # {} => thread # "none"

\* What is written to a row, or recognized, is of the archive of this moment and
\* up to date there, however long the handler has read and whatever was
\* switched meanwhile (personnel_control.py 21).
NothingLate ==
    [][\A k \in Rows : shows'[k] # shows[k] => shows'[k] = Current]_identities

\* A row waits for its identity in vain only after its task has failed or a new
\* frame or a change of the row has ended it; a switch never does that.
PendingIsWorkedOn ==
    ~closed /\ ~unrepaired =>
        \A k \in Active : shows[k] = NoIdentity => k \in accepted \cup pending \cup skipped

\* Both: a task that is known is in somebody's hands, and what waits is known.
TasksAreServed == NoStrandedTask /\ PendingIsWorkedOn

\* With the archive every row comes to show the profile of this moment, also after
\* failures and switches; without, a closed worker's thread comes to its end
\* (esi_worker.py 58).
IdentitiesSettle ==
    IF closed THEN thread = "none"
    ELSE archive = "on" => \A k \in Active : shows[k] = Current
=============================================================================
