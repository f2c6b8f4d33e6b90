------------------------------ MODULE OcrQuery ------------------------------
(***************************************************************************)
(* Reading the names in the monitoring windows.  One OCR slot serves all   *)
(* windows (client/app/engine/ocr_scheduler.py).  A window's worker asks   *)
(* for it when its roster changes (worker.py), and for a query of the QQ   *)
(* bot, which the server hands out in the answers to heartbeats until the  *)
(* window's result arrives (app/server/http_server.py) and the client      *)
(* dispatches, uploads and remembers (main_window.py).                     *)
(*                                                                         *)
(* There is one query.  What a worker signals is handled at once, unless   *)
(* the window's monitoring has been stopped: that disconnects the signals. *)
(* A stopped worker's request for the slot stays where it is, an orphan.   *)
(***************************************************************************)
EXTENDS Queues, SequencesExt

CONSTANTS
    QueryWindows,
    MaxRosters,     \* bound on the roster changes
    MaxMishaps      \* bound on the OCR passes that raise, the windows stopped or
                    \* closed, and the uploads whose answer is lost or a refusal

ASSUME QueryBoundsAssumption == {MaxRosters, MaxMishaps} \subseteq Nat

VARIABLES
    worker,     \* of each window: "on", "closing" (its loop has ended), "off"
    late,       \* windows with a stopped worker that has not asked yet
    retries,    \* ocr_retry_remaining
    unread,     \* windows whose changed roster has been neither read nor given up
    attempts,   \* the query in the worker: "none", "first", "second" attempt
    busy,       \* what the worker waits for the slot with, a set
    line,       \* requests waiting for the slot
    running,    \* the request in the slot
    job,        \* the query on the server: "none", "pending", "completed", "timed_out"
    targets,    \* the windows it asks
    results,    \* those whose result the server has
    expired,    \* the deadline has passed
    inbox,      \* the commands of a heartbeat's answer on its way
    inflight,   \* _ocr_query_inflight
    completed,  \* _ocr_query_completed
    upload,     \* the query's upload slot: "none", "pending", "taken" by the server
    uploaded,   \* how many results each window has submitted
    stranded,   \* windows whose command ended in a way nobody reports
    rosters,    \* roster changes so far
    mishaps

client == <<worker, late, retries, unread, attempts, busy>>
slot == <<line, running>>
server == <<job, targets, results, expired>>
ui == <<inbox, inflight, completed, upload, uploaded, stranded>>
budget == <<rosters, mishaps>>
query == <<client, slot, server, ui, budget>>

-----------------------------------------------------------------------------
Free == [window |-> "none"]
Names == {"roster"}         \* why a worker asks for the slot: the roster changed,
Query == {"query"}          \* the bot asks, or both

Mishap ==
    /\ mishaps < MaxMishaps
    /\ mishaps' = mishaps + 1
    /\ UNCHANGED rosters

\* A query goes first: priority 100, and 10 for the roster alone.
Request(w, wants, orphan) == [window |-> w, query |-> wants # Names, orphan |-> orphan, stale |-> FALSE]

\* What a new request cancels among those that wait.
Cancels(new, old) == old.window = new.window \/ (new.query /\ ~old.query)

\* Windows whose current worker waits with one of these requests.
Waiters(requests) == {r.window : r \in {x \in requests : ~x.orphan}}

\* recognize_with_boxes_latest: the requests it cancels, and what is left.
Cancelled(new) == {line[i] : i \in {j \in DOMAIN line : Cancels(new, line[j])}}

Enqueue(new) ==
    /\ line' = Append(Without(line, Cancelled(new)), new)
    /\ running' = IF running # Free /\ running.window = new.window
                  THEN [running EXCEPT !.stale = TRUE] ELSE running

\* Mutant of AfterFailure: there is always one more attempt.
AfterFailureOnceMore(w) == IF attempts[w] = "first" THEN "second" ELSE "third"

\* _record_ocr_query_failure: one more attempt, then ocr_query_failed.
AfterFailure(w) == IF attempts[w] = "first" THEN "second" ELSE "none"

Failing(ws) == {w \in ws : "query" \in busy[w]}

\* Mutant of FailQueries: the failure is not reported to the window.
FailQueriesQuietly(ws) ==
    /\ attempts' = [w \in QueryWindows |-> IF w \in Failing(ws) THEN AfterFailure(w) ELSE attempts[w]]
    /\ UNCHANGED inflight

\* _handle_ocr_query_failed: the command may be dispatched again.
FailQueries(ws) ==
    /\ attempts' = [w \in QueryWindows |-> IF w \in Failing(ws) THEN AfterFailure(w) ELSE attempts[w]]
    /\ inflight' = inflight \ {w \in Failing(ws) : attempts[w] = "second"}

\* Mutant of Supersede: a replaced frame counts as read.
SupersedeWithoutRetry(ws, asking, left) ==
    /\ busy' = [w \in QueryWindows |-> IF w \in ws THEN {} ELSE asking[w]]
    /\ retries' = [w \in QueryWindows |-> IF w \in ws THEN 0 ELSE left[w]]
    /\ FailQueries(ws)
    /\ UNCHANGED unread

\* except OCRRequestSuperseded, in the workers ws: the roster is read again.
Supersede(ws, asking, left) ==
    /\ busy' = [w \in QueryWindows |-> IF w \in ws THEN {} ELSE asking[w]]
    /\ retries' = [w \in QueryWindows |-> IF w \in ws THEN Max({1, left[w]}) ELSE left[w]]
    /\ FailQueries(ws)
    /\ UNCHANGED unread

-----------------------------------------------------------------------------
QueryInit ==
    /\ worker = [w \in QueryWindows |-> "on"]
    /\ late = {}
    /\ retries = [w \in QueryWindows |-> 0]
    /\ unread = {}
    /\ attempts = [w \in QueryWindows |-> "none"]
    /\ busy = [w \in QueryWindows |-> {}]
    /\ line = <<>> /\ running = Free
    /\ job = "none" /\ targets = {} /\ results = {} /\ expired = FALSE
    /\ inbox = {} /\ inflight = {} /\ completed = {}
    /\ upload = [w \in QueryWindows |-> "none"]
    /\ uploaded = [w \in QueryWindows |-> 0]
    /\ stranded = {}
    /\ rosters = 0 /\ mishaps = 0

-----------------------------------------------------------------------------
(* The workers and the slot *)

\* A frame with hostiles whose roster has changed.
RosterChanges(w) ==
    /\ worker[w] = "on" /\ busy[w] = {}
    /\ rosters < MaxRosters
    /\ rosters' = rosters + 1
    /\ retries' = [retries EXCEPT ![w] = 3]
    /\ unread' = unread \cup {w}
    /\ UNCHANGED <<worker, late, attempts, busy, slot, server, ui, mishaps>>

\* A frame without hostiles: there is nothing to read.
HostilesLeave(w) ==
    /\ busy[w] = {} /\ retries[w] > 0
    /\ retries' = [retries EXCEPT ![w] = 0]
    /\ unread' = unread \ {w}
    /\ UNCHANGED <<worker, late, attempts, busy, slot, server, ui, budget>>

\* A frame that asks for the slot.
Scan(w) ==
    LET wants == (IF retries[w] > 0 THEN Names ELSE {})
                 \cup (IF attempts[w] # "none" THEN Query ELSE {})
        new == Request(w, wants, FALSE)
    IN  /\ worker[w] = "on" /\ busy[w] = {}
        /\ wants # {}
        /\ Enqueue(new)
        /\ Supersede(Waiters(Cancelled(new)), [busy EXCEPT ![w] = wants],
                     [retries EXCEPT ![w] = Max({0, @ - 1})])
        /\ UNCHANGED <<worker, late, server, inbox, completed, upload, uploaded, stranded,
                       budget>>

\* A worker that was stopped after it had looked asks all the same.
LateScan(w) ==
    LET new == Request(w, Names, TRUE)
    IN  /\ w \in late
        /\ late' = late \ {w}
        /\ Enqueue(new)
        /\ Supersede(Waiters(Cancelled(new)), busy, retries)
        /\ UNCHANGED <<worker, server, inbox, completed, upload, uploaded, stranded, budget>>

StartOcr ==
    /\ running = Free /\ line # <<>>
    /\ running' = Head(line)
    /\ line' = Tail(line)
    /\ UNCHANGED <<client, server, ui, budget>>

\* The result of a request nobody waits for, or that a newer one replaced.
DropResult ==
    /\ running # Free /\ (running.orphan \/ running.stale)
    /\ running' = Free
    /\ Supersede(Waiters({running}), busy, retries)
    /\ UNCHANGED <<worker, late, line, server, inbox, completed, upload, uploaded, stranded,
                   budget>>

\* _publish_ocr_query_snapshot
Publish(w) ==
    IF w \in inflight /\ ~expired
    THEN /\ upload' = [upload EXCEPT ![w] = "pending"]
         /\ uploaded' = [uploaded EXCEPT ![w] = @ + 1]
    ELSE UNCHANGED <<upload, uploaded>>

\* The worker gets its names; a truncated or empty list is read again.
NamesRead(more) ==
    LET w == running.window
    IN  /\ running # Free /\ ~running.orphan /\ ~running.stale
        /\ running' = Free
        /\ busy' = [busy EXCEPT ![w] = {}]
        /\ IF Names \subseteq busy[w]
           THEN /\ retries' = [retries EXCEPT ![w] = IF more THEN 2 ELSE 0]
                /\ unread' = unread \ {w}
           ELSE ~more /\ UNCHANGED <<retries, unread>>
        /\ IF Query \subseteq busy[w]
           THEN attempts' = [attempts EXCEPT ![w] = "none"] /\ Publish(w)
           ELSE UNCHANGED <<attempts, upload, uploaded>>
        /\ UNCHANGED <<worker, late, line, server, inbox, inflight, completed, stranded,
                       budget>>

\* except Exception: the last retry gives the roster up.  The second failure of
\* a query is not counted as a mishap.
OcrFails ==
    LET w == running.window
    IN  /\ running # Free /\ ~running.orphan /\ ~running.stale
        /\ IF w \in Failing({w}) /\ attempts[w] = "second" THEN UNCHANGED budget ELSE Mishap
        /\ running' = Free
        /\ busy' = [busy EXCEPT ![w] = {}]
        /\ unread' = IF retries[w] = 0 THEN unread \ {w} ELSE unread
        /\ FailQueries({w})
        /\ UNCHANGED <<worker, late, retries, line, server, inbox, completed, upload, uploaded,
                       stranded>>

-----------------------------------------------------------------------------
(* Monitoring on and off *)

Orphaned(w) ==
    /\ line' = [i \in DOMAIN line |->
                    IF line[i].window = w THEN [line[i] EXCEPT !.orphan = TRUE] ELSE line[i]]
    /\ running' = IF running # Free /\ running.window = w
                  THEN [running EXCEPT !.orphan = TRUE] ELSE running

\* _reconcile_monitor_workers or _stop_monitor_workers takes the window out.
\* The query in the worker fails when the loop ends, but nobody hears it.
StopMonitoring(w) ==
    /\ worker[w] # "off"
    /\ Mishap
    /\ worker' = [worker EXCEPT ![w] = "off"]
    /\ late' = IF worker[w] = "on" /\ busy[w] = {} THEN late \cup {w} ELSE late
    /\ Orphaned(w)
    /\ retries' = [retries EXCEPT ![w] = 0]
    /\ unread' = unread \ {w}
    /\ attempts' = [attempts EXCEPT ![w] = "none"]
    /\ busy' = [busy EXCEPT ![w] = {}]
    /\ stranded' = IF attempts[w] # "none" THEN stranded \cup {w} ELSE stranded
    /\ UNCHANGED <<server, inbox, inflight, completed, upload, uploaded>>

\* TargetWindowClosed ends the loop; the query in the worker is reported failed.
WindowCloses(w) ==
    /\ worker[w] = "on" /\ busy[w] = {}
    /\ Mishap
    /\ worker' = [worker EXCEPT ![w] = "closing"]
    /\ retries' = [retries EXCEPT ![w] = 0]
    /\ unread' = unread \ {w}
    /\ attempts' = [attempts EXCEPT ![w] = "none"]
    /\ inflight' = IF attempts[w] # "none" THEN inflight \ {w} ELSE inflight
    /\ UNCHANGED <<late, busy, slot, server, inbox, completed, upload, uploaded, stranded>>

\* A thread whose loop has ended, or a stopped one, is gone; a query it took
\* since then goes with it.
WorkerEnds(w) ==
    /\ \/ worker[w] = "closing" /\ worker' = [worker EXCEPT ![w] = "off"] /\ UNCHANGED late
       \/ w \in late /\ late' = late \ {w} /\ UNCHANGED worker
    /\ IF worker[w] = "closing" /\ attempts[w] # "none"
       THEN stranded' = stranded \cup {w} /\ attempts' = [attempts EXCEPT ![w] = "none"]
       ELSE UNCHANGED <<stranded, attempts>>
    /\ UNCHANGED <<retries, unread, busy, slot, server, inbox, inflight, completed, upload,
                   uploaded, budget>>

StartMonitoring(w) ==
    /\ worker[w] = "off"
    /\ worker' = [worker EXCEPT ![w] = "on"]
    /\ UNCHANGED <<late, retries, unread, attempts, busy, slot, server, ui, budget>>

-----------------------------------------------------------------------------
(* The query *)

\* _create_ocr_query, for the monitored windows of a system or for all.
CreateQuery(asked) ==
    /\ job = "none"
    /\ asked # {} /\ \A w \in asked : worker[w] = "on"
    /\ job' = "pending"
    /\ targets' = asked
    /\ UNCHANGED <<client, slot, results, expired, ui, budget>>

\* _claim_ocr_query_commands, in the answer to a heartbeat.
ClaimCommands ==
    /\ job = "pending" /\ ~expired
    /\ inbox = {} /\ targets \ results # {}
    /\ inbox' = targets \ results
    /\ UNCHANGED <<client, slot, server, inflight, completed, upload, uploaded, stranded,
                   budget>>

\* The commands _handle_heartbeat_response accepts: not those known already.
Dispatched ==
    {w \in inbox \ (inflight \cup completed) :
        ~expired /\ worker[w] # "off" /\ attempts[w] = "none"}

\* _handle_heartbeat_response, with _dispatch_ocr_query and request_ocr_query.
HandleResponse ==
    /\ inbox # {}
    /\ inbox' = {}
    /\ attempts' = [w \in QueryWindows |-> IF w \in Dispatched THEN "first" ELSE attempts[w]]
    /\ inflight' = IF expired THEN {} ELSE inflight \cup Dispatched
    /\ completed' = IF expired THEN {} ELSE completed
    /\ UNCHANGED <<worker, late, retries, unread, busy, slot, server, upload, uploaded,
                   stranded, budget>>

\* _complete_ocr_query: a result for a query that is still pending.
ServerTakes(w) ==
    /\ upload[w] = "pending"
    /\ upload' = [upload EXCEPT ![w] = "taken"]
    /\ IF job = "pending"
       THEN /\ results' = results \cup {w}
            /\ job' = IF results' = targets THEN "completed" ELSE job
       ELSE UNCHANGED <<results, job>>
    /\ UNCHANGED <<client, slot, targets, expired, inbox, inflight, completed, uploaded,
                   stranded, budget>>

\* _handle_ocr_publish_success
ResultTaken(w) ==
    /\ upload[w] = "taken"
    /\ upload' = [upload EXCEPT ![w] = "none"]
    /\ inflight' = inflight \ {w}
    /\ completed' = completed \cup {w}
    /\ UNCHANGED <<client, slot, server, inbox, uploaded, stranded, budget>>

\* The answer to an upload is lost: the slot keeps it.
AnswerLost(w) ==
    /\ upload[w] = "taken"
    /\ Mishap
    /\ upload' = [upload EXCEPT ![w] = "pending"]
    /\ UNCHANGED <<client, slot, server, inbox, inflight, completed, uploaded, stranded>>

\* The server refuses an upload for good: it leaves its slot without a word.
ResultRefused(w) ==
    /\ upload[w] = "pending"
    /\ Mishap
    /\ upload' = [upload EXCEPT ![w] = "none"]
    /\ stranded' = stranded \cup {w}
    /\ UNCHANGED <<client, slot, server, inbox, inflight, completed, uploaded>>

DeadlinePasses ==
    /\ job # "none" /\ ~expired
    /\ expired' = TRUE
    /\ UNCHANGED <<client, slot, job, targets, results, ui, budget>>

\* The slot of the upload lives as long as the query.
UploadLapses(w) ==
    /\ expired /\ upload[w] = "pending"
    /\ upload' = [upload EXCEPT ![w] = "none"]
    /\ UNCHANGED <<client, slot, server, inbox, inflight, completed, uploaded, stranded,
                   budget>>

\* _ocr_query_status, polled by the bot.
Poll ==
    /\ job = "pending" /\ expired
    /\ job' = IF results # {} THEN "completed" ELSE "timed_out"
    /\ UNCHANGED <<client, slot, targets, results, expired, ui, budget>>

-----------------------------------------------------------------------------
OcrSteps == StartOcr \/ DropResult \/ NamesRead(FALSE)

QueryNext ==
    \/ \E w \in QueryWindows :
        \/ RosterChanges(w) \/ HostilesLeave(w) \/ Scan(w) \/ LateScan(w)
        \/ StopMonitoring(w) \/ WindowCloses(w) \/ WorkerEnds(w) \/ StartMonitoring(w)
        \/ ServerTakes(w) \/ UploadLapses(w) \/ ResultTaken(w) \/ AnswerLost(w) \/ ResultRefused(w)
    \/ OcrSteps \/ NamesRead(TRUE) \/ OcrFails
    \/ \E asked \in SUBSET QueryWindows : CreateQuery(asked)
    \/ ClaimCommands \/ HandleResponse \/ DeadlinePasses \/ Poll

-----------------------------------------------------------------------------
QueryTypeOK ==
    LET request == [window : QueryWindows, query : BOOLEAN, orphan : BOOLEAN, stale : BOOLEAN]
    IN  /\ worker \in [QueryWindows -> {"on", "closing", "off"}]
        /\ {late, unread, targets, results, inbox, inflight, completed, stranded}
                \subseteq SUBSET QueryWindows
        /\ retries \in [QueryWindows -> 0..3]
        /\ attempts \in [QueryWindows -> {"none", "first", "second"}]
        /\ busy \in [QueryWindows -> SUBSET (Names \cup Query)]
        /\ line \in Seq(request) /\ running \in request \cup {Free}
        /\ job \in {"none", "pending", "completed", "timed_out"}
        /\ expired \in BOOLEAN
        /\ upload \in [QueryWindows -> {"none", "pending", "taken"}]
        /\ uploaded \in [QueryWindows -> Nat]

\* A worker waits for the slot exactly while a request of its own is in line or
\* in the slot, and has one request: nobody waits for ever for a request that
\* was cancelled, replaced or orphaned (ocr_scheduler.py 20).
WaitsForItsRequest ==
    \A w \in QueryWindows :
        LET own == {i \in DOMAIN line : line[i].window = w /\ ~line[i].orphan}
            inSlot == running # Free /\ running.window = w /\ ~running.orphan
        IN  IF busy[w] = {} THEN own = {} /\ ~inSlot
            ELSE IF inSlot THEN own = {} ELSE Cardinality(own) = 1

\* The command of a window that has not answered yet may be handed out and
\* dispatched again, or is with its worker, or waits to be uploaded.
OnItsWay(w) ==
    \/ w \notin inflight \cup completed
    \/ attempts[w] # "none"
    \/ upload[w] = "pending"

Unanswered == IF job = "pending" /\ ~expired THEN targets \ results ELSE {}

\* However often a command is handed out, a window submits one result, also when
\* answers, dispatches and results overtake each other; and a command is lost in
\* two cases only: its window's monitoring was stopped while the query was in the
\* worker, or the server refused its result (http_server.py 255,
\* reliable-push-plan.md 135, main_window.py 3204).
AnsweredOnce ==
    /\ \A w \in QueryWindows : uploaded[w] <= 1
    /\ \A w \in Unanswered : OnItsWay(w) \/ w \in stranded

\* Both: who waits has asked, and who was asked answers.
NamesAreAnswered == WaitsForItsRequest /\ AnsweredOnce

\* A changed roster comes to be read or given up, whatever queries and the other
\* windows' rosters go first or take its place in the line.
RostersRead == \A w \in unread : worker[w] # "on"
=============================================================================
