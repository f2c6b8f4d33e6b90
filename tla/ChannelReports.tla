--------------------------- MODULE ChannelReports ---------------------------
(***************************************************************************)
(* From a chat log to a reader of the alert stream.  Programs on several   *)
(* machines follow the log of the same channel, each from the offset it    *)
(* has saved (client/app/channels/log_watcher.py, channel_client_gui.py),  *)
(* and post every line; the server keeps one report of it, applies it to   *)
(* the channel's row and gives it a position in the stream                 *)
(* (app/server/postgres_store.py), which readers follow by their cursor.   *)
(***************************************************************************)
EXTENDS Integers, Sequences, FiniteSets

CONSTANTS
    Watchers,       \* programs that follow the channel
    Threads,        \* request threads of the server
    MaxLines,       \* bound on what is said in the channel
    Clears,         \* the lines that say clear
    MaxByHand,      \* bound on reports written by hand
    MaxMishaps      \* bound on time-outs, failed transactions, restarts,
                    \* new log files and deletions

ASSUME ReportAssumption ==
    /\ {MaxLines, MaxByHand, MaxMishaps} \subseteq Nat /\ Clears \subseteq 1..MaxLines
    /\ "none" \notin Threads

VARIABLES
    said,       \* lines in the channel so far
    watching,   \* by program: its offset, its batch of lines, its request
    serving,    \* by thread: where it is in add_observation, and its locals
    turns,      \* the write queue: threads with a ticket
    manual,     \* the report whose add_report holds the store lock, or 0
    made,       \* every report: its line (0 if by hand), stream_position in memory
    cached,     \* the reports in _reports
    stored,     \* the rows of intel_reports, each with its position
    highest,    \* the sequence of the positions
    live,       \* the channel's row in memory ...
    liveRow,    \* ... and in active_intel
    follower,   \* the reader: its cursor, where it started, what it was told
    mishaps, troubled, removed, forsaken, answered   \* history

programs == <<said, watching>>
caches == <<made, cached, live>>
tables == <<stored, highest, liveRow>>
history == <<mishaps, troubled, removed, forsaken, answered>>

channel == <<programs, serving, turns, manual, caches, tables, follower, history>>

-----------------------------------------------------------------------------
Idle == [at |-> "free", line |-> 0, report |-> 0, row |-> [exists |-> FALSE]]

\* The row, its sources, and beside it the newest line applied to it; `late`
\* says that a late sighting has taken its time back since.
NoRow == [exists |-> FALSE, active |-> FALSE, last |-> 0, cleared |-> 0,
          sources |-> {}, newest |-> 0, late |-> FALSE]

Later(a, b) == IF a > b THEN a ELSE b

Mishap == mishaps < MaxMishaps /\ mishaps' = mishaps + 1

Batch(w) == watching[w].next..watching[w].last

Waits(h) == {w \in Watchers : watching[w].request = h}

\* The lines a program will not come to after this break of its batch: those of
\* an older log file.
Dropped(w) == {<<w, m>> : m \in {n \in Batch(w) : n <= watching[w].offset}}

Broken(w) == [watching[w] EXCEPT !.next = 1, !.last = 0, !.request = "none"]

\* commit_line, and on to the next line of the batch.
Committed(w) ==
    [watching[w] EXCEPT !.offset = Later(@, watching[w].next),
                        !.next = @ + 1, !.request = "none"]

ReportInit ==
    /\ said = 0
    /\ watching = [w \in Watchers |-> [offset |-> 0, next |-> 1, last |-> 0,
                                       request |-> "none"]]
    /\ serving = [h \in Threads |-> Idle]
    /\ turns = <<>> /\ manual = 0 /\ made = <<>> /\ cached = {}
    /\ stored = {} /\ highest = 0
    /\ live = NoRow /\ liveRow = NoRow
    /\ follower = [cursor |-> 0, start |-> 0, anchored |-> FALSE, told |-> {}]
    /\ mishaps = 0 /\ troubled = {} /\ removed = {} /\ forsaken = {} /\ answered = {}

-----------------------------------------------------------------------------
(* The programs *)

Say ==
    /\ said < MaxLines
    /\ said' = said + 1
    /\ UNCHANGED <<watching, serving, turns, manual, caches, tables, follower, history>>

\* poll_lines, of the newest log file of the channel.
Poll(w) ==
    /\ Batch(w) = {}
    /\ watching[w].offset < said
    /\ watching' = [watching EXCEPT ![w].next = watching[w].offset + 1, ![w].last = said]
    /\ UNCHANGED <<said, serving, turns, manual, caches, tables, follower, history>>

\* post_channel_line; a thread of the server takes the request.
Post(w) ==
    /\ Batch(w) # {}
    /\ watching[w].request = "none"
    /\ \E h \in Threads :
        /\ serving[h] = Idle
        /\ h = CHOOSE g \in Threads : serving[g] = Idle
        /\ serving' = [serving EXCEPT ![h].at = "arrived", ![h].line = watching[w].next]
        /\ watching' = [watching EXCEPT ![w].request = h]
    /\ UNCHANGED <<said, turns, manual, caches, tables, follower, history>>

\* The request takes too long, or the program is started again; the server does
\* not notice.
GiveUpLine(w) ==
    /\ watching[w].request # "none"
    /\ Mishap
    /\ watching' = [watching EXCEPT ![w] = Broken(w)]
    /\ forsaken' = forsaken \cup Dropped(w)
    /\ UNCHANGED <<said, serving, turns, manual, caches, tables, follower,
                   troubled, removed, answered>>

\* The game starts a new log file: what the old one still had is not read.
NewLogFile(w) ==
    /\ watching[w].offset < said
    /\ Mishap
    /\ watching' = [watching EXCEPT ![w].offset = said]
    /\ forsaken' = forsaken \cup
        {<<w, m>> : m \in (watching[w].offset + 1)..said \ Batch(w)}
    /\ UNCHANGED <<said, serving, turns, manual, caches, tables, follower,
                   troubled, removed, answered>>

-----------------------------------------------------------------------------
(* The server *)

\* Mutant of Revives: an older sighting revives a cleared row.
RevivesAnyway(m) == live.exists

\* A sighting before the clear does not revive the row.
Revives(m) == live.active \/ live.cleared = 0 \/ m > live.cleared

Ends(m) == live.active /\ m >= live.last

\* _apply_channel_active_state and _clear_channel_active_state
Applied(m, id) ==
    LET noted == [live EXCEPT !.newest = Later(@, m), !.late = @ /\ m <= live.newest]
    IN  IF m \in Clears
        THEN IF Ends(m) THEN [noted EXCEPT !.active = FALSE, !.cleared = m]
             ELSE noted
        ELSE IF Revives(m)
        THEN [noted EXCEPT !.exists = TRUE, !.active = TRUE, !.last = m,
                           !.cleared = 0, !.sources = @ \cup {id},
                           !.late = @ \/ m < live.newest]
        ELSE [noted EXCEPT !.sources = @ \cup {id}]

\* _find_duplicate_observation: the same text of the same time and channel.
Duplicates(m) == {id \in cached : made[id].line = m}

Reserved(h, id) ==
    /\ live' = Applied(serving[h].line, id)
    /\ serving' = [serving EXCEPT ![h].at = "waiting", ![h].report = id, ![h].row = live']
    /\ turns' = Append(turns, h)

\* add_observation, in the store lock.
KeepReport(h) ==
    /\ manual = 0
    /\ serving[h].at = "arrived"
    /\ IF Duplicates(serving[h].line) # {}
       THEN /\ \E id \in Duplicates(serving[h].line) : Reserved(h, id)
            /\ UNCHANGED <<made, cached>>
       ELSE /\ made' = Append(made, [line |-> serving[h].line, position |-> 0])
            /\ cached' = cached \cup {Len(made')}
            /\ Reserved(h, Len(made'))
    /\ UNCHANGED <<programs, manual, tables, follower, history>>

\* Mutant of PositionsFree: no advisory lock.
PositionsAlwaysFree == TRUE

\* pg_advisory_xact_lock: no other transaction has given a position.
PositionsFree == manual = 0 /\ \A h \in Threads : serving[h].at # "writing"

\* _assign_report_stream_positions: the position stays with the report in memory,
\* whatever becomes of the transaction.
Positioned(reports, id) ==
    /\ highest' = IF reports[id].position > 0 THEN highest ELSE highest + 1
    /\ made' = [reports EXCEPT ![id].position = IF @ > 0 THEN @ ELSE highest']

AssignPosition(h) ==
    /\ serving[h].at = "waiting"
    /\ h = Head(turns)
    /\ PositionsFree
    /\ Positioned(made, serving[h].report)
    /\ serving' = [serving EXCEPT ![h].at = "writing"]
    /\ UNCHANGED <<programs, turns, manual, cached, live, stored, liveRow, follower, history>>

\* _upsert_report_with_connection: a row that is there keeps its position.
Upserted(id) ==
    IF \E r \in stored : r.id = id THEN stored
    ELSE stored \cup {[id |-> id, position |-> made[id].position]}

\* The channel's row is written with it; one whose write has failed before would
\* wait for the repair (module StatePersistence) if this line has not changed it.
CommitReport(h) ==
    /\ serving[h].at = "writing"
    /\ stored' = Upserted(serving[h].report)
    /\ liveRow' = serving[h].row
    /\ serving' = [serving EXCEPT ![h] = Idle]
    /\ turns' = Tail(turns)
    /\ watching' = [w \in Watchers |->
            IF w \in Waits(h) THEN Committed(w) ELSE watching[w]]
    /\ answered' = answered \cup {serving[h].line}
    /\ UNCHANGED <<said, manual, caches, highest, follower,
                   mishaps, troubled, removed, forsaken>>

\* The transaction fails, or its commit is not acknowledged.
FailReport(h, done) ==
    /\ serving[h].at = "writing"
    /\ Mishap
    /\ stored' = IF done THEN Upserted(serving[h].report) ELSE stored
    /\ liveRow' = IF done THEN serving[h].row ELSE liveRow
    /\ troubled' = troubled \cup (IF done THEN {} ELSE {serving[h].report})
    /\ serving' = [serving EXCEPT ![h] = Idle]
    /\ turns' = Tail(turns)
    /\ watching' = [w \in Watchers |->
            IF w \in Waits(h) THEN Broken(w) ELSE watching[w]]
    /\ forsaken' = forsaken \cup UNION {Dropped(w) : w \in Waits(h)}
    /\ UNCHANGED <<said, manual, caches, highest, follower, removed, answered>>

\* add_report, which holds the store lock to its end, beside the write queue.
AddReport ==
    /\ manual = 0
    /\ PositionsFree
    /\ Cardinality({id \in DOMAIN made : made[id].line = 0}) < MaxByHand
    /\ Positioned(Append(made, [line |-> 0, position |-> 0]), Len(made) + 1)
    /\ cached' = cached \cup {Len(made')}
    /\ manual' = Len(made')
    /\ UNCHANGED <<programs, serving, turns, live, stored, liveRow, follower, history>>

CommitManual ==
    /\ manual # 0
    /\ stored' = Upserted(manual)
    /\ manual' = 0
    /\ UNCHANGED <<programs, serving, turns, caches, highest, liveRow, follower, history>>

FailManual ==
    /\ manual # 0
    /\ Mishap
    /\ manual' = 0
    /\ UNCHANGED <<programs, serving, turns, caches, tables, follower,
                   troubled, removed, forsaken, answered>>

\* The reports an active row does not refer to.
Deletable == {r \in stored : ~liveRow.active \/ r.id \notin liveRow.sources}

\* delete_report
DeleteReport ==
    /\ manual = 0
    /\ Mishap
    /\ \E r \in Deletable :
        /\ stored' = stored \ {r}
        /\ cached' = cached \ {r.id}
        /\ removed' = removed \cup {made[r.id].line}
    /\ UNCHANGED <<programs, serving, turns, manual, made, live, highest, liveRow, follower,
                   troubled, forsaken, answered>>

\* A new process: the requests in hand are gone, the rows are read, and what is
\* beyond its retention is deleted (prune_reports_older_than).
RestartReports ==
    /\ Mishap
    /\ \E old \in SUBSET Deletable :
        /\ stored' = stored \ old
        /\ cached' = {r.id : r \in stored'}
        /\ removed' = removed \cup {made[r.id].line : r \in old}
        /\ made' = [id \in DOMAIN made |->
                IF \E r \in stored : r.id = id
                THEN [made[id] EXCEPT !.position = (CHOOSE r \in stored : r.id = id).position]
                ELSE made[id]]
    /\ live' = liveRow
    /\ serving' = [h \in Threads |-> Idle]
    /\ turns' = <<>> /\ manual' = 0
    /\ watching' = [w \in Watchers |->
            IF watching[w].request = "none" THEN watching[w] ELSE Broken(w)]
    /\ forsaken' = forsaken \cup
            UNION {Dropped(w) : w \in {v \in Watchers : watching[v].request # "none"}}
    /\ UNCHANGED <<said, highest, liveRow, follower, troubled, answered>>

-----------------------------------------------------------------------------
(* A reader of the stream *)

Lowest(S) == CHOOSE r \in S : \A q \in S : r.position <= q.position

Topmost(S) == CHOOSE r \in S : \A q \in S : q.position <= r.position

\* list_alert_stream_page, in pages of one report: what is after the cursor, or
\* without one the newest.
ReadPage ==
    /\ IF follower.anchored
       THEN LET after == {r \in stored : r.position > follower.cursor}
            IN  /\ after # {}
                /\ follower' = [follower EXCEPT
                        !.cursor = Lowest(after).position,
                        !.told = @ \cup {Lowest(after).id}]
       ELSE /\ stored # {}
            /\ follower' = [follower EXCEPT
                    !.anchored = TRUE, !.start = Topmost(stored).position - 1,
                    !.cursor = Topmost(stored).position,
                    !.told = @ \cup {Topmost(stored).id}]
    /\ UNCHANGED <<programs, serving, turns, manual, caches, tables, history>>

\* A reader that comes back is asked for the report it had last; if that is gone
\* (resolve_alert_stream_cursor), it has no cursor any more.
LoseCursor ==
    /\ follower.anchored
    /\ \A r \in stored : r.position # follower.cursor
    /\ follower' = [follower EXCEPT !.anchored = FALSE]
    /\ UNCHANGED <<programs, serving, turns, manual, caches, tables, history>>

\* A thread in add_observation goes on, in its turn, and so does one in add_report.
ServerSteps ==
    \/ \E h \in Threads : KeepReport(h) \/ AssignPosition(h) \/ CommitReport(h)
    \/ CommitManual

ReportNext ==
    \/ Say
    \/ \E w \in Watchers : Poll(w) \/ Post(w) \/ GiveUpLine(w) \/ NewLogFile(w)
    \/ \E h \in Threads :
        \/ KeepReport(h) \/ AssignPosition(h) \/ CommitReport(h)
        \/ \E done \in BOOLEAN : FailReport(h, done)
    \/ AddReport \/ CommitManual \/ FailManual \/ DeleteReport
    \/ RestartReports
    \/ ReadPage \/ LoseCursor

-----------------------------------------------------------------------------
ReportTypeOK ==
    LET ids == DOMAIN made
        rowType == [exists : BOOLEAN, active : BOOLEAN, last : 0..MaxLines,
                    cleared : 0..MaxLines, sources : SUBSET ids,
                    newest : 0..MaxLines, late : BOOLEAN]
    IN  /\ said \in 0..MaxLines
        /\ watching \in [Watchers -> [offset : 0..MaxLines, next : 1..MaxLines + 1,
                                      last : 0..MaxLines, request : Threads \cup {"none"}]]
        /\ \A h \in Threads :
            /\ serving[h].at \in {"free", "arrived", "waiting", "writing"}
            /\ serving[h].line \in 0..MaxLines /\ serving[h].report \in ids \cup {0}
        /\ \A i \in DOMAIN turns : serving[turns[i]].at \in {"waiting", "writing"}
        /\ manual \in ids \cup {0}
        /\ \A id \in ids : made[id] \in [line : 0..MaxLines, position : 0..highest]
        /\ stored \subseteq [id : ids, position : 1..highest]
        /\ cached \subseteq ids
        /\ {live, liveRow} \subseteq rowType
        /\ follower \in [cursor : 0..highest, start : 0..highest,
                         anchored : BOOLEAN, told : SUBSET ids]
        /\ mishaps \in 0..MaxMishaps
        /\ troubled \subseteq ids /\ removed \cup answered \subseteq 0..MaxLines
        /\ forsaken \subseteq Watchers \X (1..MaxLines)

\* A line whose post was answered is stored once, however many programs post it
\* and post it again, until it is deleted (intel_store.py 3300).
AnsweredIsStored ==
    LET rowsOf(m) == {r \in stored : made[r.id].line = m}
    IN  \A m \in 1..MaxLines \ removed :
            /\ m \in answered => rowsOf(m) # {}
            /\ Cardinality(rowsOf(m)) <= 1

\* A reader has been told every report its cursor has passed since it started,
\* although positions are given before the commit; except for those whose
\* first transaction failed, since they keep its position (postgres_store.py 3555).
StreamSkipsNothing ==
    \A r \in stored :
        /\ r.position \in (follower.start + 1)..follower.cursor
        /\ r.id \notin troubled /\ made[r.id].line \notin removed
        => r.id \in follower.told

\* The channel's row is active exactly when the newest line applied to it is a
\* sighting, in whatever order lines come and are repeated; except after a late
\* sighting has taken the row's time back (intel_store.py 4460).
ChannelShowsNewest ==
    ~live.late => (live.active <=> live.newest \notin Clears \cup {0})

\* Both: what the reports hold of the channel (intel_store.py 3300, 4460).
ReportsAreKept == AnsweredIsStored /\ ChannelShowsNewest

\* Every line is told, but for those that no program came to read, those that
\* were deleted, and those behind the exceptions above.
LinesArrive ==
    \A m \in 1..said \ removed :
        \/ \E id \in follower.told : made[id].line = m
        \/ \A w \in Watchers : <<w, m>> \in forsaken
        \/ \E r \in stored : made[r.id].line = m
            /\ (r.id \in troubled \/ r.position <= follower.start)
=============================================================================
