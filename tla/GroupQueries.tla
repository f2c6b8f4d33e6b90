---------------------------- MODULE GroupQueries ---------------------------
(***************************************************************************)
(* A QQ group asks what the nodes see now: the bot takes a lock for the    *)
(* group, has the server create an OCR query, acknowledges, and a task of  *)
(* its own waits for the answers, delivers them and gives the lock back    *)
(* (src/bot/src/eve_risk/bot.py, sentry_status.py).                        *)
(*                                                                         *)
(* The lock lasts 45 seconds.  Creating takes ten at most; waiting takes   *)
(* fifteen and a last request, enrichment twenty more, so that the lock    *)
(* may lapse under a query that waits or delivers.                         *)
(***************************************************************************)
EXTENDS Naturals, FiniteSets

CONSTANTS
    Queries,      \* messages or buttons that ask for a query
    Rooms,        \* QQ groups
    MaxStops      \* bound: failing calls to QQ and stops of the bot

NoQuery == "no query"

ASSUME QueryAssumption == NoQuery \notin Queries /\ MaxStops \in Nat

VARIABLES
    query,     \* [Queries -> step of its handler or task, its group, was it answered]
    turn,      \* [Rooms -> query that holds the lock]: qq:ocr-query:group
    lapsed,    \* queries whose lock lapsed while they were under way
    stops      \* failing calls and stops so far

queries == <<query, turn, lapsed, stops>>

-----------------------------------------------------------------------------
QueryInit ==
    /\ query = [q \in Queries |-> [step |-> "idle", room |-> "none", told |-> FALSE]]
    /\ turn = [r \in Rooms |-> NoQuery]
    /\ lapsed = {}
    /\ stops = 0

Moves(q, step) == query' = [query EXCEPT ![q].step = step]

Told(q, step) == query' = [query EXCEPT ![q] = [@ EXCEPT !.step = step, !.told = TRUE]]

-----------------------------------------------------------------------------
\* _start_sentry_ocr_query: the lock is free.
TakeTurn(q, r) ==
    /\ query[q].step = "idle"
    /\ turn[r] = NoQuery
    /\ turn' = [turn EXCEPT ![r] = q]
    /\ query' = [query EXCEPT ![q] = [step |-> "creating", room |-> r, told |-> FALSE]]
    /\ UNCHANGED <<lapsed, stops>>

\* It is not: "wait for the result".
TurnTaken(q, r) ==
    /\ query[q].step = "idle"
    /\ turn[r] # NoQuery
    /\ query' = [query EXCEPT ![q] = [step |-> "done", room |-> r, told |-> TRUE]]
    /\ UNCHANGED <<turn, lapsed, stops>>

\* create_ocr_query: the server has created the query, or a reason is told and
\* the lock deleted, whoever holds it.
Create(q) ==
    /\ query[q].step = "creating"
    /\ \/ Moves(q, "acknowledging") /\ UNCHANGED turn
       \/ Told(q, "done") /\ turn' = [turn EXCEPT ![query[q].room] = NoQuery]
    /\ UNCHANGED <<lapsed, stops>>

\* send_ack, and the task that finishes the query is started.
Acknowledge(q) ==
    /\ query[q].step = "acknowledging"
    /\ Moves(q, "waiting")
    /\ UNCHANGED <<turn, lapsed, stops>>

\* QQ does not take the acknowledgement: the handler ends in an error.  Nobody
\* waits for the query, and the lock is left to lapse.
AcknowledgeFails(q) ==
    /\ query[q].step = "acknowledging"
    /\ stops < MaxStops
    /\ stops' = stops + 1
    /\ Moves(q, "done")
    /\ UNCHANGED <<turn, lapsed>>

\* wait_ocr_query_payload and wait_ocr_query_enrichment: there are answers, or
\* none came and that is told.
Wait(q) ==
    /\ query[q].step = "waiting"
    /\ Moves(q, "delivering") \/ Told(q, "releasing")
    /\ UNCHANGED <<turn, lapsed, stops>>

\* The result is sent, as markdown or as text.
DeliverResult(q) ==
    /\ query[q].step = "delivering"
    /\ Told(q, "releasing")
    /\ UNCHANGED <<turn, lapsed, stops>>

\* QQ takes neither, nor the word that it failed.
DeliverFails(q) ==
    /\ query[q].step = "delivering"
    /\ stops < MaxStops
    /\ stops' = stops + 1
    /\ Moves(q, "releasing")
    /\ UNCHANGED <<turn, lapsed>>

\* finally: the lock is read, and deleted if it holds this query's token: two
\* requests to Redis.
ReadLock(q) ==
    /\ query[q].step = "releasing"
    /\ Moves(q, IF turn[query[q].room] = q THEN "deleting" ELSE "done")
    /\ UNCHANGED <<turn, lapsed, stops>>

DeleteLock(q) ==
    /\ query[q].step = "deleting"
    /\ Moves(q, "done")
    /\ turn' = [turn EXCEPT ![query[q].room] = NoQuery]
    /\ UNCHANGED <<lapsed, stops>>

\* 45 seconds are over.  A query that is being created is younger.
LockLapses(r) ==
    /\ turn[r] # NoQuery
    /\ query[turn[r]].step # "creating"
    /\ turn' = [turn EXCEPT ![r] = NoQuery]
    /\ lapsed' = IF query[turn[r]].step = "done" THEN lapsed ELSE lapsed \cup {turn[r]}
    /\ UNCHANGED <<query, stops>>

\* The bot stops, and with it the handlers and the tasks.
BotStops ==
    /\ stops < MaxStops
    /\ stops' = stops + 1
    /\ query' = [q \in Queries |->
                    IF query[q].step = "idle" THEN query[q]
                    ELSE [query[q] EXCEPT !.step = "done"]]
    /\ UNCHANGED <<turn, lapsed>>

-----------------------------------------------------------------------------
QuerySteps ==
    \/ \E q \in Queries :
          \/ Create(q) \/ Acknowledge(q) \/ Wait(q) \/ DeliverResult(q)
          \/ ReadLock(q) \/ DeleteLock(q)
    \/ \E r \in Rooms : LockLapses(r)

QueryNext ==
    \/ \E q \in Queries, r \in Rooms : TakeTurn(q, r) \/ TurnTaken(q, r)
    \/ QuerySteps
    \/ \E q \in Queries : AcknowledgeFails(q) \/ DeliverFails(q)
    \/ BotStops

-----------------------------------------------------------------------------
QueryTypeOK ==
    /\ query \in [Queries ->
           [step : {"idle", "creating", "acknowledging", "waiting", "delivering",
                    "releasing", "deleting", "done"},
            room : Rooms \cup {"none"}, told : BOOLEAN]]
    /\ turn \in [Rooms -> Queries \cup {NoQuery}]
    /\ lapsed \subseteq Queries
    /\ stops \in 0..MaxStops

AtWork(q) == query[q].step \in {"creating", "acknowledging", "waiting", "delivering"}

\* A group has one query at work, unless a lock of its lapsed too early
\* (bot.py 641-667, 715).
QueriesTakeTurns ==
    \A p, q \in Queries :
        AtWork(p) /\ AtWork(q) /\ query[p].room = query[q].room =>
            p = q \/ \E x \in lapsed : query[x].room = query[q].room

\* In the end no group is locked, and each query was answered unless a call to
\* QQ failed or the bot stopped (bot.py 660, 703-718).
QueriesEnd ==
    /\ \A r \in Rooms : turn[r] = NoQuery
    /\ \A q \in Queries :
           query[q].step = "idle" \/ (query[q].step = "done" /\ (query[q].told \/ stops > 0))
=============================================================================
