----------------------------- MODULE OnlineTime -----------------------------
(***************************************************************************)
(* The online time SeAT charges for: an alert client's heartbeats          *)
(* (client/app/alert_client.py), the intervals between adjacent ones       *)
(* (app/server/postgres_store.py, record_heartbeat; alert_scope.py), which *)
(* seat_billing.py records for SeAT to read.                               *)
(*                                                                         *)
(* The client gives up a request that takes too long and sends another,    *)
(* while the server's thread still works on the first.  Time passes in     *)
(* ticks of 15 seconds.                                                    *)
(***************************************************************************)
EXTENDS Integers, FiniteSets

CONSTANTS
    ScopeSystems,   \* systems that can be selected in the client
    Accounts,       \* SeAT accounts its keys belong to
    Handlers,       \* request threads of the server
    MaxTicks,       \* bound on the clock
    MaxBeats,       \* bound on the heartbeats
    MaxChoices,     \* bound on changes of the selection, the key, the connection
    MaxBeatFaults   \* bound on time-outs, failed transactions and restarts

ASSUME OnlineAssumption ==
    /\ Accounts # {}
    /\ {MaxTicks, MaxBeats, MaxChoices, MaxBeatFaults} \subseteq Nat
    /\ MaxTicks > 0

VARIABLES
    app,        \* the client: account of its key, connection_id, alert_scope
    handling,   \* by thread: where it is in record_heartbeat, and its locals
    memory,     \* the client's entry in _heartbeats
    filed,     \* its row in client_heartbeats
    usage,      \* the rows of seat_client_usage
    clock,
    past        \* counters, and what the properties remember

billing == <<app, handling, memory, filed, usage, clock, past>>

-----------------------------------------------------------------------------
Cap == 2            \* interval_cap and reclaim_after, in ticks
ReclaimAfter == 2

NoBeat == [seen |-> 0, account |-> "none", connection |-> 0, revision |-> 0,
           systems |-> {}, number |-> 0]

\* A request's heartbeat, stamped by the server.  Its number is not sent.
BeatNow == [seen |-> clock, account |-> app.account, connection |-> app.connection,
            revision |-> app.revision, systems |-> app.systems,
            number |-> past.beats + 1]

Free == [at |-> "free", beat |-> NoBeat, previous |-> NoBeat, raw |-> NoBeat]

BeatFault == past.faults < MaxBeatFaults /\ past' = [past EXCEPT !.faults = @ + 1]

Moves(h, to) == handling' = [handling EXCEPT ![h].at = to]

\* Mutant of StableSystems: equal systems are taken for the same selection.
StableSystemsByName(previous, current) ==
    IF previous.connection = current.connection /\ previous.systems = current.systems
    THEN current.systems ELSE {}

\* stable_alert_system_ids: the revision tells a selection from its return.
StableSystems(previous, current) ==
    IF previous.connection = current.connection /\ previous.revision = current.revision
    THEN current.systems ELSE {}

\* The conditions at the end of record_heartbeat.
BilledSystems(previous, current) ==
    IF /\ previous # NoBeat
       /\ previous.account = current.account
       /\ current.seen - previous.seen \in 1..Cap
    THEN StableSystems(previous, current) ELSE {}

\* record_client_usage: an interval that is there is not inserted again.
Recorded(from, to) ==
    usage' = usage \cup
        {[account |-> to.account, system |-> s, from |-> from.seen, to |-> to.seen,
          first |-> from.number, last |-> to.number] : s \in BilledSystems(from, to)}

OnlineInit ==
    /\ app = [account |-> CHOOSE a \in Accounts : TRUE, connection |-> 1,
              revision |-> 1, systems |-> ScopeSystems, waiting |-> FALSE]
    /\ handling = [h \in Handlers |-> Free]
    /\ memory = NoBeat /\ filed = NoBeat
    /\ usage = {} /\ clock = 1
    /\ past = [beats |-> 0, choices |-> 0, faults |-> 0,
               raced |-> FALSE, dropped |-> {}]

-----------------------------------------------------------------------------
(* The client *)

\* What follows a race of two requests is bounded: the server ends their work.

\* What the user leaves: the selected systems, after the last heartbeat.
Dropping(systems) ==
    /\ past.choices < MaxChoices /\ ~past.raced
    /\ past' = [past EXCEPT
            !.choices = @ + 1,
            !.dropped = @ \cup {[system |-> s, after |-> past.beats] : s \in systems}]

\* set_alert_scope: every change of the selection has a revision of its own.  A
\* heartbeat that is on its way has its selection, so it need not wait for this.
Select(systems) ==
    /\ ~app.waiting
    /\ systems # app.systems
    /\ Dropping(app.systems \ systems)
    /\ app' = [app EXCEPT !.systems = systems, !.revision = past.choices + 2]
    /\ UNCHANGED <<handling, memory, filed, usage, clock>>

\* _start_replacement_worker, with another key or the same: a new connection.
ReplaceWorker(account) ==
    /\ Dropping(app.systems)
    /\ app' = [app EXCEPT !.account = account, !.connection = past.choices + 2,
                          !.revision = past.choices + 2, !.waiting = FALSE]
    /\ UNCHANGED <<handling, memory, filed, usage, clock>>

\* _post_heartbeat; the server takes the request (_attributed_heartbeat_payload).
PostHeartbeat(h) ==
    /\ ~app.waiting /\ past.beats < MaxBeats /\ ~past.raced
    /\ handling[h] = Free
    /\ h = CHOOSE g \in Handlers : handling[g] = Free
    /\ app' = [app EXCEPT !.waiting = TRUE]
    /\ handling' = [handling EXCEPT ![h] = [Free EXCEPT !.at = "taken", !.beat = BeatNow]]
    /\ past' = [past EXCEPT
            !.beats = @ + 1,
            !.raced = @ \/ \E g \in Handlers : handling[g].at \notin {"free", "written"}]
    /\ UNCHANGED <<memory, filed, usage, clock>>

\* The request times out for the client; the server does not notice.
TimeOutBeat ==
    /\ app.waiting
    /\ BeatFault
    /\ app' = [app EXCEPT !.waiting = FALSE]
    /\ UNCHANGED <<handling, memory, filed, usage, clock>>

\* The answer reaches the client if it still waits for this request.
Answered(h) ==
    app' = [app EXCEPT !.waiting = @ /\ handling[h].beat.number # past.beats]

-----------------------------------------------------------------------------
(* The server's thread *)

ReadPrevious(h) ==
    /\ handling[h].at = "taken"
    /\ handling' = [handling EXCEPT ![h].at = "read", ![h].previous = memory]
    /\ UNCHANGED <<app, memory, filed, usage, clock, past>>

\* An active heartbeat of another user keeps the client's id.
Owned(beat) ==
    /\ memory # NoBeat
    /\ memory.account # beat.account
    /\ clock - memory.seen <= ReclaimAfter

RecordBeat(h) ==
    /\ handling[h].at = "read"
    /\ IF Owned(handling[h].beat)
       THEN /\ handling' = [handling EXCEPT ![h] = Free]
            /\ Answered(h)
            /\ UNCHANGED memory
       ELSE /\ memory' = handling[h].beat
            /\ Moves(h, "recorded")
            /\ UNCHANGED app
    /\ UNCHANGED <<filed, usage, clock, past>>

\* The heartbeat is read again, in a lock of its own.
ReadRaw(h) ==
    /\ handling[h].at = "recorded"
    /\ handling' = [handling EXCEPT ![h].at = "raw", ![h].raw = memory]
    /\ UNCHANGED <<app, memory, filed, usage, clock, past>>

\* _write_heartbeat
WriteBeat(h) ==
    /\ handling[h].at = "raw"
    /\ filed' = handling[h].raw
    /\ Moves(h, "written")
    /\ UNCHANGED <<app, memory, usage, clock, past>>

\* record_client_usage, and the answer.
RecordUsage(h) ==
    /\ handling[h].at = "written"
    /\ Recorded(handling[h].previous, handling[h].raw)
    /\ handling' = [handling EXCEPT ![h] = Free]
    /\ Answered(h)
    /\ UNCHANGED <<memory, filed, clock, past>>

\* One of the two transactions fails: memory has moved on, the rest is not done.
FailBeat(h) ==
    /\ handling[h].at \in {"raw", "written"}
    /\ BeatFault
    /\ handling' = [handling EXCEPT ![h] = Free]
    /\ Answered(h)
    /\ UNCHANGED <<memory, filed, usage, clock>>

\* _read_heartbeats of the next process.
RestartOnline ==
    /\ BeatFault
    /\ handling' = [h \in Handlers |-> Free]
    /\ memory' = filed
    /\ app' = [app EXCEPT !.waiting = FALSE]
    /\ UNCHANGED <<filed, usage, clock>>

-----------------------------------------------------------------------------
(* The clock *)

OnlineTick ==
    /\ clock < MaxTicks /\ ~past.raced
    /\ clock' = clock + 1
    /\ UNCHANGED <<app, handling, memory, filed, usage, past>>

OnlineNext ==
    \/ \E systems \in SUBSET ScopeSystems : Select(systems)
    \/ \E a \in Accounts : ReplaceWorker(a)
    \/ \E h \in Handlers :
        \/ PostHeartbeat(h) \/ ReadPrevious(h) \/ RecordBeat(h) \/ ReadRaw(h)
        \/ WriteBeat(h) \/ RecordUsage(h) \/ FailBeat(h)
    \/ TimeOutBeat \/ RestartOnline
    \/ OnlineTick

-----------------------------------------------------------------------------
Beat == [seen : 0..MaxTicks, account : Accounts \cup {"none"},
         connection : 0..MaxChoices + 1, revision : 0..MaxChoices + 1,
         systems : SUBSET ScopeSystems, number : 0..MaxBeats]

OnlineTypeOK ==
    /\ app \in [account : Accounts, connection : 1..MaxChoices + 1,
                revision : 1..MaxChoices + 1, systems : SUBSET ScopeSystems,
                waiting : BOOLEAN]
    /\ handling \in [Handlers ->
        [at : {"free", "taken", "read", "recorded", "raw", "written"},
         beat : Beat, previous : Beat, raw : Beat]]
    /\ {memory, filed} \subseteq Beat
    /\ usage \subseteq [account : Accounts, system : ScopeSystems, from : 1..MaxTicks,
                        to : 1..MaxTicks, first : 1..MaxBeats, last : 1..MaxBeats]
    /\ clock \in 1..MaxTicks
    /\ past \in [beats : 0..MaxBeats, choices : 0..MaxChoices, faults : 0..MaxBeatFaults,
                 raced : BOOLEAN,
                 dropped : SUBSET [system : ScopeSystems, after : 0..MaxBeats]]

\* No time in a system is billed twice to whichever account the client used,
\* however transactions fail and the server restarts between its heartbeats,
\* unless two requests of the client were in record_heartbeat at once
\* (postgres_store.py 3626, 3632).
BilledOnce ==
    past.raced \/ \A u, v \in usage :
        u # v /\ u.system = v.system => u.to <= v.from \/ v.to <= u.from

\* A system that is billed for an interval was selected all the time between the
\* two heartbeats, with one key and one connection (alert_client.py 2374).
SelectedThroughout ==
    \A u \in usage : \A d \in past.dropped :
        d.system = u.system => d.after < u.first \/ d.after >= u.last

\* Both: what is billed is due.
BillingIsDue == BilledOnce /\ SelectedThroughout
=============================================================================
