------------------------------ MODULE BotBridge -----------------------------
(***************************************************************************)
(* The QQ bot as a consumer of the event journal                           *)
(* (app/server/qq_bot_runtime.py, EmbeddedBotBridge) with the relay that   *)
(* turns events and bootstraps into messages to the subscribed groups      *)
(* (bot/src/eve_risk/alerts.py).                                           *)
(*                                                                         *)
(* Redis keeps the cursor of the last event worked off, the hostile systems*)
(* the bot has announced, each with the episode it announced, and one key  *)
(* for every message a group has got.  A message whose delivery fails, an  *)
(* expired event or a crash leave the cursor where it was.                 *)
(*                                                                         *)
(* Left out: rosters and monitoring nodes, which have messages of their    *)
(* own, and the pages in which events are read.                            *)
(***************************************************************************)
EXTENDS EventJournal

CONSTANTS
    Groups,     \* subscribed QQ groups
    MaxFaults   \* bound on the failed deliveries and crashes

ASSUME MaxFaultsAssumption == MaxFaults \in Nat

VARIABLES
    acked,      \* Redis: the cursor state:<seq>
    ready,      \* Redis: a first bootstrap has been saved
    tracked,    \* Redis: the announced episode of each system, or Untracked
    delivered,  \* Redis: the messages each group has got
    heard,      \* history: what each group was last told of each system
    pc,         \* the consumer is "idle", in "replay", "sending" or in "ack"
    initialized, reconcile,
    snap,       \* the finished refresh of the bootstrap, or NoSnap
    boot,       \* the bootstrap this turn works with, or NoSnap
    job,        \* the event or bootstrap being worked off
    faults      \* bound: failures so far

bot == <<acked, ready, tracked, delivered, heard, pc, initialized, reconcile,
         snap, boot, job, faults>>
redis == <<acked, ready, tracked, delivered>>

-----------------------------------------------------------------------------
Untracked == 0
NoSnap == [seq |-> -1]
NoJob == [target |-> -1]

Tracked == {s \in Systems : tracked[s] # Untracked}

Messages == [kind : {"alert", "safe"}, system : Systems, episode : Int, group : Groups]

\* Mutant of Fanout: every group gets it, again if need be.
FanoutToAll(kind, s, episode) ==
    [kind : {kind}, system : {s}, episode : {episode}, group : Groups]

\* One message to every group, minus those that have it (_fanout_groups).
Fanout(kind, s, episode) ==
    {m \in [kind : {kind}, system : {s}, episode : {episode}, group : Groups] :
        m \notin delivered}

\* generated_at of a bootstrap: an episode of its own.
FreshEpisode ==
    LET used == {m.episode : m \in delivered} \cup {tracked[s] : s \in Systems}
    IN  -(CHOOSE k \in 1..Cardinality(used) + 1 :
            -k \notin used /\ \A j \in 1..k - 1 : -j \in used)

Work(target, goal, unsent, baseline) ==
    [target |-> target, goal |-> goal, unsent |-> unsent, failure |-> "none",
     baseline |-> baseline]

\* Mutant of EpisodeAfter: an unknown state leaves the announcement alone.
EpisodeKeptWhenUnknown(e) ==
    IF e.kind = "clear" THEN Untracked
    ELSE IF tracked[e.system] = Untracked /\ e.kind = "hostile"
    THEN e.seq ELSE tracked[e.system]

\* process_alert_event and process_safe_event: the episode after event e and
\* the messages it takes.  A system already announced keeps its episode; one
\* whose state is unknown is dropped without a message.
EpisodeAfter(e) ==
    IF e.kind # "hostile" THEN Untracked
    ELSE IF tracked[e.system] = Untracked THEN e.seq ELSE tracked[e.system]

EventMessages(e) ==
    CASE e.kind = "hostile" /\ tracked[e.system] = Untracked -> Fanout("alert", e.system, e.seq)
      [] e.kind = "clear" /\ tracked[e.system] # Untracked -> Fanout("safe", e.system, e.seq)
      [] OTHER -> {}

EventWork(e) ==
    Work(e.seq, [tracked EXCEPT ![e.system] = EpisodeAfter(e)], EventMessages(e), FALSE)

\* process_bootstrap: the announced systems give way to those of bootstrap b.
\* A system that is gone is called safe only while a node watches it.  Nothing
\* is sent before the first bootstrap.
BootstrapWork(b) ==
    LET current == HostileAt(b.seq)
        safe == (Tracked \ current) \cap b.live
        alert == current \ Tracked
        goal == [s \in Systems |->
                    IF s \notin current THEN Untracked
                    ELSE IF s \in Tracked THEN tracked[s] ELSE FreshEpisode]
        unsent == (UNION {Fanout("safe", s, tracked[s]) : s \in safe})
                    \cup (UNION {Fanout("alert", s, FreshEpisode) : s \in alert})
    IN  Work(IF acked > b.seq THEN acked ELSE b.seq, goal,
             IF ready THEN unsent ELSE {}, TRUE)

-----------------------------------------------------------------------------
BotInit ==
    /\ acked = 0
    /\ ready = FALSE
    /\ tracked = [s \in Systems |-> Untracked]
    /\ delivered = {}
    /\ heard = [g \in Groups |-> [s \in Systems |-> "nothing"]]
    /\ pc = "idle"
    /\ initialized = FALSE
    /\ reconcile = FALSE
    /\ snap = NoSnap
    /\ boot = NoSnap
    /\ job = NoJob
    /\ faults = 0

\* build_embedded_event_snapshot on its thread: state and watermark of one
\* read, and the systems with a live node.
TakeSnapshot ==
    /\ pc = "idle"
    /\ snap = NoSnap
    /\ \E live \in SUBSET Systems :
        snap' = [seq |-> Watermark, live |-> live, current |-> TRUE]
    /\ UNCHANGED <<redis, heard, pc, initialized, reconcile, boot, job, faults>>

\* Mutant of Outdated: any bootstrap will do.
NeverOutdated(b) == FALSE

\* A reconciliation needs a bootstrap begun after it was called for and not
\* behind the cursor; an older one must not undo newer events.
Outdated(b) == b.seq < acked \/ (reconcile /\ ~b.current)

\* EmbeddedBotBridge.run, one turn of the loop with a finished bootstrap.
TurnWithBootstrap ==
    /\ pc = "idle"
    /\ snap # NoSnap
    /\ snap' = NoSnap
    /\ IF reconcile \/ ~initialized
       THEN IF reconcile /\ Outdated(snap)
            THEN UNCHANGED <<pc, boot, job>>
            ELSE /\ pc' = "sending"
                 /\ job' = BootstrapWork(snap)
                 /\ boot' = NoSnap
       ELSE /\ pc' = "replay"
            /\ boot' = IF Outdated(snap) THEN NoSnap ELSE snap
            /\ job' = NoJob
    /\ UNCHANGED <<redis, heard, initialized, reconcile, faults>>

\* The same without one: only the journal.  A turn that finds nothing is left
\* out.
TurnWithoutBootstrap ==
    /\ pc = "idle"
    /\ initialized
    /\ ~reconcile
    /\ After(acked) # {}
    /\ pc' = "replay"
    /\ UNCHANGED <<redis, heard, initialized, reconcile, snap, boot, job, faults>>

\* _replay_to_watermark: the next event up to the bootstrap's watermark.
Replayable ==
    /\ pc = "replay"
    /\ After(acked) # {}
    /\ boot # NoSnap => NextAfter(acked).seq <= boot.seq

ReplayEvent ==
    /\ Replayable
    /\ job' = EventWork(NextAfter(acked))
    /\ pc' = "sending"
    /\ UNCHANGED <<redis, heard, initialized, reconcile, snap, boot, faults>>

\* Mutant of CallForBootstrap: the expired event is simply met again.
RetryExpired == UNCHANGED <<reconcile, snap>>

\* reconcile_after: a bootstrap already begun does not count.
CallForBootstrap ==
    /\ reconcile' = TRUE
    /\ snap' = IF snap = NoSnap THEN NoSnap ELSE [snap EXCEPT !.current = FALSE]

\* The cursor and the readiness are loaded again at the next turn.
Reload ==
    /\ pc' = "idle"
    /\ boot' = NoSnap
    /\ job' = NoJob
    /\ initialized' = (acked > 0 /\ ready)

\* _ExpiredReplay: the event is more than a minute old, and is not sent any
\* more.
ExpireReplay ==
    /\ Replayable
    /\ Reload
    /\ CallForBootstrap
    /\ UNCHANGED <<redis, heard, faults>>

\* The journal is worked off as far as the turn goes; then comes its bootstrap.
EndReplay ==
    /\ pc = "replay"
    /\ ~Replayable
    /\ IF boot = NoSnap
       THEN pc' = "idle" /\ job' = NoJob
       ELSE pc' = "sending" /\ job' = BootstrapWork(boot)
    /\ boot' = NoSnap
    /\ UNCHANGED <<redis, heard, initialized, reconcile, snap, faults>>

-----------------------------------------------------------------------------
\* _fanout_groups: one message to one group, and then its key.
Deliver(m) ==
    /\ heard' = [heard EXCEPT ![m.group][m.system] = m.kind]
    /\ delivered' = delivered \cup {m}
    /\ job' = [job EXCEPT !.unsent = @ \ {m}]
    /\ UNCHANGED <<acked, ready, tracked, pc, initialized, reconcile, snap, boot, faults>>

\* An error or a timeout: the group may have got the message nevertheless.
\* After a rate limit the bot trusts no event of before it.
FailDelivery(m) ==
    /\ faults < MaxFaults
    /\ faults' = faults + 1
    /\ heard' \in {heard, [heard EXCEPT ![m.group][m.system] = m.kind]}
    /\ \E failure \in {"error", "limit"} :
        job' = [job EXCEPT !.unsent = @ \ {m},
                           !.failure = IF @ = "limit" THEN @ ELSE failure]
    /\ UNCHANGED <<redis, pc, initialized, reconcile, snap, boot>>

\* Any group that failed fails the work: it is begun again from the cursor.
GiveUp ==
    /\ pc = "sending"
    /\ job.unsent = {}
    /\ job.failure # "none"
    /\ Reload
    /\ IF job.failure = "limit" THEN CallForBootstrap ELSE UNCHANGED <<reconcile, snap>>
    /\ UNCHANGED <<redis, heard, faults>>

\* _save_system_alert_state, once every group has the messages.
Save ==
    /\ pc = "sending"
    /\ job.unsent = {}
    /\ job.failure = "none"
    /\ tracked' = job.goal
    /\ ready' = TRUE
    /\ pc' = "ack"
    /\ UNCHANGED <<acked, delivered, heard, initialized, reconcile, snap, boot, job, faults>>

\* _save_cursor.
Ack ==
    /\ pc = "ack"
    /\ acked' = job.target
    /\ IF job.baseline
       THEN pc' = "idle" /\ initialized' = TRUE /\ reconcile' = FALSE
       ELSE pc' = "replay" /\ UNCHANGED <<initialized, reconcile>>
    /\ job' = NoJob
    /\ UNCHANGED <<ready, tracked, delivered, heard, snap, boot, faults>>

\* The server process dies and starts again: only Redis remains.
Crash ==
    /\ faults < MaxFaults
    /\ faults' = faults + 1
    /\ Reload
    /\ reconcile' = FALSE
    /\ snap' = NoSnap
    /\ UNCHANGED <<redis, heard>>

DeliverNext == pc = "sending" /\ \E m \in job.unsent : Deliver(m)

BotSteps ==
    \/ TakeSnapshot
    \/ TurnWithBootstrap \/ TurnWithoutBootstrap
    \/ ReplayEvent \/ ExpireReplay \/ EndReplay
    \/ DeliverNext
    \/ GiveUp \/ Save \/ Ack

BotFaults ==
    \/ pc = "sending" /\ \E m \in job.unsent : FailDelivery(m)
    \/ Crash

BotNext == BotSteps \/ BotFaults

-----------------------------------------------------------------------------
BotTypeOK ==
    /\ acked \in 0..MaxSeq
    /\ ready \in BOOLEAN
    /\ tracked \in [Systems -> Int]
    /\ delivered \subseteq Messages
    /\ heard \in [Groups -> [Systems -> {"nothing", "alert", "safe"}]]
    /\ pc \in {"idle", "replay", "sending", "ack"}
    /\ initialized \in BOOLEAN /\ reconcile \in BOOLEAN
    /\ \A b \in {snap, boot} \ {NoSnap} :
        b.seq \in 0..MaxSeq /\ b.live \subseteq Systems /\ b.current \in BOOLEAN
    /\ pc \in {"sending", "ack"} <=> job # NoJob
    /\ job # NoJob =>
        /\ job.target \in 0..MaxSeq
        /\ job.goal \in [Systems -> Int]
        /\ job.unsent \subseteq Messages \ delivered
        /\ job.failure \in {"none", "error", "limit"}
    /\ faults \in 0..MaxFaults

\* Once the bot has worked off the last event, through whatever failures,
\* crashes and bootstraps, it holds announced exactly the systems that are
\* hostile - as long as no event was pruned before it came to it
\* (qq_bot_runtime.py 201).
InSync ==
    pc = "idle" /\ ready /\ kept = committed /\ acked = Highest(committed)
        => Tracked = HostileAt(acked)

\* What a group is told is so at the newest point of the journal the bot knows:
\* it is never told safe, or of an alert, on the word of a bootstrap older than
\* the events worked off (qq_bot_runtime.py 181).
NoOutdatedNews ==
    [][\A g \in Groups, s \in Systems : heard'[g][s] # heard[g][s] =>
        LET now == KindAt(s, IF job.target > acked THEN job.target ELSE acked)
        IN  heard'[g][s] = "alert" <=> now = "hostile"]_bot

\* The bot has worked off the journal and holds announced the systems that are
\* hostile.
BotCaughtUp == Tracked = HostileAt(Highest(committed)) /\ acked >= Watermark

\* "When the last hostile has gone the group is told safe; one that comes back
\* after that is a new wave and is announced again" (bot/README.md 190).
ComebackIsAnnounced ==
    pc = "idle" /\ ~reconcile /\ ready /\ acked = Highest(committed)
        => \A g \in Groups, s \in HostileAt(acked) : heard[g][s] # "safe"
=============================================================================
