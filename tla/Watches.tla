------------------------------- MODULE Watches -----------------------------
(***************************************************************************)
(* The watch a QQ group sets on a pilot, a corporation or an alliance: the *)
(* bot scans the nodes when the watch is due, tells the group when the     *)
(* target is found, and is silent until the target was missing from two    *)
(* complete snapshots (src/bot/src/eve_risk/sentry_watch.py, bot.py).      *)
(*                                                                         *)
(* A complete snapshot is used again for thirty seconds.  One watch is     *)
(* followed, with the table row behind it.                                 *)
(***************************************************************************)
EXTENDS Naturals

CONSTANTS
    MaxFlights,    \* bound: how often the target comes or goes
    MaxCommands,     \* bound: commands of the group
    MaxUpsets      \* bound: failing scans, silent nodes, failing sends, crashes

ASSUME WatchAssumption == {MaxFlights, MaxCommands, MaxUpsets} \subseteq Nat

VARIABLES
    there,     \* the target is in sight of the nodes
    watch,     \* row of sentry_watches: set, version of its id, present, missing_count, due
    reuse,     \* the snapshot kept for use again: fresh, and was the target in it
    cycle,     \* run_once: its step, the watch it read as due, its snapshot
    told,      \* the group knows of the target since the watch was last armed
    mute,      \* a crash came between the row and the message
    spent      \* flights, commands and upsets so far

watches == <<there, watch, reuse, cycle, told, mute, spent>>

NoSnapshot == [found |-> FALSE, complete |-> FALSE]

NoCycle == [step |-> "idle", id |-> 0, snapshot |-> NoSnapshot]

-----------------------------------------------------------------------------
WatchInit ==
    /\ there = FALSE
    /\ watch = [set |-> FALSE, id |-> 0, present |-> FALSE, missing |-> 0, due |-> FALSE]
    /\ reuse = [fresh |-> FALSE, found |-> FALSE]
    /\ cycle = NoCycle
    /\ told = FALSE
    /\ mute = FALSE
    /\ spent = [flights |-> 0, commands |-> 0, upsets |-> 0]

Upset == spent.upsets < MaxUpsets /\ spent' = [spent EXCEPT !.upsets = @ + 1]

Command == spent.commands < MaxCommands /\ spent' = [spent EXCEPT !.commands = @ + 1]

-----------------------------------------------------------------------------
\* The target comes or goes.
Fly ==
    /\ spent.flights < MaxFlights
    /\ spent' = [spent EXCEPT !.flights = @ + 1]
    /\ there' = ~there
    /\ UNCHANGED <<watch, reuse, cycle, told, mute>>

\* add: a new row, or the old one due at once and otherwise as it was.
AddWatch ==
    /\ Command
    /\ watch' = IF watch.set THEN [watch EXCEPT !.due = TRUE]
                ELSE [set |-> TRUE, id |-> watch.id + 1, present |-> FALSE,
                      missing |-> 0, due |-> TRUE]
    /\ told' = (watch.set /\ told)
    /\ mute' = (watch.set /\ mute)
    /\ UNCHANGED <<there, reuse, cycle>>

\* delete_one, delete_all.
DeleteWatch ==
    /\ watch.set
    /\ Command
    /\ watch' = [watch EXCEPT !.set = FALSE, !.due = FALSE]
    /\ UNCHANGED <<there, reuse, cycle, told, mute>>

\* next_check_at comes.
BecomesDue ==
    /\ watch.set
    /\ ~watch.due
    /\ watch' = [watch EXCEPT !.due = TRUE]
    /\ UNCHANGED <<there, reuse, cycle, told, mute, spent>>

\* snapshot_reuse_seconds are over.
ReuseEnds ==
    /\ reuse.fresh
    /\ reuse' = [reuse EXCEPT !.fresh = FALSE]
    /\ UNCHANGED <<there, watch, cycle, told, mute, spent>>

\* run_once: the watch is read as due; a fresh snapshot is used again, or the
\* nodes are asked.
RunOnce ==
    /\ cycle.step = "idle"
    /\ watch.set /\ watch.due
    /\ cycle' = IF reuse.fresh
                THEN [step |-> "recording", id |-> watch.id,
                      snapshot |-> [found |-> reuse.found, complete |-> TRUE]]
                ELSE [step |-> "scanning", id |-> watch.id, snapshot |-> NoSnapshot]
    /\ UNCHANGED <<there, watch, reuse, told, mute, spent>>

\* Every node answers, and the snapshot is kept for use again.
ScanComplete ==
    /\ cycle.step = "scanning"
    /\ cycle' = [cycle EXCEPT !.step = "recording",
                              !.snapshot = [found |-> there, complete |-> TRUE]]
    /\ reuse' = [fresh |-> TRUE, found |-> there]
    /\ UNCHANGED <<there, watch, told, mute, spent>>

\* Some nodes are silent, perhaps those that see the target.
ScanPartial ==
    /\ cycle.step = "scanning"
    /\ Upset
    /\ \E seen \in BOOLEAN :
           cycle' = [cycle EXCEPT !.step = "recording",
                                  !.snapshot = [found |-> there /\ seen, complete |-> FALSE]]
    /\ UNCHANGED <<there, watch, reuse, told, mute>>

\* The query is refused, or no node answers: the watch stays due.
ScanFails ==
    /\ cycle.step = "scanning"
    /\ Upset
    /\ cycle' = NoCycle
    /\ UNCHANGED <<there, watch, reuse, told, mute>>

\* record_result: the row after the snapshot, and whether to tell the group.  A
\* row that was deleted meanwhile is left alone.
Recorded(row, snapshot) ==
    LET armed == ~snapshot.found /\ snapshot.complete /\ row.missing = 1
    IN  [row EXCEPT
            !.present = IF snapshot.found THEN TRUE ELSE IF armed THEN FALSE ELSE @,
            !.missing = IF snapshot.found \/ armed THEN 0
                        ELSE IF snapshot.complete THEN @ + 1 ELSE @,
            !.due = FALSE]

RecordResult ==
    /\ cycle.step = "recording"
    /\ IF watch.set /\ watch.id = cycle.id
       THEN /\ watch' = Recorded(watch, cycle.snapshot)
            /\ cycle' = IF cycle.snapshot.found /\ ~watch.present
                        THEN [cycle EXCEPT !.step = "sending"] ELSE NoCycle
            /\ told' = (told /\ watch'.present)
            /\ mute' = (mute /\ watch'.present)
       ELSE cycle' = NoCycle /\ UNCHANGED <<watch, told, mute>>
    /\ UNCHANGED <<there, reuse, spent>>

\* send_proactive_markdown.
SendNotice ==
    /\ cycle.step = "sending"
    /\ cycle' = NoCycle
    /\ told' = (told \/ watch.id = cycle.id)
    /\ UNCHANGED <<there, watch, reuse, mute, spent>>

\* QQ does not take the notice.
SendFails ==
    /\ cycle.step = "sending"
    /\ Upset
    /\ cycle' = [cycle EXCEPT !.step = "rearming"]
    /\ UNCHANGED <<there, watch, reuse, told, mute>>

\* retry_notification: the row is armed again and due after its interval.
RetryNotification ==
    /\ cycle.step = "rearming"
    /\ cycle' = NoCycle
    /\ watch' = IF watch.set /\ watch.id = cycle.id
                THEN [watch EXCEPT !.present = FALSE, !.due = FALSE]
                ELSE watch
    /\ UNCHANGED <<there, reuse, told, mute, spent>>

\* The bot stops and starts again: the snapshot and the cycle are gone, the row
\* is not.
BotRestarts ==
    /\ Upset
    /\ cycle' = NoCycle
    /\ reuse' = [fresh |-> FALSE, found |-> FALSE]
    /\ mute' = (mute \/ cycle.step \in {"sending", "rearming"})
    /\ UNCHANGED <<there, watch, told>>

-----------------------------------------------------------------------------
CycleSteps ==
    ScanComplete \/ RecordResult \/ SendNotice \/ RetryNotification

WatchNext ==
    \/ CycleSteps \/ RunOnce \/ BecomesDue \/ ReuseEnds
    \/ ScanPartial \/ ScanFails \/ SendFails \/ BotRestarts
    \/ AddWatch \/ DeleteWatch \/ Fly

-----------------------------------------------------------------------------
WatchTypeOK ==
    /\ there \in BOOLEAN /\ told \in BOOLEAN /\ mute \in BOOLEAN
    /\ watch \in [set : BOOLEAN, id : 0..MaxCommands, present : BOOLEAN, missing : 0..1,
                  due : BOOLEAN]
    /\ reuse \in [fresh : BOOLEAN, found : BOOLEAN]
    /\ cycle \in [step : {"idle", "scanning", "recording", "sending", "rearming"},
                  id : 0..MaxCommands, snapshot : [found : BOOLEAN, complete : BOOLEAN]]
    /\ spent \in [flights : 0..MaxFlights, commands : 0..MaxCommands, upsets : 0..MaxUpsets]

\* A group that watches a target comes to know of it when it is there to stay,
\* unless the bot crashed just when it had to say so, and the watch is armed
\* again when the target is gone (sentry_watch.py 279-294, 440-456).
WatchSettles ==
    watch.set => IF there THEN watch.present /\ (told \/ mute) ELSE ~watch.present
=============================================================================
