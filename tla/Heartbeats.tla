----------------------------- MODULE Heartbeats -----------------------------
(***************************************************************************)
(* What the server knows of a detector client from its heartbeats: which   *)
(* windows it watches, how healthy it is, and when the rows of a window it *)
(* watches no more may go (app/server/intel_store.py, http_server.py,      *)
(* postgres_store.py, client/app/ui/main_window.py).                       *)
(*                                                                         *)
(* Time passes in heartbeat intervals (10 seconds).  A heartbeat carries   *)
(* no version: one that its client gave up may be handled after its        *)
(* successors.  Every handler keeps the heartbeat in memory first and      *)
(* writes a copy of what it then finds there to the database.  One client  *)
(* of one user; a row is a window's presence, with the time of its frame.  *)
(***************************************************************************)
EXTENDS Integers, FiniteSets, FiniteSetsExt

CONSTANTS
    Windows,        \* the windows a client may watch
    Restless,       \* those the player starts and leaves
    CaptureLease,   \* intervals a frame stays valid (45 s: 5)
    StartupGrace,   \* intervals the cleanup waits after a start (45 s: 5)
    MaxTurns,       \* bound on what the player does
    MaxBeatLosses   \* bound on timeouts, missed intervals and restarts

ASSUME BeatAssumption ==
    /\ IsFiniteSet(Windows) /\ Restless \subseteq Windows
    /\ {CaptureLease, StartupGrace} \subseteq Nat \ {0}
    /\ {MaxTurns, MaxBeatLosses} \subseteq Nat

VARIABLES
    client,     \* [open, sight of each window, last action was the stop, sent in this interval]
    posts,      \* the requests under way
    held,       \* the client's heartbeat in memory
    stored,     \* its row in the database
    frames,     \* the presence rows
    unready,    \* intervals until the cleanup looks at heartbeats
    calm,       \* for each window: intervals it was watched and nothing went wrong
    turns, losses

beats == <<client, posts, held, stored, frames, unready, calm, turns, losses>>

-----------------------------------------------------------------------------
Never == -1     \* a time that is not set

NoHeartbeat == [age |-> 4, sight |-> [w \in Windows |-> "off"],
                ids |-> {}, missing |-> [w \in Windows |-> Never], stopped |-> Never]

NoPost == [step |-> "none"]

Watched(sight) == {w \in Windows : sight[w] # "off"}

ActiveFrames == {w \in Windows : frames[w].active}

Later(age, most) == IF age = Never THEN Never ELSE Min({age + 1, most})

OlderBeat(b) ==
    [b EXCEPT !.age = Later(@, 4), !.stopped = Later(@, 1),
              !.missing = [w \in Windows |-> Later(@[w], 1)]]

\* _heartbeat_view, with half an interval of scheduling grace.
Health(b) ==
    CASE b.age <= 1 -> "online"
      [] b.age = 2 -> "degraded"
      [] b.age = 3 -> "offline"
      [] OTHER -> "removed"

\* _monitoring_target_state: the nodes the map and the bot are shown.
NodesOf(b) ==
    IF Health(b) = "removed" THEN {}
    ELSE {<<w, IF b.sight[w] = "blind" THEN "offline" ELSE Health(b)>> : w \in Watched(b.sight)}

-----------------------------------------------------------------------------
(* The client *)

\* What goes wrong is counted, and nothing is calm for a while.
Trouble ==
    /\ losses < MaxBeatLosses
    /\ losses' = losses + 1
    /\ calm' = [w \in Windows |-> 0]

\* The player starts to watch a window, loses sight of it or leaves it.
Turn(w, s) ==
    /\ client.open /\ turns < MaxTurns /\ client.sight[w] # s
    /\ LET sight == [client.sight EXCEPT ![w] = s]
       IN  client' = [client EXCEPT !.sight = sight, !.halted = Watched(sight) = {}]
    /\ turns' = turns + 1
    /\ calm' = IF client.sight[w] = "off" THEN [calm EXCEPT ![w] = 0] ELSE calm
    /\ UNCHANGED <<posts, held, stored, frames, unready, losses>>

\* Something else becomes the last action of an idle client.
OtherAction ==
    /\ client.open /\ client.halted /\ turns < MaxTurns
    /\ client' = [client EXCEPT !.halted = FALSE]
    /\ turns' = turns + 1
    /\ UNCHANGED <<posts, held, stored, frames, unready, calm, losses>>

Close ==
    /\ client.open /\ turns < MaxTurns
    /\ client' = [client EXCEPT !.open = FALSE, !.sight = [w \in Windows |-> "off"]]
    /\ turns' = turns + 1
    /\ UNCHANGED <<posts, held, stored, frames, unready, calm, losses>>

\* _publish_heartbeat.
SendBeat ==
    /\ client.open /\ ~client.sent /\ posts["now"] = NoPost
    /\ client' = [client EXCEPT !.sent = TRUE]
    /\ posts' = [posts EXCEPT !["now"] =
                    [step |-> "sent", sight |-> client.sight, halted |-> client.halted]]
    /\ UNCHANGED <<held, stored, frames, unready, calm, turns, losses>>

\* The client gives a heartbeat up; the server may still handle it.
GiveUp ==
    /\ Trouble
    /\ posts["now"] # NoPost /\ posts["late"] = NoPost
    /\ posts' = [posts EXCEPT !["now"] = NoPost, !["late"] = posts["now"]]
    /\ UNCHANGED <<client, held, stored, frames, unready, turns>>

Lost ==
    /\ Trouble
    /\ \E k \in {"now", "late"} :
          posts[k].step = "sent" /\ posts' = [posts EXCEPT ![k] = NoPost]
    /\ UNCHANGED <<client, held, stored, frames, unready, turns>>

-----------------------------------------------------------------------------
(* The server *)

\* Mutant of KeptBeat: a window listed again stays on the list of the missing.
KeptBeatStillMissing(b, post) ==
    LET listed == Watched(post.sight)
        known == b.ids \cup {w \in Windows : b.missing[w] # Never} \cup ActiveFrames
        fresh == [b EXCEPT !.age = 0, !.sight = post.sight]
    IN  IF listed # {}
        THEN [fresh EXCEPT
                !.ids = listed,
                !.missing = [w \in Windows |->
                    IF b.missing[w] = Never /\ w \in known \ listed THEN 0 ELSE b.missing[w]],
                !.stopped = Never]
        ELSE [fresh EXCEPT !.stopped = IF @ = Never /\ post.halted THEN 0 ELSE @]

\* record_heartbeat: windows that were known and are listed no more are
\* missing from now on; an idle client says nothing about single windows.
KeptBeat(b, post) ==
    LET listed == Watched(post.sight)
        known == b.ids \cup {w \in Windows : b.missing[w] # Never} \cup ActiveFrames
        fresh == [b EXCEPT !.age = 0, !.sight = post.sight]
    IN  IF listed # {}
        THEN [fresh EXCEPT
                !.ids = listed,
                !.missing = [w \in Windows |->
                    CASE w \in listed -> Never
                      [] w \in known \ listed /\ b.missing[w] = Never -> 0
                      [] OTHER -> b.missing[w]],
                !.stopped = Never]
        ELSE [fresh EXCEPT !.stopped = IF @ = Never /\ post.halted THEN 0 ELSE @]

HandleBeat(k) ==
    /\ posts[k].step = "sent"
    /\ held' = KeptBeat(held, posts[k])
    /\ posts' = [posts EXCEPT ![k] = [step |-> "copied", beat |-> held']]
    /\ calm' = IF k = "late" THEN [w \in Windows |-> 0] ELSE calm
    /\ UNCHANGED <<client, stored, frames, unready, turns, losses>>

\* The presence of a window that is seen, in a frame of now, and
\* refresh_detector_heartbeat: the upload is a sign of life of the client that
\* listed the window.
UploadFrame(w) ==
    /\ client.open /\ client.sight[w] = "seen"
    /\ posts["upload"] = NoPost
    /\ frames[w] # [active |-> TRUE, age |-> 0]
    /\ frames' = [frames EXCEPT ![w] = [active |-> TRUE, age |-> 0]]
    /\ IF held # NoHeartbeat /\ w \in Watched(held.sight)
       THEN /\ held' = [held EXCEPT !.age = 0]
            /\ posts' = [posts EXCEPT !["upload"] = [step |-> "copied", beat |-> held']]
       ELSE UNCHANGED <<held, posts>>
    /\ UNCHANGED <<client, stored, unready, calm, turns, losses>>

\* The whole copy is written, whatever has happened in memory meanwhile.
StoreBeat(k) ==
    /\ posts[k].step = "copied"
    /\ stored' = posts[k].beat
    /\ posts' = [posts EXCEPT ![k] = NoPost]
    /\ UNCHANGED <<client, held, frames, unready, calm, turns, losses>>

-----------------------------------------------------------------------------
(* The cleanup *)

\* _expire_stale_detector_ocr_active_intel: why the rows of a window are to
\* go.  What is said of the client comes before what is said of the window.
Cause(w) ==
    CASE held = NoHeartbeat -> "none"
      [] held.age <= 1 /\ held.stopped # Never -> "monitor_stopped"
      [] held.age > 1 -> "heartbeat_stale"
      [] held.missing[w] # Never -> "target_removed"
      [] OTHER -> "none"

\* A row outlives the stop of its client, and every row outlives its frame,
\* by a grace shorter than an interval.
BeatIsDue(w) ==
    /\ frames[w].active /\ frames[w].age >= 1
    /\ CASE Cause(w) = "monitor_stopped" -> held.stopped >= 1
         [] Cause(w) = "heartbeat_stale" -> held.age >= 3
         [] Cause(w) = "target_removed" -> held.missing[w] >= 1
         [] OTHER -> FALSE

LeaseIsOver(w) == frames[w].active /\ frames[w].age >= CaptureLease

Gone == {w \in Windows : LeaseIsOver(w) \/ BeatIsDue(w)}

ExpireFrames ==
    /\ unready = 0
    /\ Gone # {}
    /\ frames' = [w \in Windows |-> IF w \in Gone THEN [active |-> FALSE, age |-> 0] ELSE frames[w]]
    /\ UNCHANGED <<client, posts, held, stored, unready, calm, turns, losses>>

\* A restart reads the stored heartbeat back and waits before it judges it.
RestartServer ==
    /\ Trouble
    /\ held' = stored
    /\ unready' = IF stored = NoHeartbeat THEN 0 ELSE StartupGrace
    /\ posts' = [k \in DOMAIN posts |-> NoPost]
    /\ UNCHANGED <<client, stored, frames, turns>>

-----------------------------------------------------------------------------
OlderPost(post) == IF post.step = "copied" THEN [post EXCEPT !.beat = OlderBeat(@)] ELSE post

\* Ten seconds pass.  What an open client or the server does not get done in
\* an interval counts as trouble.
PassInterval ==
    /\ client' = [client EXCEPT !.sent = FALSE]
    /\ posts' = [k \in DOMAIN posts |-> OlderPost(posts[k])]
    /\ held' = IF held = NoHeartbeat THEN held ELSE OlderBeat(held)
    /\ stored' = IF stored = NoHeartbeat THEN stored ELSE OlderBeat(stored)
    /\ frames' = [w \in Windows |->
                    IF frames[w].active THEN [frames[w] EXCEPT !.age = Later(@, CaptureLease)]
                    ELSE frames[w]]
    /\ unready' = Max({unready - 1, 0})
    /\ UNCHANGED turns

Punctual ==
    /\ client.open => client.sent
    /\ posts["now"] = NoPost /\ posts["upload"] = NoPost
    /\ \A w \in Windows : client.sight[w] = "seen" => frames[w].active

BeatTick ==
    /\ Punctual
    /\ PassInterval
    /\ calm' = [w \in Windows |-> IF client.sight[w] = "off" THEN 0 ELSE Min({calm[w] + 1, 2})]
    /\ UNCHANGED losses

SlowTick == ~Punctual /\ PassInterval /\ Trouble

BeatInit ==
    /\ client = [open |-> TRUE, sight |-> [w \in Windows |-> "seen"], halted |-> FALSE, sent |-> FALSE]
    /\ posts = [k \in {"now", "late", "upload"} |-> NoPost]
    /\ held = NoHeartbeat /\ stored = NoHeartbeat
    /\ frames = [w \in Windows |-> [active |-> FALSE, age |-> 0]]
    /\ unready = 0
    /\ calm = [w \in Windows |-> 0]
    /\ turns = 0 /\ losses = 0

BeatNext ==
    \/ \E w \in Restless, s \in {"off", "blind", "seen"} : Turn(w, s)
    \/ OtherAction \/ Close \/ SendBeat \/ GiveUp \/ Lost
    \/ \E k \in {"now", "late"} : HandleBeat(k)
    \/ \E w \in Windows : UploadFrame(w)
    \/ \E k \in DOMAIN posts : StoreBeat(k)
    \/ ExpireFrames \/ RestartServer \/ BeatTick \/ SlowTick

\* What is done within every interval.
Duties ==
    \/ SendBeat
    \/ \E w \in Windows : UploadFrame(w)
    \/ \E k \in {"now", "late"} : HandleBeat(k)
    \/ \E k \in DOMAIN posts : StoreBeat(k)

-----------------------------------------------------------------------------
BeatKeys == [age : 0..4, sight : [Windows -> {"off", "blind", "seen"}], ids : SUBSET Windows,
             missing : [Windows -> {Never, 0, 1}], stopped : {Never, 0, 1}]

BeatTypeOK ==
    /\ held \in BeatKeys /\ stored \in BeatKeys
    /\ client.sight \in [Windows -> {"off", "blind", "seen"}]
    /\ frames \in [Windows -> [active : BOOLEAN, age : 0..CaptureLease]]
    /\ unready \in 0..StartupGrace
    /\ calm \in [Windows -> 0..2]
    /\ turns \in 0..MaxTurns /\ losses \in 0..MaxBeatLosses

\* A window that its client has watched for two intervals in which nothing
\* went wrong never loses its row to what the heartbeats say, whatever they
\* said before (intel_store.py 2738).
LiveWindowsStay ==
    [][\A w \in Windows :
          frames[w].active /\ ~frames'[w].active => calm[w] < 2 \/ frames[w].age >= CaptureLease]_beats

Truth == IF client.open THEN {<<w, IF client.sight[w] = "blind" THEN "offline" ELSE "online">> :
                                w \in Watched(client.sight)}
         ELSE {}

\* What is shown of a client comes to be what it does, and the rows of windows
\* nobody watches end (http_server.py 801, intel_store.py 2915).
BeliefsComeTrue ==
    <>[](NodesOf(held) = Truth /\ \A w \in ActiveFrames : client.sight[w] # "off")
=============================================================================
