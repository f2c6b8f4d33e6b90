----------------------------- MODULE UploadQueue ----------------------------
(***************************************************************************)
(* The client's upload queue (client/app/ui/reliable_uploads.py).  It holds*)
(* the latest presence and the latest OCR snapshot of each window and the  *)
(* latest heartbeat, saves the first two to disk, and one thread sends them*)
(* one at a time.  A change of server or key replaces the whole queue, old *)
(* thread and all, while the old thread may still wait for an answer       *)
(* (main_window.py _reset_upload_manager); both use the same file.         *)
(*                                                                         *)
(* The stamp of an upload is its number among those of its window and kind.*)
(* The server keeps the newest it has handled (module Monitoring).         *)
(***************************************************************************)
EXTENDS Queues, SequencesExt

CONSTANTS
    Windows,
    MaxSubmits,     \* bound on the uploads submitted
    MaxTroubles     \* bound on the requests that fail, the resets of the queue and
                    \* the restarts of the client

ASSUME UploadBoundsAssumption == {MaxSubmits, MaxTroubles} \subseteq Nat

VARIABLES
    reported,   \* how many of each kind each window has submitted
    submits,
    presence,   \* the presence slots, a dict: the order of the keys' arrival
    snapshots,  \* the snapshot slots, earliest expiry first
    heartbeat,  \* the heartbeat slot
    beatDue,    \* a heartbeat may be sent: the last was long enough ago
    sending,    \* the upload the thread waits for
    retry,      \* when to send again: "now", "later", "never"
    file,       \* the slots on disk
    retired,    \* a replaced queue whose thread still waits for an answer
    spoilt,     \* what a replaced queue spoilt by writing the file after its
                \* successor: "no", "file", or "slots" once it has been loaded
    lapsed,     \* snapshots up to this stamp have expired
    wire,       \* reports the server has not handled; a heartbeat is not followed
    handled,    \* the newest of each kind and window that the server answered
    troubles

slots == <<presence, snapshots, heartbeat>>
uploads == <<reported, submits, slots, beatDue, sending, retry, file, retired,
             spoilt, lapsed, wire, handled, troubles>>

-----------------------------------------------------------------------------
Saved == {"presence", "snapshot"}

Nothing == [kind |-> "none"]
Report(kind, w, stamp) == [kind |-> kind, window |-> w, stamp |-> stamp]
Beat(stamp, task) == [kind |-> "heartbeat", stamp |-> stamp, task |-> task]

Unexpired(queue) == Without(queue, {r \in Range(queue) : r.stamp <= lapsed[r.window]})
Replaced(queue, w) == \E i \in DOMAIN queue : queue[i].window = w

\* A presence never expires and keeps the place of the one it replaces, as
\* a dict does.
PutPresence(r) ==
    IF Replaced(presence, r.window)
    THEN [i \in DOMAIN presence |-> IF presence[i].window = r.window THEN r ELSE presence[i]]
    ELSE Append(presence, r)

\* A snapshot lives 15 seconds, so the one submitted last expires last.
PutSnapshot(r) == Append(Without(snapshots, {x \in Range(snapshots) : x.window = r.window}), r)

OnDisk(p, s) == [presence |-> p, snapshots |-> Unexpired(s)]

\* _persist_snapshots_locked, called by the queue in use.
Persist ==
    /\ file' = OnDisk(presence', snapshots')
    /\ spoilt' = IF spoilt = "file" THEN "no" ELSE spoilt

\* _next_upload, and the snapshot _run sends while a heartbeat must wait.
NextUpload(live) ==
    IF heartbeat # Nothing /\ heartbeat.task THEN heartbeat
    ELSE IF presence # <<>> THEN Head(presence)
    ELSE IF heartbeat # Nothing /\ beatDue THEN heartbeat
    ELSE IF live # <<>> THEN Head(live)
    ELSE Nothing

-----------------------------------------------------------------------------
UploadsInit ==
    /\ reported = [kind \in Saved |-> [w \in Windows |-> 0]]
    /\ submits = 0
    /\ presence = <<>> /\ snapshots = <<>> /\ heartbeat = Nothing
    /\ beatDue = TRUE
    /\ sending = Nothing /\ retry = "now"
    /\ file = [presence |-> <<>>, snapshots |-> <<>>]
    /\ retired = Nothing /\ spoilt = "no"
    /\ lapsed = [w \in Windows |-> 0]
    /\ wire = {}
    /\ handled = [kind \in Saved |-> [w \in Windows |-> 0]]
    /\ troubles = 0

Submit ==
    /\ submits < MaxSubmits
    /\ submits' = submits + 1

\* submit_presence
SubmitPresence(w) ==
    LET stamp == reported["presence"][w] + 1
    IN  /\ Submit
        /\ reported' = [reported EXCEPT !["presence"][w] = stamp]
        /\ presence' = PutPresence(Report("presence", w, stamp))
        /\ UNCHANGED <<snapshots, heartbeat, beatDue, sending, retry, retired, lapsed,
                       wire, handled, troubles>>
        /\ Persist

\* submit_snapshot
SubmitSnapshot(w) ==
    LET stamp == reported["snapshot"][w] + 1
    IN  /\ Submit
        /\ reported' = [reported EXCEPT !["snapshot"][w] = stamp]
        /\ snapshots' = PutSnapshot(Report("snapshot", w, stamp))
        /\ UNCHANGED <<presence, heartbeat, beatDue, sending, retry, retired, lapsed,
                       wire, handled, troubles>>
        /\ Persist

\* submit_heartbeat: at the interval, or for a change of state (a task).
SubmitHeartbeat(task) ==
    /\ Submit
    /\ heartbeat' = Beat(submits', task)
    /\ UNCHANGED <<reported, presence, snapshots, beatDue, sending, retry, file, retired,
                   spoilt, lapsed, wire, handled, troubles>>

-----------------------------------------------------------------------------
(* Time *)

\* The snapshots of a window grow too old.
Lapse(w) ==
    /\ lapsed[w] < reported["snapshot"][w]
    /\ lapsed' = [lapsed EXCEPT ![w] = reported["snapshot"][w]]
    /\ UNCHANGED <<reported, submits, slots, beatDue, sending, retry, file, retired, spoilt,
                   wire, handled, troubles>>

BeatComesDue ==
    /\ ~beatDue /\ beatDue' = TRUE
    /\ UNCHANGED <<reported, submits, slots, sending, retry, file, retired, spoilt, lapsed,
                   wire, handled, troubles>>

BackOffEnds ==
    /\ retry = "later" /\ retry' = "now"
    /\ UNCHANGED <<reported, submits, slots, beatDue, sending, file, retired, spoilt, lapsed,
                   wire, handled, troubles>>

-----------------------------------------------------------------------------
(* The upload thread *)

\* A pass of _run that drops what has expired: the heartbeat after a minute.
DropExpired(beat) ==
    /\ sending = Nothing
    /\ \/ Unexpired(snapshots) # snapshots
       \/ beat # heartbeat
    /\ snapshots' = Unexpired(snapshots)
    /\ heartbeat' = beat
    /\ UNCHANGED <<reported, submits, presence, beatDue, sending, retry, retired, lapsed,
                   wire, handled, troubles>>
    /\ IF snapshots' = snapshots THEN UNCHANGED <<file, spoilt>> ELSE Persist

\* A pass of _run that sends: nothing in the slots has expired.
Send ==
    LET upload == NextUpload(snapshots)
    IN  /\ sending = Nothing /\ retry = "now"
        /\ Unexpired(snapshots) = snapshots
        /\ upload # Nothing
        /\ sending' = upload
        /\ wire' = IF upload.kind = "heartbeat" THEN wire ELSE wire \cup {upload}
        /\ beatDue' = (beatDue /\ upload.kind # "heartbeat")
        /\ UNCHANGED <<reported, submits, slots, retry, file, retired, spoilt, lapsed,
                       handled, troubles>>

\* Mutant of Discard: the slot is emptied, whatever it holds by now.
DiscardSlot(upload) ==
    /\ heartbeat' = IF upload.kind = "heartbeat" THEN Nothing ELSE heartbeat
    /\ presence' = Without(presence, {r \in Range(presence) :
                                upload.kind = "presence" /\ r.window = upload.window})
    /\ snapshots' = Without(snapshots, {r \in Range(snapshots) :
                                upload.kind = "snapshot" /\ r.window = upload.window})
    /\ IF <<presence', snapshots'>> = <<presence, snapshots>>
       THEN UNCHANGED <<file, spoilt>>
       ELSE Persist

\* _discard: unless the slot holds another upload by now.
Discard(upload) ==
    /\ heartbeat' = IF heartbeat = upload THEN Nothing ELSE heartbeat
    /\ presence' = Without(presence, {upload})
    /\ snapshots' = Without(snapshots, {upload})
    /\ IF <<presence', snapshots'>> = <<presence, snapshots>>
       THEN UNCHANGED <<file, spoilt>>
       ELSE Persist

Trouble ==
    /\ troubles < MaxTroubles
    /\ troubles' = troubles + 1

Settle(upload) ==
    /\ wire' = wire \ {upload}
    /\ handled' = IF upload.kind = "heartbeat" THEN handled
                  ELSE [handled EXCEPT ![upload.kind][upload.window] = Max({@, upload.stamp})]

\* The server handles a report, whether or not somebody still waits for it.
Handle(upload) ==
    /\ Settle(upload)
    /\ UNCHANGED <<reported, submits, slots, beatDue, sending, retry, file, retired, spoilt,
                   lapsed, troubles>>

\* _send, the answer is a success.
Succeed ==
    /\ sending # Nothing /\ sending \notin wire
    /\ sending' = Nothing
    /\ retry' = "now"
    /\ Discard(sending)
    /\ UNCHANGED <<reported, submits, beatDue, retired, lapsed, wire, handled, troubles>>

\* _send, no answer or a server error: the server may still handle it.
Fail ==
    /\ sending # Nothing
    /\ Trouble
    /\ sending' = Nothing
    /\ retry' = "later"
    /\ UNCHANGED <<reported, submits, slots, beatDue, file, retired, spoilt, lapsed, wire,
                   handled>>

\* _send, the server refuses the upload for good.
Refuse ==
    /\ sending # Nothing /\ (sending.kind = "heartbeat" \/ sending \in wire)
    /\ Trouble
    /\ Settle(sending)
    /\ sending' = Nothing
    /\ Discard(sending)
    /\ UNCHANGED <<reported, submits, beatDue, retry, retired, lapsed>>

\* _send, 401 or 403: nothing is sent any more, and the slots are kept.
FailAuthentication ==
    /\ sending # Nothing /\ (sending.kind = "heartbeat" \/ sending \in wire)
    /\ Trouble
    /\ wire' = wire \ {sending}
    /\ sending' = Nothing
    /\ retry' = "never"
    /\ UNCHANGED <<reported, submits, slots, beatDue, file, retired, spoilt, lapsed, handled>>

-----------------------------------------------------------------------------
(* Replacement and restart *)

\* _load_snapshots, in a new ReliableUploadManager.
Load ==
    /\ presence' = file.presence
    /\ snapshots' = Unexpired(file.snapshots)
    /\ heartbeat' = Nothing
    /\ beatDue' = TRUE
    /\ sending' = Nothing /\ retry' = "now"
    /\ spoilt' = IF spoilt = "no" THEN "no" ELSE "slots"
    /\ UNCHANGED <<reported, submits, file, lapsed, wire, handled>>

\* _reset_upload_manager: the old thread ends after the answer it waits for.
Reset ==
    /\ Trouble
    /\ retired = Nothing
    /\ retired' = IF sending = Nothing THEN Nothing
                  ELSE [kind |-> "queue", sending |-> sending,
                        presence |-> presence, snapshots |-> snapshots]
    /\ Load

\* The old thread gets its answer: a success takes the upload out of the old
\* slots and writes these to the common file.
RetiredEnds(answered) ==
    /\ retired # Nothing
    /\ answered => retired.sending \notin wire
    /\ retired' = Nothing
    /\ IF answered /\ retired.sending \in Range(retired.presence \o retired.snapshots)
       THEN /\ file' = OnDisk(Without(retired.presence, {retired.sending}),
                              Without(retired.snapshots, {retired.sending}))
            /\ spoilt' = IF spoilt = "no" /\ file' # OnDisk(presence, snapshots)
                         THEN "file" ELSE spoilt
       ELSE UNCHANGED <<file, spoilt>>
    /\ UNCHANGED <<reported, submits, slots, beatDue, sending, retry, lapsed, wire, handled,
                   troubles>>

\* The client ends, in whatever state, and starts again.
Restart ==
    /\ Trouble
    /\ retired' = Nothing
    /\ Load

-----------------------------------------------------------------------------
Submissions ==
    \/ \E w \in Windows : SubmitPresence(w) \/ SubmitSnapshot(w)
    \/ \E task \in BOOLEAN : SubmitHeartbeat(task)

UploadFaults == Fail \/ Refuse \/ FailAuthentication

UploadPass == Send \/ DropExpired(heartbeat)

UploadsNext ==
    \/ Submissions
    \/ \E w \in Windows : Lapse(w)
    \/ BeatComesDue \/ BackOffEnds
    \/ UploadPass \/ DropExpired(Nothing)
    \/ \E upload \in wire : Handle(upload)
    \/ Succeed \/ UploadFaults
    \/ Reset \/ Restart
    \/ \E answered \in BOOLEAN : RetiredEnds(answered)

-----------------------------------------------------------------------------
UploadsTypeOK ==
    LET queue(kind) == Seq([kind : {kind}, window : Windows, stamp : Nat \ {0}])
        beat == [kind : {"heartbeat"}, stamp : Nat \ {0}, task : BOOLEAN]
        saved == [presence : queue("presence"), snapshots : queue("snapshot")]
        upload == beat \cup [kind : Saved, window : Windows, stamp : Nat \ {0}]
    IN  /\ <<presence, snapshots>> \in queue("presence") \X queue("snapshot")
        /\ IsInjective([i \in DOMAIN presence |-> presence[i].window])
        /\ IsInjective([i \in DOMAIN snapshots |-> snapshots[i].window])
        /\ heartbeat \in beat \cup {Nothing}
        /\ file \in saved
        /\ sending \in upload \cup {Nothing} /\ \A r \in wire : r \in upload /\ r.kind # "heartbeat"
        /\ retry \in {"now", "later", "never"}
        /\ retired # Nothing => retired.sending \in upload
        /\ spoilt \in {"no", "file", "slots"}

\* The latest count and the latest names of every window are waiting to be sent,
\* on disk too, until the server has handled them or they are too old - whatever
\* was replaced while it was being sent, failed, or was restored after a restart
\* (reliable_uploads.py 303).  Not if a queue that was replaced has written the
\* common file after its successor, and the file has been loaded since.
NothingForgotten ==
    spoilt # "slots" =>
        \A w \in Windows :
            /\ \/ handled["presence"][w] >= reported["presence"][w]
               \/ Report("presence", w, reported["presence"][w]) \in Range(presence)
            /\ \/ handled["snapshot"][w] >= reported["snapshot"][w]
               \/ lapsed[w] >= reported["snapshot"][w]
               \/ Report("snapshot", w, reported["snapshot"][w]) \in Range(snapshots)

\* When the requests stop failing, everything waiting is sent or expires, and
\* nothing starves behind uploads that go first (reliable_uploads.py 332) -
\* unless the server refuses the key, when the queue stands still for good.
QueueDrains == retry = "never" \/ slots = <<<<>>, <<>>, Nothing>>
=============================================================================
