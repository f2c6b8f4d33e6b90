---------------------------- MODULE ClientWorkers ---------------------------
(***************************************************************************)
(* What goes on behind the windows of the desktop client: the upload queue,*)
(* the reading of names, and the update of the client.  A query's result   *)
(* goes through an upload slot of its own; apart from that they share no   *)
(* state, so each is put to work alone.                                    *)
(***************************************************************************)
EXTENDS UploadQueue, OcrQuery, Updater

VARIABLE machine    \* "uploads", "names" or "updates", for good

vars == <<uploads, query, update, machine>>

-----------------------------------------------------------------------------
Init ==
    /\ UploadsInit
    /\ QueryInit
    /\ UpdaterInit
    /\ machine \in {"uploads", "names", "updates"}

ByUploads(step) == machine = "uploads" /\ step /\ UNCHANGED <<query, update, machine>>

ByNames(step) == machine = "names" /\ step /\ UNCHANGED <<uploads, update, machine>>

ByUpdates(step) == machine = "updates" /\ step /\ UNCHANGED <<uploads, query, machine>>

Next == ByUploads(UploadsNext) \/ ByNames(QueryNext) \/ ByUpdates(UpdaterNext)

Spec == Init /\ [][Next]_vars

\* The upload thread makes its passes, the heartbeat's interval and the back-off
\* end, the server handles what has reached it and answers.  The slot works off
\* its line, and a monitored window is looked at again and again.  The updater and
\* its script go on, and the user closes the client some time when it has nothing
\* to do, and starts it again.
Fairness ==
    /\ WF_uploads(machine = "uploads" /\ BeatComesDue)
    /\ WF_uploads(machine = "uploads" /\ BackOffEnds)
    /\ WF_uploads(machine = "uploads" /\ UploadPass)
    /\ WF_uploads(machine = "uploads" /\ Succeed)
    /\ WF_uploads(machine = "uploads" /\ (\E report \in wire : Handle(report)))
    /\ WF_query(machine = "names" /\ OcrSteps)
    /\ \A w \in QueryWindows : WF_query(machine = "names" /\ Scan(w))
    /\ WF_update(machine = "updates" /\ ClientSteps)
    /\ WF_update(machine = "updates" /\ ScriptSteps)
    /\ WF_update(machine = "updates" /\ StartClient)
    /\ WF_update(machine = "updates" /\ Settled /\ Quit)

FairSpec == Spec /\ Fairness

-----------------------------------------------------------------------------
TypeOK == UploadsTypeOK /\ QueryTypeOK /\ UpdaterTypeOK

\* When requests stop failing, every upload is sent or expires, every changed
\* roster is read or given up, nothing starves behind what goes first, and the
\* client comes to be the published release unless that was withdrawn
\* (reliable_uploads.py 332, ocr_scheduler.py 20, updater.py 1437).
WorkGetsDone == <>[](QueueDrains /\ RostersRead /\ UpdateArrives)
=============================================================================
