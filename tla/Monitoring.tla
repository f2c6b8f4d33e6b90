----------------------------- MODULE Monitoring -----------------------------
(***************************************************************************)
(* The presence and OCR uploads of monitoring windows, and the server's    *)
(* choice of one primary source per star system (app/server/intel_store.py,*)
(* capture_state.py, source_authority.py).                                 *)
(*                                                                         *)
(* A window numbers the frames of each monitoring session and uploads, for *)
(* every frame, how many hostiles it shows; reading the names takes longer *)
(* and is uploaded afterwards with the frame's fingerprint.  Uploads are   *)
(* retried, so an old one may arrive late or twice.  A fingerprint is the  *)
(* number of the frame that first showed the picture.  The stamp of an     *)
(* upload stands for its presence_version and seen_at, which one window    *)
(* increases together.  Time passes in ticks of 15 seconds.                *)
(***************************************************************************)
EXTENDS SourceAuthority

CONSTANTS
    Legacy,         \* windows that may upload without capture evidence
    Qualities,      \* roster_quality values the windows report
    SampleWindow,   \* OCR outcomes remembered per row (5 in the code)
    TruncatedLimit, \* truncated outcomes that demote a primary (3)
    MissingLimit,   \* frames without a roster that demote a primary (3)
    Lease,          \* ticks a capture stays valid (45 s: 3)
    Grace,          \* ticks a missing roster is tolerated (15 s: 1)
    MaxStamp,       \* bound on the uploads of each window
    MaxEpoch,       \* bound on the sessions of each window
    MaxRestarts     \* bound on the server restarts

ASSUME LimitsAssumption ==
    /\ Legacy \subseteq Clients
    /\ Qualities \subseteq {"complete", "truncated", "unknown"}
    /\ {SampleWindow, TruncatedLimit, MissingLimit, Lease} \subseteq Nat \ {0}
    /\ Grace \in Nat
    /\ {MaxStamp, MaxEpoch} \subseteq [Clients -> Nat]
    /\ MaxRestarts \in Nat

VARIABLES
    rows,       \* the presence row of each window in each system
    warm,       \* the startup grace of the cleanup is over
    restarts

vars == <<rows, warm, restarts>>

-----------------------------------------------------------------------------
(* Rows *)

NoCapture == [epoch |-> 0, seq |-> 0, print |-> 0]

NoRoster == [samples |-> <<>>, print |-> 0, named |-> FALSE, age |-> 0,
             waiting |-> FALSE, since |-> 0, frames |-> 0, seen |-> 0]

RowsOf(c) == {k \in Stored(rows) : k[1] = c}

\* The newest of the captures stored for a window, in whatever system.
Latest(c) ==
    LET captures == {rows[k].cap : k \in RowsOf(c)} \ {NoCapture}
    IN  IF captures = {} THEN NoCapture
        ELSE CHOOSE x \in captures :
                \A y \in captures : \/ x.epoch > y.epoch
                                    \/ x.epoch = y.epoch /\ x.seq >= y.seq

LastStamp(c) == Max({0} \cup {rows[k].stamp : k \in RowsOf(c)})

\* capture_is_current for a presence upload.
PresenceIsCurrent(c, cap) ==
    LET latest == Latest(c)
    IN  \/ latest = NoCapture
        \/ cap # NoCapture /\ \/ cap.epoch > latest.epoch
                              \/ cap.epoch = latest.epoch /\ cap.seq >= latest.seq

\* capture_is_current for an OCR upload, which may lag an unchanged picture.
OcrIsCurrent(c, cap) ==
    LET latest == Latest(c)
    IN  \/ latest = NoCapture /\ cap = NoCapture
        \/ /\ cap # NoCapture
           /\ cap.epoch = latest.epoch
           /\ cap.seq <= latest.seq
           /\ cap.print = latest.print

-----------------------------------------------------------------------------
(* Roster evidence and takeover *)

\* update_roster_wait: the new frames without a usable roster are counted.
RosterWait(row) ==
    LET roster == row.roster
        settled == row.cap = NoCapture \/ (roster.named /\ roster.print = row.cap.print)
    IN  CASE row.count = 0 -> NoRoster
          [] row.count > 0 /\ settled ->
                [roster EXCEPT !.waiting = FALSE, !.since = 0, !.frames = 0, !.seen = 0]
          [] row.count > 0 /\ ~settled ->
                [roster EXCEPT
                    !.waiting = TRUE,
                    !.frames = IF row.cap.seq > roster.seen THEN Min({@ + 1, MissingLimit}) ELSE @,
                    !.seen = Max({@, row.cap.seq})]

\* Mutant of Departed: a row that leaves is deleted.
DepartedDeleted(row) == NoRow

\* A row that leaves; nothing reads the age of its capture any more.
Departed(row) == [row EXCEPT !.left = TRUE, !.age = 0]

Waited(row) == [row EXCEPT !.roster = RosterWait(row)]

LastQuality(row) ==
    IF row.roster.samples = <<>> THEN "unknown"
    ELSE row.roster.samples[Len(row.roster.samples)].quality

Truncations(row) ==
    Cardinality({i \in DOMAIN row.roster.samples : row.roster.samples[i].quality = "truncated"})

TruncatedTooOften(row) == Truncations(row) >= TruncatedLimit

MissingTooLong(row) ==
    /\ row.count > 0
    /\ row.roster.waiting /\ row.roster.since >= Grace
    /\ row.roster.frames >= MissingLimit

FreshCapture(row) == row.cap # NoCapture /\ row.age <= Lease

ReadsWell(row) == LastQuality(row) = "complete" /\ row.roster.print = row.cap.print

\* A standby that may replace a primary whose rosters are truncated.
QualifiedForTruncated(row) == FreshCapture(row) /\ (row.count = 0 \/ ReadsWell(row))

\* A standby that may replace a primary without a roster: never a zero.
QualifiedForMissing(row) ==
    /\ row.count > 0
    /\ row.roster.named
    /\ ReadsWell(row)
    /\ FreshCapture(row) /\ row.roster.age <= Lease

\* A takeover by the oldest of the qualified standbys, if there is one.
TakeOver(table, s, qualified) ==
    IF qualified = {} THEN table
    ELSE Requeue(table, PrimaryAmong(table, qualified, s))

\* reconcile_missing_roster
ReconcileMissing(table, s) ==
    LET primary == Primary(table, s)
        standbys == ResidentsOf(table, s) \ {primary}
    IN  IF primary = NoKey \/ ~MissingTooLong(table[primary]) THEN table
        ELSE TakeOver(table, s, {k \in standbys : QualifiedForMissing(table[k])})

\* The second half of record_roster_quality.
ReconcileTruncated(table, s) ==
    LET primary == Primary(table, s)
        standbys == ResidentsOf(table, s) \ {primary}
    IN  IF primary = NoKey \/ ~TruncatedTooOften(table[primary]) THEN table
        ELSE TakeOver(table, s, {k \in standbys : QualifiedForTruncated(table[k])})

Reconcile(table, s) ==
    LET reconciled == ReconcileMissing(table, s)
    IN  IF reconciled # table THEN reconciled ELSE ReconcileTruncated(table, s)

\* An OCR outcome as evidence: one sample per frame, the last ones kept.
Sampled(row, u) ==
    LET sample == [seq |-> u.cap.seq, quality |-> IF u.named THEN u.quality ELSE "unknown"]
        samples == Append(row.roster.samples, sample)
        start == Max({1, Len(samples) - SampleWindow + 1})
    IN  Waited([row EXCEPT
                  !.roster = [@ EXCEPT
                      !.samples = SubSeq(samples, start, Len(samples)),
                      !.print = u.cap.print,
                      !.named = u.named,
                      !.age = 0]])

\* Mutant of NewEvidence: a retry counts again.
NewEvidenceAny(row, cap) == cap # NoCapture

NewEvidence(row, cap) ==
    /\ cap # NoCapture
    /\ \A i \in DOMAIN row.roster.samples : row.roster.samples[i].seq < cap.seq

\* record_roster_quality
RecordQuality(table, k, u) ==
    IF k \in Residents(table) /\ NewEvidence(table[k], u.cap)
    THEN Reconcile([table EXCEPT ![k] = Sampled(@, u)], k[2])
    ELSE table

-----------------------------------------------------------------------------
(* Uploads *)

\* Frames a window may capture next: the same again, the next one of its
\* session or the first of a new session; without evidence if it is legacy.
NextCaptures(c) ==
    LET latest == Latest(c)
    IN  {[epoch |-> latest.epoch + 1, seq |-> 1, print |-> 1]}
        \cup (IF latest = NoCapture THEN {}
              ELSE {latest}
                   \cup {[latest EXCEPT !.seq = @ + 1, !.print = p] :
                           p \in {latest.print, latest.seq + 1}})
        \cup (IF latest = NoCapture /\ c \in Legacy THEN {NoCapture} ELSE {})

Statuses == {"active", "stopped"}

FreshUploads(c) ==
    {u \in [stamp : {LastStamp(c) + 1}, cap : NextCaptures(c), system : Systems,
            count : {0, 1}, status : Statuses] :
        /\ u.stamp <= MaxStamp[c] /\ u.cap.epoch <= MaxEpoch[c]
        /\ u.status # "active" => u.count = 0}

\* Earlier uploads that arrive late or again.  One that is stored is repeated
\* as it was.  One of an older frame, of an older session or of the binary
\* without capture evidence that ran before may bear any stamp, for the clock
\* of a machine can be set back.
LateUploads(c) ==
    LET latest == Latest(c)
        older == [epoch : {latest.epoch}, seq : 1..latest.seq - 1, print : {1}]
                 \cup [epoch : 1..latest.epoch - 1, seq : {1, latest.seq + 1}, print : {1}]
                 \cup {NoCapture}
    IN  {u \in [stamp : 1..MaxStamp[c], cap : older \cup {latest}, system : Systems,
                count : {0, 1}, status : {"active"}] :
            u.cap = latest =>
                /\ u.stamp <= LastStamp(c)
                /\ \A k \in RowsOf(c) : rows[k].stamp = u.stamp =>
                        u.system = k[2] /\ u.cap = rows[k].cap /\ u.count = rows[k].count}

\* OCR results of the latest frame or of an earlier one of its session.  A
\* result is stamped when it is made: after its own frame was uploaded and
\* before the next one was.
OcrUploads(c) ==
    LET latest == Latest(c)
        frames == {latest} \cup [epoch : {latest.epoch}, seq : 1..latest.seq - 1,
                                 print : {1, latest.print}]
    IN  {u \in [stamp : 0..LastStamp(c), cap : frames, named : BOOLEAN, quality : Qualities] :
            /\ u.cap.print <= u.cap.seq
            /\ u.stamp = IF u.cap = latest THEN LastStamp(c) ELSE LastStamp(c) - 1}

-----------------------------------------------------------------------------
(* Handlers, each under the store lock *)

\* _transition_ocr_client_system accepts an upload unless the window has
\* reported anything later, and retires its rows in other systems.
InOrder(c, stamp) == \A k \in RowsOf(c) : rows[k].stamp <= stamp

\* Mutant of MovedTo: only rows that show hostiles are retired.
MovedToKeepingZeros(c, s) ==
    [k \in Keys |-> IF k \in RowsOf(c) /\ k[2] # s /\ rows[k].count > 0
                    THEN Departed(rows[k]) ELSE rows[k]]

MovedTo(c, s) ==
    [k \in Keys |-> IF k \in RowsOf(c) /\ k[2] # s THEN Departed(rows[k]) ELSE rows[k]]

\* Mutant of ReportedRow: every upload joins the queue again.
ReportedRowRejoining(table, k, u) ==
    Waited([order |-> NextJoinOrder(table), stamp |-> u.stamp, count |-> u.count,
            left |-> u.status # "active", cap |-> u.cap, age |-> 0,
            roster |-> IF table[k] # NoRow THEN table[k].roster ELSE NoRoster])

\* The row an accepted presence upload leaves; old is the row before it.
ReportedRow(table, k, u) ==
    LET old == table[k]
        sameSession == old # NoRow /\ u.cap # NoCapture /\ old.cap.epoch = u.cap.epoch
        keepsOrder == k \in Residents(table) /\ (u.cap = NoCapture \/ sameSession)
    IN  Waited([order |-> IF keepsOrder THEN old.order ELSE NextJoinOrder(table),
                stamp |-> u.stamp,
                count |-> u.count,
                left |-> u.status # "active",
                cap |-> u.cap,
                age |-> 0,
                roster |-> IF sameSession THEN old.roster ELSE NoRoster])

\* The row has the presence_version of the upload or a later one.
AlreadyReported(row, u) == row # NoRow /\ row.stamp >= u.stamp

\* record_hostile_presence.  A repeated or older version changes nothing.
Presence(c) ==
    \E u \in FreshUploads(c) \cup LateUploads(c) :
        LET k == <<c, u.system>>
            moved == MovedTo(c, u.system)
            reported == [moved EXCEPT ![k] = ReportedRow(moved, k, u)]
        IN  /\ PresenceIsCurrent(c, u.cap)
            /\ InOrder(c, u.stamp)
            /\ rows' = IF AlreadyReported(moved[k], u) THEN moved
                       ELSE IF u.count = 0 THEN reported
                       ELSE ReconcileMissing(reported, u.system)
            /\ UNCHANGED <<warm, restarts>>

\* record_ocr_snapshot, needing a row that shows hostiles.
Ocr(c) ==
    \E s \in Systems, u \in OcrUploads(c) :
        /\ <<c, s>> \in Residents(rows) /\ rows[<<c, s>>].count > 0
        /\ OcrIsCurrent(c, u.cap)
        /\ InOrder(c, u.stamp)
        /\ rows' = RecordQuality(MovedTo(c, s), <<c, s>>, u)
        /\ UNCHANGED <<warm, restarts>>

\* Mutant of StaleClients: only rows that show hostiles are looked at.
StaleClientsActive ==
    {k[1] : k \in {r \in Residents(rows) : rows[r].count > 0 /\ rows[r].age > Lease}}

\* expire_active_intel.  A window whose captures stopped loses all its rows.
\* Rows of superseded identities, and of windows whose heartbeat is lost,
\* stopped or lists them no more, go within a grace shorter than a tick.
StaleClients ==
    {k[1] : k \in {r \in Residents(rows) : rows[r].cap # NoCapture /\ rows[r].age > Lease}}

Cleanup(gone) ==
    /\ warm
    /\ rows' = [k \in Keys |->
                  IF k \in gone \/ (k \in Residents(rows) /\ k[1] \in StaleClients)
                  THEN Departed(rows[k])
                  ELSE rows[k]]
    /\ UNCHANGED <<warm, restarts>>

Expire == \E gone \in SUBSET Residents(rows) : Cleanup(gone)

\* Rows that are not active: of windows that have left and confirmed zeros.  A
\* start deletes those that have been inactive for longer than the retention.
Inactive(table) == {k \in Stored(table) : table[k].left \/ table[k].count = 0}

\* The rows read at the start: some of the departed ones without a capture are
\* not read even if they are not deleted.
RowsRead(gone) == [k \in Keys |-> IF k \in gone THEN NoRow ELSE rows[k]]

\* How old a row is stays open; the cleanup waits for the heartbeats.
Restart ==
    /\ restarts < MaxRestarts
    /\ restarts' = restarts + 1
    /\ warm' = FALSE
    /\ \E gone \in SUBSET Inactive(rows) : rows' = RowsRead(gone)

WarmUp ==
    /\ ~warm
    /\ warm' = TRUE
    /\ UNCHANGED <<rows, restarts>>

\* 15 seconds pass.  Ages stop counting where no comparison tells them apart.
Older(row) ==
    [row EXCEPT
        !.age = IF row.left \/ row.cap = NoCapture THEN @ ELSE Min({@ + 1, Lease + 1}),
        !.roster.age = IF row.roster.samples = <<>> THEN @ ELSE Min({@ + 1, Lease + 1}),
        !.roster.since = IF row.roster.waiting THEN Min({@ + 1, Grace}) ELSE @]

Tick ==
    /\ rows' = [k \in Keys |-> IF rows[k] = NoRow THEN NoRow ELSE Older(rows[k])]
    /\ UNCHANGED <<warm, restarts>>

Init ==
    /\ rows = [k \in Keys |-> NoRow]
    /\ warm = TRUE
    /\ restarts = 0

\* What happens within a tick, while the server runs.
WithinTick ==
    \/ \E c \in Clients : Presence(c) \/ Ocr(c)
    \/ Expire

Next ==
    \/ WithinTick
    \/ Restart
    \/ WarmUp
    \/ Tick

Spec == Init /\ [][Next]_vars

\* The uploads of one tick, for what does not depend on the time.
TickSpec == Init /\ [][WithinTick]_vars

\* The same over restarts.
RestartSpec == Init /\ [][WithinTick \/ Restart \/ WarmUp]_vars

(* The clock runs and the maintenance thread calls the cleanup every       *)
(* second; nothing makes a window upload, and no row is owed a departure   *)
(* for another reason than its lease.                                      *)
Fairness == WF_vars(Tick) /\ WF_vars(WarmUp) /\ WF_vars(Cleanup({}))

FairSpec == Spec /\ Fairness

-----------------------------------------------------------------------------
(* Properties *)

Captures == [epoch : Nat, seq : Nat, print : Nat]

Rosters == [samples : Seq([seq : Nat, quality : {"complete", "truncated", "unknown"}]),
            print : Nat, named : BOOLEAN, age : 0..Lease + 1,
            waiting : BOOLEAN, since : 0..Grace, frames : 0..MissingLimit, seen : Nat]

Rows == [order : Nat \ {0}, stamp : Nat, count : {0, 1}, left : BOOLEAN,
         cap : Captures, age : 0..Lease + 1, roster : Rosters]

TypeOK ==
    /\ rows \in [Keys -> Rows \cup {NoRow}]
    /\ warm \in BOOLEAN
    /\ restarts \in 0..MaxRestarts

\* A window is resident in one system at a time, whatever uploads arrive late
\* while it moves: it cannot speak for two systems.
OnePlace == \A k, l \in Residents(rows) : k[1] = l[1] => k = l

\* No two rows ever share a join order, so the primary never depends on how
\* ties are broken, through any takeovers and returns.
DistinctOrders == \A k, l \in Stored(rows) : rows[k].order = rows[l].order => k = l

\* The quality evidence of a row is made of different frames of the session
\* it is in: retries and results of an earlier session do not count.
IndependentEvidence ==
    \A k \in Stored(rows) :
        LET samples == rows[k].roster.samples
        IN  \A i \in DOMAIN samples :
                /\ samples[i].seq <= rows[k].cap.seq
                /\ \A j \in 1..i - 1 : samples[j].seq < samples[i].seq

\* Once one of its windows has reported, a machine's bare identity is given no
\* system to speak for, whatever the machine uploads and however its windows move,
\* stop or expire: only a start can forget the window, and only an inactive one.
RetirementLasts ==
    [][\A s \in Systems :
          LET primary == Primary(rows', s)
              retiring == {k \in Stored(rows) : primary # NoKey /\ primary[1] \in Replaces[k[1]]}
          IN  retiring # {} => restarts' # restarts /\ retiring \subseteq Inactive(rows)]_vars

\* A primary that stays resident in its session is replaced only for a reason
\* of its own roster, and only by a standby proven good for that reason: a
\* faster, newer or returning window never preempts it.
StaysPrimary(k) ==
    /\ k \in Residents(rows) /\ k \in Residents(rows')
    /\ rows[k].cap.epoch = rows'[k].cap.epoch
    /\ k[1] \notin Superseded(Stored(rows'))

OnlyProvenTakeovers ==
    [][\A s \in Systems :
          LET old == Primary(rows, s)
              new == Primary(rows', s)
          IN  old # NoKey /\ new # old /\ StaysPrimary(old) =>
                 \/ new # NoKey /\ MissingTooLong(rows'[old]) /\ QualifiedForMissing(rows'[new])
                 \/ new # NoKey /\ TruncatedTooOften(rows'[old]) /\ QualifiedForTruncated(rows'[new])]_vars

\* When new evidence shows a primary truncated too often, it does not remain
\* primary beside a qualified standby.
TruncationDemotes ==
    [][\A s \in Systems :
          LET old == Primary(rows, s)
              new == Primary(rows', s)
          IN  old # NoKey /\ old = new /\ rows[old].roster.samples # rows'[old].roster.samples
              /\ TruncatedTooOften(rows'[old]) =>
                 \A k \in ResidentsOf(rows', s) \ {old} :
                     QualifiedForTruncated(rows'[k]) => k[1] \in Superseded(Stored(rows'))]_vars

\* Both: who is primary changes when it has to and only then (intel_store.py 1999).
TakeoversAreDue == OnlyProvenTakeovers /\ TruncationDemotes

\* A window that sends no new frame loses its residency, however often its
\* last uploads are retried.
SilentWindowsLeave ==
    <>[](\A k \in Residents(rows) : rows[k].cap = NoCapture)

\* capture_is_current promises that OCR may lag an unchanged picture: a result
\* of one of the frames a window is waiting for, that shows the same picture
\* as the latest one, is not refused.
LaggingOcrAccepted ==
    \A k \in Residents(rows) :
        LET c == k[1]
            row == rows[k]
            counted == {u \in OcrUploads(c) : u.cap.seq > row.cap.seq - row.roster.frames}
        IN  \A u \in counted :
                row.roster.waiting /\ OcrIsCurrent(c, u.cap) => InOrder(c, u.stamp)
=============================================================================
