---------------------------- MODULE EventJournal ----------------------------
(***************************************************************************)
(* The durable journal of state events (intel_events) with the projection  *)
(* of the current state (system_current_state), as its readers see it.     *)
(*                                                                         *)
(* A transaction takes the database's advisory lock, appends its events,   *)
(* whose sequence numbers are allocated at once, and commits them all or   *)
(* none.  Old events are pruned.  Readers page through the events after a  *)
(* cursor, or read the current state together with the highest sequence    *)
(* number in one statement.                                                *)
(*                                                                         *)
(* An event makes a system hostile, clear or unknown.  That it entered or  *)
(* was updated follows from the one before it.                             *)
(***************************************************************************)
EXTENDS Integers, FiniteSets

CONSTANTS
    Systems,    \* star systems
    Writers,    \* database sessions that append events
    MaxSeq      \* bound on the allocated sequence numbers

ASSUME JournalAssumption == MaxSeq \in Nat /\ IsFiniteSet(Systems)

VARIABLES
    allocated,  \* the last value of the BIGSERIAL sequence
    open,       \* the events of each writer's open transaction
    committed,  \* history: every event ever committed
    kept        \* the rows of intel_events: committed and not pruned

journal == <<allocated, open, committed, kept>>

-----------------------------------------------------------------------------
Kinds == {"hostile", "clear", "unknown"}

Events == [seq : 1..MaxSeq, system : Systems, kind : Kinds]

Newest(S) == CHOOSE e \in S : \A f \in S : f.seq <= e.seq

\* MAX(seq), zero for an empty table.
Highest(S) == IF S = {} THEN 0 ELSE Newest(S).seq

\* What the events up to n say of system s.
KindAt(s, n) ==
    LET past == {e \in committed : e.system = s /\ e.seq <= n}
    IN  IF past = {} THEN "clear" ELSE Newest(past).kind

HostileAt(n) == {s \in Systems : KindAt(s, n) = "hostile"}

\* The projection as a transaction of w sees it: its own events included.
ProjectedKind(w, s) ==
    LET mine == {e \in open[w] : e.system = s}
    IN  IF mine = {} THEN KindAt(s, allocated) ELSE Newest(mine).kind

\* list_intel_event_page: the next event after a cursor.
After(n) == {e \in kept : e.seq > n}
NextAfter(n) == CHOOSE e \in After(n) : \A f \in After(n) : e.seq <= f.seq

\* read_active_event_snapshot: the projection and the watermark of one
\* statement.  Pruned events do not touch the projection.
Watermark == Highest(kept)

-----------------------------------------------------------------------------
JournalInit ==
    /\ allocated = 0
    /\ open = [w \in Writers |-> {}]
    /\ committed = {}
    /\ kept = {}

\* Mutant of HoldsLock: the transactions are not serialized.
NoLock(w) == TRUE

\* pg_advisory_xact_lock: the others have no open transaction.
HoldsLock(w) == \A v \in Writers \ {w} : open[v] = {}

\* APPEND_EVENT: an event whose payload is already projected is not inserted.
\* Two hostile events in a row differ in their count or crew.
AppendEvent(w, s, kind) ==
    /\ HoldsLock(w)
    /\ allocated < MaxSeq
    /\ kind = "hostile" \/ kind # ProjectedKind(w, s)
    /\ allocated' = allocated + 1
    /\ open' = [open EXCEPT ![w] = @ \cup {[seq |-> allocated', system |-> s, kind |-> kind]}]
    /\ UNCHANGED <<committed, kept>>

Commit(w) ==
    /\ open[w] # {}
    /\ committed' = committed \cup open[w]
    /\ kept' = kept \cup open[w]
    /\ open' = [open EXCEPT ![w] = {}]
    /\ UNCHANGED allocated

\* A failed transaction leaves a gap in the sequence.
Rollback(w) ==
    /\ open[w] # {}
    /\ open' = [open EXCEPT ![w] = {}]
    /\ UNCHANGED <<allocated, committed, kept>>

\* The newest row survives, for it carries the watermark.
Prunable == {e \in kept : e.seq < Highest(kept)}

\* prune_intel_events_older_than, days later: rows go by the time their client
\* gave them, not by their number.
Prune ==
    /\ \E old \in SUBSET Prunable \ {{}} : kept' = kept \ old
    /\ UNCHANGED <<allocated, open, committed>>

JournalNext ==
    \/ \E w \in Writers, s \in Systems, kind \in Kinds : AppendEvent(w, s, kind)
    \/ \E w \in Writers : Commit(w) \/ Rollback(w)
    \/ Prune

-----------------------------------------------------------------------------
JournalTypeOK ==
    /\ allocated \in 0..MaxSeq
    /\ open \in [Writers -> SUBSET Events]
    /\ committed \subseteq Events
    /\ kept \subseteq committed

\* A reader that has seen the highest committed number has seen everything
\* below it: no event commits later with a lower number, although numbers are
\* allocated before the commit.  This is what the advisory lock is for
\* (postgres_store.py 1527).
CommitsInOrder == \A e \in committed' \ committed, f \in committed : f.seq < e.seq

\* Nor does the watermark of a snapshot go back, although rows are pruned: a
\* consumer that waits for its own cursor to be reached is not stuck
\* (postgres_store.py 1713, http_server.py 4975).
JournalOnlyGrows == [][CommitsInOrder /\ Watermark' >= Watermark]_journal
=============================================================================
