-------------------------- MODULE EventDelivery_proofs --------------------------
(***************************************************************************)
(* Proofs about the event journal, the bot inside the server and the       *)
(* stream to a desktop client (modules EventJournal, BotBridge and         *)
(* EventStream), for any systems, writers, groups and bounds, as parts of  *)
(* the specification that the runs check (module EventDelivery).           *)
(***************************************************************************)
EXTENDS EventDelivery, SequenceTheorems, WellFoundedInduction, FiniteSetTheorems,
        TLAPS

-----------------------------------------------------------------------------
(* Events by their numbers.  The library's induction theorems cannot be    *)
(* used by these provers, so induction goes by a least counterexample.     *)

\* A set of numbers has a least one.
LEMMA LeastNumber ==
    ASSUME NEW S, S \subseteq Nat, S # {}
    PROVE  \E x \in S : \A y \in S : x <= y
<1> DEFINE R == OpToRel(<, Nat)
<1>1. IsWellFoundedOn(R, Nat)
  BY NatLessThanWellFounded
<1>2. \A x, y \in Nat : x < y => <<x, y>> \in R
  BY DEF OpToRel
<1> HIDE DEF R
<1>3. PICK x \in S : \A y \in S : ~ (<<y, x>> \in R)
  BY <1>1, WFMin
<1>4. ASSUME NEW y \in S PROVE x <= y
  <2>1. x \in Nat /\ y \in Nat /\ ~ (y < x)
    BY <1>2, <1>3
  <2> QED
    BY <2>1
<1> QED
  BY <1>4

\* The number of an event.
LEMMA EventNumbers ==
    /\ \A e \in Events : e.seq \in 1..MaxSeq /\ e.seq \in Nat /\ e.system \in Systems
                         /\ e.kind \in Kinds
    /\ MaxSeq \in Nat
BY JournalAssumption DEF Events

\* Among events there is a newest one.
LEMMA NewestEvent ==
    ASSUME NEW S, S \subseteq Events, S # {}
    PROVE  Newest(S) \in S /\ \A f \in S : f.seq <= Newest(S).seq
<1> DEFINE Left == {MaxSeq - e.seq : e \in S}
<1>1. Left \subseteq Nat /\ Left # {}
  BY EventNumbers
<1>2. PICK least \in Left : \A n \in Left : least <= n
  <2> HIDE DEF Left
  <2> QED
    BY <1>1, LeastNumber
<1>3. PICK e \in S : least = MaxSeq - e.seq
  BY <1>2
<1>4. ASSUME NEW f \in S
      PROVE  f.seq <= e.seq
  <2>1. MaxSeq - e.seq <= MaxSeq - f.seq
    BY <1>2, <1>3
  <2> QED
    BY <2>1, EventNumbers
<1> QED
  BY <1>4 DEF Newest

\* The highest number of some events.
LEMMA HighestNumber ==
    ASSUME NEW S, S \subseteq Events
    PROVE  /\ Highest(S) \in 0..MaxSeq
           /\ \A f \in S : f.seq <= Highest(S)
           /\ S # {} => \E e \in S : e.seq = Highest(S)
           /\ S = {} => Highest(S) = 0
<1>1. CASE S = {}
  BY <1>1, EventNumbers DEF Highest
<1>2. CASE S # {}
  BY <1>2, NewestEvent, EventNumbers DEF Highest
<1> QED
  BY <1>1, <1>2

\* After a cursor comes the event with the lowest number.
LEMMA NextEvent ==
    ASSUME NEW n \in Int, kept \subseteq Events, After(n) # {}
    PROVE  /\ NextAfter(n) \in kept /\ NextAfter(n).seq > n
           /\ \A f \in After(n) : NextAfter(n).seq <= f.seq
<1> DEFINE Numbers == {e.seq : e \in After(n)}
<1>1. After(n) \subseteq kept
  BY DEF After
<1>2. Numbers \subseteq Nat /\ Numbers # {}
  BY <1>1, EventNumbers
<1>3. PICK least \in Numbers : \A m \in Numbers : least <= m
  <2> HIDE DEF Numbers
  <2> QED
    BY <1>2, LeastNumber
<1>4. \E e \in After(n) : \A f \in After(n) : e.seq <= f.seq
  BY <1>3
<1>5. NextAfter(n) \in After(n) /\ \A f \in After(n) : NextAfter(n).seq <= f.seq
  BY <1>4 DEF NextAfter
<1> QED
  BY <1>5 DEF After

-----------------------------------------------------------------------------
(* The journal.                                                            *)

\* What some events say of a system up to a number.
KindIn(events, s, n) ==
    LET past == {e \in events : e.system = s /\ e.seq <= n}
    IN  IF past = {} THEN "clear" ELSE Newest(past).kind

\* The journal is numbered in the order of the commits, one transaction after another,
\* and its newest event is kept.
JournalInv ==
    /\ JournalTypeOK
    /\ \A v, w \in Writers : open[v] # {} /\ open[w] # {} => v = w
    /\ \A e \in committed : e.seq <= allocated
    /\ \A w \in Writers : \A e \in open[w] :
        e.seq <= allocated /\ \A f \in committed : f.seq < e.seq
    /\ \A e, f \in committed : e.seq = f.seq => e = f
    /\ \A w \in Writers : \A e, f \in open[w] : e.seq = f.seq => e = f
    /\ \A e \in committed : \E k \in kept : e.seq <= k.seq

\* An empty journal.
LEMMA JournalInitKeeps == JournalInit => JournalInv
<1> SUFFICES ASSUME JournalInit
             PROVE  JournalInv
  OBVIOUS
<1>1. 0 \in 0..MaxSeq
  BY EventNumbers
<1> QED
  BY <1>1 DEF JournalInit, JournalInv, JournalTypeOK

\* A transaction appends an event.
LEMMA AppendKeeps ==
    ASSUME JournalInv, NEW w \in Writers, NEW s \in Systems, NEW kind \in Kinds,
           AppendEvent(w, s, kind)
    PROVE  JournalInv'
<1> DEFINE new == [seq |-> allocated + 1, system |-> s, kind |-> kind]
<1>1. /\ allocated \in Nat /\ allocated < MaxSeq /\ allocated' = allocated + 1
      /\ committed' = committed /\ kept' = kept
      /\ open' = [open EXCEPT ![w] = @ \cup {new}]
      /\ \A v \in Writers \ {w} : open[v] = {}
      /\ open \in [Writers -> SUBSET Events] /\ committed \subseteq Events
      /\ kept \subseteq committed
  BY DEF AppendEvent, HoldsLock, JournalInv, JournalTypeOK
<1>2. new \in Events /\ new.seq = allocated + 1
  BY <1>1, EventNumbers DEF Events
<1> HIDE DEF new
<1>3. /\ open'[w] = open[w] \cup {new}
      /\ \A v \in Writers : v # w => open'[v] = {}
  BY <1>1
<1>4. JournalTypeOK'
  BY <1>1, <1>2, EventNumbers DEF JournalTypeOK
<1>5. \A e \in committed : e.seq \in Nat /\ e.seq <= allocated
  BY <1>1, EventNumbers DEF JournalInv
<1>6. \A e \in open[w] : e.seq \in Nat /\ e.seq <= allocated /\ \A f \in committed : f.seq < e.seq
  BY <1>1, EventNumbers DEF JournalInv
<1>7. \A v \in Writers : \A e \in open'[v] :
        e.seq <= allocated' /\ \A f \in committed : f.seq < e.seq
  BY <1>1, <1>2, <1>3, <1>5, <1>6
<1>8. \A v \in Writers : \A e, f \in open'[v] : e.seq = f.seq => e = f
  BY <1>1, <1>2, <1>3, <1>6 DEF JournalInv
<1>9. \A u, v \in Writers : open'[u] # {} /\ open'[v] # {} => u = v
  BY <1>3
<1>10. \A e \in committed : e.seq <= allocated'
  BY <1>1, <1>5
<1> QED
  BY <1>1, <1>4, <1>7, <1>8, <1>9, <1>10 DEF JournalInv

\* A transaction commits its events: they come after all that are committed.
LEMMA CommitKeeps ==
    ASSUME JournalInv, NEW w \in Writers, Commit(w)
    PROVE  /\ JournalInv'
           /\ committed \subseteq committed' /\ kept \subseteq kept'
           /\ \A e \in committed' \ committed, f \in committed : f.seq < e.seq
           /\ kept = committed <=> kept' = committed'
<1>1. /\ open[w] # {}
      /\ committed' = committed \cup open[w] /\ kept' = kept \cup open[w]
      /\ open' = [open EXCEPT ![w] = {}] /\ allocated' = allocated
      /\ open \in [Writers -> SUBSET Events] /\ committed \subseteq Events
      /\ kept \subseteq committed /\ allocated \in 0..MaxSeq
  BY DEF Commit, JournalInv, JournalTypeOK
<1>2. \A v \in Writers : open'[v] = {}
  BY <1>1 DEF JournalInv
<1>3. \A e \in open[w] : e.seq <= allocated /\ \A f \in committed : f.seq < e.seq
  BY DEF JournalInv
<1>4. \A e \in committed \cup open[w] : e.seq \in Nat
  BY <1>1, EventNumbers
<1>5. JournalTypeOK'
  BY <1>1, EventNumbers DEF JournalTypeOK
<1>6. \A e, f \in committed' : e.seq = f.seq => e = f
  BY <1>1, <1>3, <1>4 DEF JournalInv
<1>7. \A e \in committed' : \E k \in kept' : e.seq <= k.seq
  BY <1>1, <1>4 DEF JournalInv
<1>8. \A e \in committed' : e.seq <= allocated'
  BY <1>1, <1>3 DEF JournalInv
<1>9. JournalInv'
  BY <1>2, <1>5, <1>6, <1>7, <1>8 DEF JournalInv
<1>10. kept = committed <=> kept' = committed'
  <2>1. \A e \in open[w] : e \notin committed
    BY <1>3, <1>4
  <2> QED
    BY <1>1, <2>1
<1> QED
  BY <1>1, <1>3, <1>9, <1>10

\* A transaction that fails leaves its numbers unused.
LEMMA RollbackKeeps ==
    ASSUME JournalInv, NEW w \in Writers, Rollback(w)
    PROVE  JournalInv'
<1>1. /\ open' = [open EXCEPT ![w] = {}]
      /\ allocated' = allocated /\ committed' = committed /\ kept' = kept
      /\ open \in [Writers -> SUBSET Events]
  BY DEF Rollback, JournalInv, JournalTypeOK
<1>2. \A v \in Writers : open'[v] \subseteq open[v]
  BY <1>1
<1>3. JournalTypeOK'
  BY <1>1, <1>2 DEF JournalInv, JournalTypeOK
<1> QED
  BY <1>1, <1>2, <1>3 DEF JournalInv

\* The newest event is never pruned.
LEMMA PruneKeeps ==
    ASSUME JournalInv, Prune
    PROVE  /\ JournalInv' /\ committed' = committed /\ kept' \subseteq kept
           /\ \A k \in kept : \E l \in kept' : l.seq = Highest(kept)
<1>1. PICK old \in SUBSET Prunable \ {{}} : kept' = kept \ old
  BY DEF Prune
<1>2. allocated' = allocated /\ committed' = committed /\ open' = open
  BY DEF Prune
<1>3. /\ kept \subseteq Events /\ kept \subseteq committed /\ kept' \subseteq kept
  BY <1>1 DEF JournalInv, JournalTypeOK
<1>4. \A k \in kept : k.seq \in Nat /\ k.seq <= Highest(kept)
  BY <1>3, HighestNumber, EventNumbers
<1>5. ASSUME NEW k \in kept
      PROVE  \E l \in kept' : l.seq = Highest(kept)
  <2>1. PICK l \in kept : l.seq = Highest(kept)
    BY <1>3, HighestNumber
  <2>2. l \notin old
    BY <1>1, <1>4, <2>1 DEF Prunable
  <2> QED
    BY <1>1, <2>1, <2>2
<1>6. \A e \in committed : \E k \in kept' : e.seq <= k.seq
  <2> SUFFICES ASSUME NEW e \in committed
               PROVE  \E k \in kept' : e.seq <= k.seq
    OBVIOUS
  <2>1. PICK k \in kept : e.seq <= k.seq
    BY DEF JournalInv
  <2>2. PICK l \in kept' : l.seq = Highest(kept)
    BY <1>5
  <2>3. e.seq \in Nat /\ k.seq \in Nat /\ l.seq \in Nat
    BY <1>3, EventNumbers DEF JournalInv, JournalTypeOK
  <2>4. k.seq <= l.seq
    BY <1>4, <2>2
  <2> QED
    BY <2>1, <2>3, <2>4
<1>7. JournalTypeOK'
  BY <1>2, <1>3 DEF JournalInv, JournalTypeOK
<1>8. JournalInv'
  BY <1>2, <1>6, <1>7 DEF JournalInv
<1> QED
  BY <1>2, <1>3, <1>5, <1>8

\* Every operation of the journal keeps it in order, and nothing goes back.
LEMMA JournalKeeps ==
    ASSUME JournalInv, [JournalNext]_journal
    PROVE  /\ JournalInv'
           /\ committed \subseteq committed'
           /\ CommitsInOrder
           /\ Watermark' >= Watermark
           /\ kept' = committed' => kept = committed
<1>1. /\ kept \subseteq Events /\ committed \subseteq Events /\ kept \subseteq committed
  BY DEF JournalInv, JournalTypeOK
<1>2. ASSUME JournalInv'
      PROVE  kept' \subseteq Events
  BY <1>2 DEF JournalInv, JournalTypeOK
<1>3. ASSUME kept \subseteq kept', kept' \subseteq Events
      PROVE  Watermark' >= Watermark
  <2>1. Highest(kept) \in Nat /\ Highest(kept') \in Nat
    BY <1>1, <1>3, HighestNumber, EventNumbers
  <2>2. CASE kept = {}
    BY <1>1, <2>1, <2>2, HighestNumber DEF Watermark
  <2>3. CASE kept # {}
    BY <1>1, <1>3, <2>1, <2>3, HighestNumber DEF Watermark
  <2> QED
    BY <2>2, <2>3
<1>4. CASE \E w \in Writers, s \in Systems, kind \in Kinds : AppendEvent(w, s, kind)
  <2>1. PICK w \in Writers, s \in Systems, kind \in Kinds : AppendEvent(w, s, kind)
    BY <1>4
  <2>2. JournalInv'
    BY <2>1, AppendKeeps
  <2>3. committed' = committed /\ kept' = kept
    BY <2>1 DEF AppendEvent
  <2> QED
    BY <1>1, <1>3, <2>2, <2>3 DEF CommitsInOrder
<1>5. CASE \E w \in Writers : Commit(w)
  <2>1. PICK w \in Writers : Commit(w)
    BY <1>5
  <2>2. /\ JournalInv'
        /\ committed \subseteq committed' /\ kept \subseteq kept'
        /\ \A e \in committed' \ committed, f \in committed : f.seq < e.seq
        /\ kept = committed <=> kept' = committed'
    BY <2>1, CommitKeeps
  <2> QED
    BY <1>2, <1>3, <2>2 DEF CommitsInOrder
<1>6. CASE \E w \in Writers : Rollback(w)
  <2>1. PICK w \in Writers : Rollback(w)
    BY <1>6
  <2>2. JournalInv'
    BY <2>1, RollbackKeeps
  <2>3. committed' = committed /\ kept' = kept
    BY <2>1 DEF Rollback
  <2> QED
    BY <1>1, <1>3, <2>2, <2>3 DEF CommitsInOrder
<1>7. CASE Prune
  <2>1. /\ JournalInv' /\ committed' = committed /\ kept' \subseteq kept
        /\ \A k \in kept : \E l \in kept' : l.seq = Highest(kept)
    BY <1>7, PruneKeeps
  <2>2. kept' \subseteq Events
    BY <1>1, <2>1
  <2>3. Highest(kept) \in Nat /\ Highest(kept') \in Nat
    BY <1>1, <2>2, HighestNumber, EventNumbers
  <2>4. Watermark' >= Watermark
    <3>1. CASE kept = {}
      BY <1>1, <2>3, <3>1, HighestNumber DEF Watermark
    <3>2. CASE kept # {}
      BY <2>1, <2>2, <2>3, <3>2, HighestNumber DEF Watermark
    <3> QED
      BY <3>1, <3>2
  <2> QED
    BY <1>1, <2>1, <2>4 DEF CommitsInOrder, JournalInv, JournalTypeOK
<1>8. CASE UNCHANGED journal
  <2>1. allocated' = allocated /\ open' = open /\ committed' = committed /\ kept' = kept
    BY <1>8 DEF journal
  <2>2. JournalInv'
    BY <2>1 DEF JournalInv, JournalTypeOK
  <2> QED
    BY <1>1, <1>3, <2>1, <2>2 DEF CommitsInOrder
<1> QED
  BY <1>4, <1>5, <1>6, <1>7, <1>8 DEF JournalNext

\* What commits is newer than any snapshot, and only pruning takes rows away.
LEMMA CommitsAreNew ==
    ASSUME JournalInv, [JournalNext]_journal
    PROVE  /\ \A e \in committed' \ committed : e.seq > Watermark
           /\ committed' \ kept' \subseteq (committed \ kept) \cup (kept \ kept')
<1>1. JournalInv' /\ CommitsInOrder
  BY JournalKeeps
<1>2. /\ kept \subseteq committed /\ kept \subseteq Events
      /\ committed' \subseteq Events
  BY <1>1 DEF JournalInv, JournalTypeOK
<1>3. ASSUME NEW e \in committed' \ committed
      PROVE  e.seq > Watermark
  <2>1. e.seq \in Nat /\ e.seq > 0
    BY <1>2, EventNumbers
  <2>2. \A f \in committed : f.seq < e.seq
    BY <1>1 DEF CommitsInOrder
  <2>3. CASE kept = {}
    BY <1>2, <2>1, <2>3, HighestNumber DEF Watermark
  <2>4. CASE kept # {}
    BY <1>2, <2>2, <2>4, HighestNumber DEF Watermark
  <2> QED
    BY <2>3, <2>4
<1>4. committed' \ kept' \subseteq (committed \ kept) \cup (kept \ kept')
  BY DEF JournalNext, AppendEvent, Commit, Rollback, Prune, journal
<1> QED
  BY <1>3, <1>4

\* With whichever consumer, the journal does its operations or nothing.
LEMMA ConsumersRunJournal == Spec => JournalInit /\ [][JournalNext]_journal
<1>1. Init => JournalInit
  BY DEF Init
<1>2. [Next]_vars => [JournalNext]_journal
  <2> SUFFICES ASSUME [Next]_vars
               PROVE  [JournalNext]_journal
    OBVIOUS
  <2>1. CASE JournalStep
    BY <2>1 DEF JournalStep
  <2>2. CASE ~JournalStep
    BY <2>2 DEF Next, vars, ByBot, ByStream, ByReader, ByWorker, ByQuery, ByWatch
  <2> QED
    BY <2>1, <2>2
<1> QED
  BY <1>1, <1>2, PTL DEF Spec

\* The journal stays in the order of the commits, with its newest event.
THEOREM JournalStaysOrdered == Spec => []JournalInv
<1>1. JournalInv /\ [JournalNext]_journal => JournalInv'
  BY JournalKeeps
<1> QED
  BY <1>1, JournalInitKeeps, ConsumersRunJournal, PTL

\* No event commits behind one that readers may have seen, and the watermark of
\* a snapshot never goes back, although numbers are allocated before the commit
\* and old rows are pruned (postgres_store.py 1527, 1713).
THEOREM EventsCommitInOrder == Spec => JournalOnlyGrows
<1>1. JournalInv /\ [JournalNext]_journal
        => [CommitsInOrder /\ Watermark' >= Watermark]_journal
  BY JournalKeeps
<1> QED
  BY <1>1, JournalStaysOrdered, ConsumersRunJournal, PTL DEF JournalOnlyGrows

-----------------------------------------------------------------------------
(* What the events say as they grow in number.                             *)

\* No event of system s comes after number n.
SettledIn(events, s, n) == \A e \in events : e.system = s => e.seq <= n

\* The announced systems, as far as no later event is known, are the hostile ones.
Fits(events, episodes, n) ==
    \A s \in Systems : SettledIn(events, s, n)
        => (episodes[s] # Untracked <=> KindIn(events, s, n) = "hostile")

\* Later events change nothing of what was said before them.
LEMMA KindGrows ==
    ASSUME NEW C \in SUBSET Events, NEW D \in SUBSET Events, C \subseteq D, NEW n \in Int,
           \A e \in D \ C : e.seq > n
    PROVE  /\ \A s \in Systems : KindIn(D, s, n) = KindIn(C, s, n)
           /\ \A episodes : Fits(C, episodes, n) => Fits(D, episodes, n)
<1>1. \A e \in D : e.seq \in Int
  BY EventNumbers
<1>2. ASSUME NEW s
      PROVE  {e \in D : e.system = s /\ e.seq <= n} = {e \in C : e.system = s /\ e.seq <= n}
  BY <1>1
<1>3. \A s \in Systems : KindIn(D, s, n) = KindIn(C, s, n)
  BY <1>2 DEF KindIn
<1>4. \A s \in Systems : SettledIn(D, s, n) => SettledIn(C, s, n)
  BY DEF SettledIn
<1> QED
  BY <1>3, <1>4 DEF Fits

\* What is announced at a number is announced before it: the events in between
\* are still to be worked off.
LEMMA FitsAhead ==
    ASSUME NEW C \in SUBSET Events, NEW n \in Int, NEW m \in Int, n <= m,
           NEW episodes, Fits(C, episodes, m)
    PROVE  Fits(C, episodes, n)
<1> SUFFICES ASSUME NEW s \in Systems, SettledIn(C, s, n)
             PROVE  episodes[s] # Untracked <=> KindIn(C, s, n) = "hostile"
  BY DEF Fits
<1>1. \A e \in C : e.seq \in Int
  BY EventNumbers
<1>2. SettledIn(C, s, m)
  BY <1>1 DEF SettledIn
<1>3. {e \in C : e.system = s /\ e.seq <= n} = {e \in C : e.system = s /\ e.seq <= m}
  BY <1>1 DEF SettledIn
<1>4. KindIn(C, s, n) = KindIn(C, s, m)
  BY <1>3 DEF KindIn
<1> QED
  BY <1>2, <1>4 DEF Fits

\* At its own number an event has the last word on its system.
LEMMA EventSpeaks ==
    ASSUME NEW C \in SUBSET Events, \A e, f \in C : e.seq = f.seq => e = f, NEW e \in C
    PROVE  KindIn(C, e.system, e.seq) = e.kind
<1> DEFINE past == {f \in C : f.system = e.system /\ f.seq <= e.seq}
<1>1. e \in past /\ past \subseteq Events
  BY EventNumbers
<1>2. Newest(past) \in past /\ \A f \in past : f.seq <= Newest(past).seq
  BY <1>1, NewestEvent
<1>3. Newest(past).seq = e.seq
  BY <1>1, <1>2, EventNumbers
<1>4. Newest(past) = e
  BY <1>2, <1>3
<1>5. past # {}
  BY <1>1
<1> HIDE DEF past
<1>6. KindIn(C, e.system, e.seq) = IF past = {} THEN "clear" ELSE Newest(past).kind
  BY DEF KindIn, past
<1> QED
  BY <1>4, <1>5, <1>6

\* The next event after a cursor, worked off.
LEMMA EventFits ==
    ASSUME NEW C \in SUBSET Events, \A e, f \in C : e.seq = f.seq => e = f,
           NEW n \in Int, NEW e \in C, e.seq > n, \A f \in C : f.seq > n => e.seq <= f.seq,
           NEW episodes, NEW later, Fits(C, episodes, n),
           \A s \in Systems : s # e.system => later[s] = episodes[s],
           later[e.system] # Untracked <=> e.kind = "hostile"
    PROVE  Fits(C, later, e.seq)
<1> SUFFICES ASSUME NEW s \in Systems, SettledIn(C, s, e.seq)
             PROVE  later[s] # Untracked <=> KindIn(C, s, e.seq) = "hostile"
  BY DEF Fits
<1>1. \A f \in C : f.seq \in Int
  BY EventNumbers
<1>2. CASE s = e.system
  BY <1>2, EventSpeaks
<1>3. CASE s # e.system
  <2>1. \A f \in C : f.system = s => f.seq <= e.seq /\ f.seq # e.seq
    BY <1>3 DEF SettledIn
  <2>2. \A f \in C : f.system = s => f.seq <= n
    BY <1>1, <2>1
  <2>3. SettledIn(C, s, n)
    BY <2>2 DEF SettledIn
  <2>4. {f \in C : f.system = s /\ f.seq <= n} = {f \in C : f.system = s /\ f.seq <= e.seq}
    BY <1>1, <2>2
  <2>5. KindIn(C, s, n) = KindIn(C, s, e.seq)
    BY <2>4 DEF KindIn
  <2> QED
    BY <1>3, <2>3, <2>5 DEF Fits
<1> QED
  BY <1>2, <1>3

\* What a function makes of a finite set is finite.
LEMMA ImageFinite ==
    ASSUME NEW S, IsFiniteSet(S), NEW f, DOMAIN f = S
    PROVE  IsFiniteSet({f[x] : x \in S})
<1> DEFINE g == [x \in S |-> f[x]]
<1>1. g \in Surjection(S, {f[x] : x \in S})
  BY DEF Surjection
<1> QED
  BY <1>1, FS_Surjection

\* A bootstrap finds an episode that was never used.
LEMMA EpisodeIsFresh ==
    ASSUME IsFiniteSet(delivered), \A m \in delivered : m.episode \in Int,
           \A s \in Systems : tracked[s] \in Int
    PROVE  FreshEpisode \in Int /\ FreshEpisode < 0
<1> DEFINE used == {m.episode : m \in delivered} \cup {tracked[s] : s \in Systems}
           N == Cardinality(used)
           free == {k \in 1..N + 1 : -k \notin used}
           fresh(k) == -k \notin used /\ \A j \in 1..k - 1 : -j \in used
<1>1. IsFiniteSet(Systems)
  BY JournalAssumption
<1>2. IsFiniteSet({m.episode : m \in delivered})
  <2> DEFINE f == [m \in delivered |-> m.episode]
  <2>1. IsFiniteSet({f[m] : m \in delivered})
    BY ImageFinite
  <2> QED
    BY <2>1
<1>3. IsFiniteSet({tracked[s] : s \in Systems})
  <2> DEFINE f == [s \in Systems |-> tracked[s]]
  <2>1. IsFiniteSet({f[s] : s \in Systems})
    BY <1>1, ImageFinite
  <2> QED
    BY <2>1
<1>4. IsFiniteSet(used)
  BY <1>2, <1>3, FS_Union
<1> HIDE DEF used
<1>5. N \in Nat
  BY <1>4, FS_CardinalityType
<1> HIDE DEF N
<1>6. free # {}
  <2> SUFFICES ASSUME \A k \in 1..N + 1 : -k \in used
               PROVE  FALSE
    OBVIOUS
  <2> DEFINE f == [k \in 1..N + 1 |-> -k]
  <2>1. IsFiniteSet(1..N + 1) /\ Cardinality(1..N + 1) = N + 1
    BY <1>5, FS_Interval
  <2>2. f \in [1..N + 1 -> used]
    OBVIOUS
  <2>3. Cardinality(used) < Cardinality(1..N + 1)
    BY <1>5, <2>1 DEF N
  <2> HIDE DEF f
  <2>4. \E x, y \in 1..N + 1 : x # y /\ f[x] = f[y]
    BY <1>4, <2>1, <2>2, <2>3, FS_PigeonHole
  <2> QED
    BY <1>5, <2>4 DEF f
<1>7. free \subseteq Nat
  BY <1>5
<1>8. PICK k \in free : \A j \in free : k <= j
  BY <1>6, <1>7, LeastNumber
<1>9. \A j \in 1..k - 1 : -j \in used
  BY <1>5, <1>8
<1>10. k \in 1..N + 1 /\ fresh(k)
  BY <1>8, <1>9
<1> DEFINE chosen == CHOOSE i \in 1..N + 1 : fresh(i)
<1> HIDE DEF fresh
<1>11. chosen \in 1..N + 1
  BY <1>10
<1>12. FreshEpisode = -chosen
  BY DEF FreshEpisode, chosen, fresh, N, used
<1> HIDE DEF chosen
<1> QED
  BY <1>5, <1>11, <1>12

-----------------------------------------------------------------------------
(* The bot.                                                                *)

Works == [target : 0..MaxSeq, goal : [Systems -> Int], unsent : SUBSET Messages,
         failure : {"none", "error", "limit"}, baseline : BOOLEAN]

Snaps == [seq : 0..MaxSeq, live : SUBSET Systems, current : BOOLEAN]

\* The variables of the bot, its records as wholes.
BotShape ==
    /\ acked \in 0..MaxSeq
    /\ tracked \in [Systems -> Int]
    /\ delivered \subseteq Messages
    /\ heard \in [Groups -> [Systems -> {"nothing", "alert", "safe"}]]
    /\ pc \in {"idle", "replay", "sending", "ack"}
    /\ snap \in Snaps \cup {NoSnap}
    /\ boot \in Snaps \cup {NoSnap}
    /\ job \in Works \cup {NoJob}
    /\ pc \in {"sending", "ack"} <=> job # NoJob
    /\ faults \in 0..MaxFaults

BotFlags == ready \in BOOLEAN /\ initialized \in BOOLEAN /\ reconcile \in BOOLEAN

\* The absent records are none of the others, by their number.
LEMMA AbsentRecords == NoSnap \notin Snaps /\ NoJob \notin Works
<1>1. ASSUME NoSnap \in Snaps
      PROVE  FALSE
  <2>1. NoSnap.seq \in 0..MaxSeq
    BY <1>1, Zenon DEF Snaps
  <2>2. NoSnap.seq = -1
    BY DEF NoSnap
  <2> QED
    BY <2>1, <2>2
<1>2. ASSUME NoJob \in Works
      PROVE  FALSE
  <2>1. NoJob.target \in 0..MaxSeq
    BY <1>2, Zenon DEF Works
  <2>2. NoJob.target = -1
    BY DEF NoJob
  <2> QED
    BY <2>1, <2>2
<1> QED
  BY <1>1, <1>2

\* The fields of a job.
LEMMA JobFields ==
    \A j \in Works : /\ j.target \in 0..MaxSeq /\ j.goal \in [Systems -> Int]
                    /\ j.unsent \subseteq Messages /\ j.failure \in {"none", "error", "limit"}
<1> SUFFICES ASSUME NEW j \in Works
             PROVE  /\ j.target \in 0..MaxSeq /\ j.goal \in [Systems -> Int]
                    /\ j.unsent \subseteq Messages /\ j.failure \in {"none", "error", "limit"}
  OBVIOUS
<1>1. j.target \in 0..MaxSeq
  BY Zenon DEF Works
<1>2. j.goal \in [Systems -> Int]
  BY Zenon DEF Works
<1>3. j.unsent \in SUBSET Messages
  BY Zenon DEF Works
<1>4. j.failure \in {"none", "error", "limit"}
  BY Zenon DEF Works
<1> QED
  BY <1>1, <1>2, <1>3, <1>4

\* The fields of a bootstrap.
LEMMA SnapFields == \A b \in Snaps : b.seq \in 0..MaxSeq /\ b.live \in SUBSET Systems
BY Zenon DEF Snaps

\* The fields of new work.
IsWork(j, target, goal, unsent, baseline) ==
    /\ j \in Works
    /\ j.target = target
    /\ j.goal = goal
    /\ j.unsent = unsent
    /\ j.baseline = baseline

\* New work is made of what it was given.
LEMMA WorkFields ==
    ASSUME NEW target \in 0..MaxSeq, NEW goal \in [Systems -> Int], NEW unsent \in SUBSET Messages,
           NEW baseline \in BOOLEAN
    PROVE  IsWork(Work(target, goal, unsent, baseline), target, goal, unsent, baseline)
<1> DEFINE j == Work(target, goal, unsent, baseline)
<1>1. j = [target |-> target, goal |-> goal, unsent |-> unsent, failure |-> "none",
           baseline |-> baseline]
  BY Zenon DEF Work
<1>2. "none" \in {"none", "error", "limit"}
  OBVIOUS
<1> HIDE DEF j
<1>3. j \in Works
  BY <1>1, <1>2, Zenon DEF Works
<1>4. j.target = target
  BY <1>1, Zenon
<1>5. j.goal = goal
  BY <1>1, Zenon
<1>6. j.unsent = unsent
  BY <1>1, Zenon
<1>7. j.baseline = baseline
  BY <1>1, Zenon
<1> QED
  BY <1>3, <1>4, <1>5, <1>6, <1>7, Zenon DEF IsWork, j

\* Work with fewer messages to send, or with a failure.
LEMMA WorkGoesOn ==
    ASSUME NEW j \in Works, NEW unsent \in SUBSET Messages,
           NEW failure \in {"none", "error", "limit"}
    PROVE  LET k == [j EXCEPT !.unsent = unsent, !.failure = failure]
           IN  k \in Works /\ k.target = j.target /\ k.goal = j.goal /\ k.unsent = unsent
               /\ k.baseline = j.baseline
<1> DEFINE k == [j EXCEPT !.unsent = unsent, !.failure = failure]
<1>1. k \in Works
  BY Zenon DEF Works
<1>2. k.target = j.target /\ k.goal = j.goal /\ k.unsent = unsent /\ k.baseline = j.baseline
  BY Zenon DEF Works
<1> QED
  BY <1>1, <1>2, Zenon

\* The shape is the type the runs check.
LEMMA ShapeIsType == BotShape /\ BotFlags /\ (job # NoJob => job.unsent \cap delivered = {}) => BotTypeOK
<1> SUFFICES ASSUME BotShape, BotFlags, job # NoJob => job.unsent \cap delivered = {}
             PROVE  BotTypeOK
  OBVIOUS
<1>1. \A b \in {snap, boot} \ {NoSnap} :
        b.seq \in 0..MaxSeq /\ b.live \subseteq Systems /\ b.current \in BOOLEAN
  <2> SUFFICES ASSUME NEW b \in {snap, boot} \ {NoSnap}
               PROVE  b.seq \in 0..MaxSeq /\ b.live \subseteq Systems /\ b.current \in BOOLEAN
    OBVIOUS
  <2>1. b \in Snaps
    BY DEF BotShape
  <2>2. b.current \in BOOLEAN
    BY <2>1, Zenon DEF Snaps
  <2>3. b.seq \in 0..MaxSeq /\ b.live \subseteq Systems
    BY <2>1, SnapFields
  <2> QED
    BY <2>2, <2>3, Zenon
<1>2. job # NoJob =>
        /\ job.target \in 0..MaxSeq
        /\ job.goal \in [Systems -> Int]
        /\ job.unsent \subseteq Messages \ delivered
        /\ job.failure \in {"none", "error", "limit"}
  <2> SUFFICES ASSUME job # NoJob
               PROVE  /\ job.target \in 0..MaxSeq
                      /\ job.goal \in [Systems -> Int]
                      /\ job.unsent \subseteq Messages \ delivered
                      /\ job.failure \in {"none", "error", "limit"}
    OBVIOUS
  <2>1. job \in Works
    BY DEF BotShape
  <2> QED
    BY <2>1, JobFields
<1> QED
  BY <1>1, <1>2, Zenon DEF BotTypeOK, BotShape, BotFlags

\* The cursor is never ahead of a bootstrap or of the work in hand, nor these of
\* the journal; no cursor without a first bootstrap.
BotOrder ==
    /\ acked <= Watermark
    /\ acked > 0 => ready
    /\ initialized => ready
    /\ ~initialized => acked = 0
    /\ pc = "replay" => initialized
    /\ pc = "ack" => ready
    /\ pc = "idle" => boot = NoSnap
    /\ snap # NoSnap => snap.seq <= Watermark
    /\ boot # NoSnap => acked <= boot.seq /\ boot.seq <= Watermark
    /\ job # NoJob =>
        /\ acked <= job.target /\ job.target <= Watermark
        /\ boot # NoSnap => ~ job.baseline /\ job.target <= boot.seq
        /\ job.baseline \/ initialized

\* The work j in hand tells groups what they have not been told and what is so at
\* its number, and leaves announced what is hostile there, unless events are gone.
SoundWork(j) ==
    /\ \A m \in j.unsent : /\ m \notin delivered
                           /\ m.kind = "alert" <=> KindIn(committed, m.system, j.target) = "hostile"
    /\ kept = committed => Fits(committed, j.goal, j.target)

BotNews ==
    /\ IsFiniteSet(delivered)
    /\ job # NoJob => SoundWork(job)
    /\ pc = "ack" => tracked = job.goal
    /\ kept = committed => Fits(committed, tracked, acked)

BotInv == BotShape /\ BotFlags /\ BotOrder /\ BotNews

\* A message to every group that has not got it.
LEMMA FanoutMessages ==
    ASSUME NEW kind \in {"alert", "safe"}, NEW s \in Systems, NEW episode \in Int
    PROVE  /\ Fanout(kind, s, episode) \subseteq Messages
           /\ \A m \in Fanout(kind, s, episode) :
                m \notin delivered /\ m.kind = kind /\ m.system = s
<1> SUFFICES ASSUME NEW m \in Fanout(kind, s, episode)
             PROVE  m \in Messages /\ m \notin delivered /\ m.kind = kind /\ m.system = s
  OBVIOUS
<1>1. m \in [kind : {kind}, system : {s}, episode : {episode}, group : Groups] /\ m \notin delivered
  BY DEF Fanout
<1> QED
  BY <1>1 DEF Messages

\* The work for the next event.
LEMMA EventWorkSound ==
    ASSUME JournalInv, BotInv, After(acked) # {}
    PROVE  LET e == NextAfter(acked)
               j == EventWork(e)
           IN  /\ e \in committed /\ e \in Events
               /\ j \in Works /\ j.target = e.seq /\ ~ j.baseline
               /\ acked <= e.seq /\ e.seq <= Watermark
               /\ SoundWork(j)
<1> DEFINE e == NextAfter(acked)
           goal == [tracked EXCEPT ![e.system] = EpisodeAfter(e)]
           unsent == EventMessages(e)
           j == EventWork(e)
<1>1. /\ kept \subseteq Events /\ committed \subseteq Events /\ kept \subseteq committed
      /\ \A d, f \in committed : d.seq = f.seq => d = f
  BY DEF JournalInv, JournalTypeOK
<1>2. acked \in Int /\ tracked \in [Systems -> Int]
  BY EventNumbers DEF BotInv, BotShape
<1>3. /\ e \in kept /\ e.seq > acked
      /\ \A f \in After(acked) : e.seq <= f.seq
  BY <1>1, <1>2, NextEvent
<1> HIDE DEF e
<1>4. /\ e \in Events /\ e \in committed /\ e.seq \in 1..MaxSeq /\ e.seq \in Nat
      /\ e.system \in Systems /\ e.kind \in Kinds
  BY <1>1, <1>3, EventNumbers
<1>5. e.seq <= Watermark
  BY <1>1, <1>3, HighestNumber DEF Watermark
<1>6. EpisodeAfter(e) \in Int /\ (EpisodeAfter(e) # Untracked <=> e.kind = "hostile")
  BY <1>2, <1>4 DEF EpisodeAfter, Untracked
<1>7. KindIn(committed, e.system, e.seq) = e.kind
  BY <1>1, <1>4, EventSpeaks
<1>8. /\ goal \in [Systems -> Int] /\ goal[e.system] = EpisodeAfter(e)
      /\ \A s \in Systems : s # e.system => goal[s] = tracked[s]
  BY <1>2, <1>4, <1>6
<1>9. /\ unsent \subseteq Messages
      /\ \A m \in unsent : m \notin delivered /\ (m.kind = "alert" <=> e.kind = "hostile")
                           /\ m.system = e.system
  <2>1. CASE e.kind = "hostile" /\ tracked[e.system] = Untracked
    <3>1. unsent = Fanout("alert", e.system, e.seq)
      BY <2>1 DEF EventMessages
    <3> QED
      BY <2>1, <3>1, <1>4, FanoutMessages
  <2>2. CASE e.kind = "clear" /\ tracked[e.system] # Untracked
    <3>1. unsent = Fanout("safe", e.system, e.seq)
      BY <2>2 DEF EventMessages
    <3> QED
      BY <2>2, <3>1, <1>4, FanoutMessages
  <2>3. CASE /\ ~ (e.kind = "hostile" /\ tracked[e.system] = Untracked)
             /\ ~ (e.kind = "clear" /\ tracked[e.system] # Untracked)
    <3>1. unsent = {}
      BY <2>3 DEF EventMessages
    <3> QED
      BY <3>1
  <2> QED
    BY <2>1, <2>2, <2>3
<1> HIDE DEF goal, unsent, j
<1>10. /\ j \in Works /\ j.target = e.seq /\ j.goal = goal /\ j.unsent = unsent
       /\ j.baseline = FALSE
  <2>1. e.seq \in 0..MaxSeq
    BY <1>4, EventNumbers
  <2>2. FALSE \in BOOLEAN
    OBVIOUS
  <2>3. j = Work(e.seq, goal, unsent, FALSE)
    BY Zenon DEF EventWork, goal, unsent, j
  <2>4. unsent \in SUBSET Messages
    BY <1>9
  <2>5. IsWork(j, e.seq, goal, unsent, FALSE)
    BY <1>8, <2>1, <2>2, <2>3, <2>4, WorkFields, Zenon
  <2> QED
    BY <2>5, Zenon DEF IsWork
<1>11. ~ j.baseline
  BY <1>10, Zenon
<1>12. kept = committed => Fits(committed, goal, e.seq)
  <2> SUFFICES ASSUME kept = committed
               PROVE  Fits(committed, goal, e.seq)
    OBVIOUS
  <2>1. Fits(committed, tracked, acked)
    BY DEF BotInv, BotNews
  <2>2. \A f \in committed : f.seq > acked => e.seq <= f.seq
    BY <1>3 DEF After
  <2> QED
    BY <1>1, <1>2, <1>3, <1>4, <1>6, <1>8, <2>1, <2>2, EventFits
<1>13. SoundWork(j)
  BY <1>7, <1>9, <1>10, <1>12 DEF SoundWork
<1>14. acked <= e.seq
  BY <1>2, <1>3, <1>4
<1> QED
  BY <1>4, <1>5, <1>10, <1>11, <1>13, <1>14, Zenon DEF e, j

\* The work for a bootstrap that is not behind the cursor.
LEMMA BootstrapWorkSound ==
    ASSUME JournalInv, BotInv, NEW b \in Snaps, acked <= b.seq
    PROVE  LET j == BootstrapWork(b)
           IN  j \in Works /\ j.target = b.seq /\ j.baseline /\ SoundWork(j)
<1> DEFINE current == HostileAt(b.seq)
           safe == (Tracked \ current) \cap b.live
           alert == current \ Tracked
           goal == [s \in Systems |->
                    IF s \notin current THEN Untracked
                    ELSE IF s \in Tracked THEN tracked[s] ELSE FreshEpisode]
           all == (UNION {Fanout("safe", s, tracked[s]) : s \in safe})
                     \cup (UNION {Fanout("alert", s, FreshEpisode) : s \in alert})
           unsent == IF ready THEN all ELSE {}
           j == BootstrapWork(b)
<1>1. /\ acked \in Nat /\ b.seq \in 0..MaxSeq /\ b.seq \in Nat /\ tracked \in [Systems -> Int]
      /\ delivered \subseteq Messages /\ IsFiniteSet(delivered)
  BY SnapFields, EventNumbers DEF BotInv, BotShape, BotNews
<1>2. FreshEpisode \in Int /\ FreshEpisode < 0
  BY <1>1, EpisodeIsFresh DEF Messages
<1>3. \A s \in Systems : s \in current <=> KindIn(committed, s, b.seq) = "hostile"
  BY DEF HostileAt, KindAt, KindIn
<1>4. current \subseteq Systems
  BY DEF HostileAt
<1> HIDE DEF current
<1>5. \A s \in Systems : s \in Tracked <=> tracked[s] # Untracked
  BY DEF Tracked
<1>6. goal \in [Systems -> Int] /\ \A s \in Systems : goal[s] # Untracked <=> s \in current
  BY <1>1, <1>2, <1>5 DEF Untracked
<1>7. /\ all \subseteq Messages
      /\ \A m \in all : m \notin delivered /\ m.system \in Systems
                        /\ (m.kind = "alert" <=> m.system \in current)
  <2> SUFFICES ASSUME NEW m \in all
               PROVE  m \in Messages /\ m \notin delivered /\ m.system \in Systems
                      /\ (m.kind = "alert" <=> m.system \in current)
    OBVIOUS
  <2>1. CASE \E s \in safe : m \in Fanout("safe", s, tracked[s])
    <3>1. PICK s \in safe : m \in Fanout("safe", s, tracked[s])
      BY <2>1
    <3>2. s \in Systems /\ s \notin current /\ tracked[s] \in Int
      BY <1>1 DEF Tracked
    <3> QED
      BY <3>1, <3>2, FanoutMessages
  <2>2. CASE \E s \in alert : m \in Fanout("alert", s, FreshEpisode)
    <3>1. PICK s \in alert : m \in Fanout("alert", s, FreshEpisode)
      BY <2>2
    <3>2. s \in Systems /\ s \in current
      BY <1>4
    <3> QED
      BY <1>2, <3>1, <3>2, FanoutMessages
  <2>3. \/ \E s \in safe : m \in Fanout("safe", s, tracked[s])
        \/ \E s \in alert : m \in Fanout("alert", s, FreshEpisode)
    <3> HIDE DEF safe, alert
    <3> QED
      OBVIOUS
  <2> QED
    BY <2>1, <2>2, <2>3
<1> HIDE DEF goal, all
<1>8. unsent \subseteq all
  BY Zenon
<1>9. j = Work(IF acked > b.seq THEN acked ELSE b.seq, goal, unsent, TRUE)
  BY Zenon DEF BootstrapWork, current, goal, all
<1>10. (IF acked > b.seq THEN acked ELSE b.seq) = b.seq
  BY <1>1
<1> HIDE DEF unsent, j
<1>11. /\ j \in Works /\ j.target = b.seq /\ j.goal = goal /\ j.unsent = unsent
       /\ j.baseline = TRUE
  <2>1. TRUE \in BOOLEAN
    OBVIOUS
  <2>2. unsent \in SUBSET Messages
    BY <1>7, <1>8
  <2>3. j = Work(b.seq, goal, unsent, TRUE)
    BY <1>9, <1>10, Zenon
  <2>4. IsWork(j, b.seq, goal, unsent, TRUE)
    BY <1>1, <1>6, <2>1, <2>2, <2>3, WorkFields, Zenon
  <2> QED
    BY <2>4, Zenon DEF IsWork
<1>12. j.baseline
  BY <1>11, Zenon
<1>13. Fits(committed, goal, b.seq)
  BY <1>3, <1>6 DEF Fits
<1>14. SoundWork(j)
  BY <1>3, <1>7, <1>8, <1>11, <1>13 DEF SoundWork
<1> QED
  BY <1>11, <1>12, <1>14, Zenon DEF j

\* While the journal goes on, all that the bot holds stays right.
LEMMA JournalLeavesBot ==
    ASSUME JournalInv, BotInv, JournalNext, UNCHANGED bot
    PROVE  BotInv'
<1>1. /\ JournalInv' /\ committed \subseteq committed' /\ CommitsInOrder
      /\ Watermark' >= Watermark
      /\ kept' = committed' => kept = committed
  BY JournalKeeps
<1>2. /\ kept \subseteq committed /\ kept \subseteq Events /\ committed \subseteq Events
      /\ committed' \subseteq Events /\ kept' \subseteq Events
  BY <1>1 DEF JournalInv, JournalTypeOK
<1>3. /\ acked' = acked /\ ready' = ready /\ tracked' = tracked /\ delivered' = delivered
      /\ heard' = heard /\ pc' = pc /\ initialized' = initialized /\ reconcile' = reconcile
      /\ snap' = snap /\ boot' = boot /\ job' = job /\ faults' = faults
  BY DEF bot
<1>4. Watermark \in Nat /\ Watermark' \in Nat
  BY <1>2, HighestNumber, EventNumbers DEF Watermark
<1>5. \A e \in committed' \ committed : e.seq > Watermark
  BY CommitsAreNew
<1>6. \A n \in Nat : n <= Watermark =>
        /\ \A s \in Systems : KindIn(committed', s, n) = KindIn(committed, s, n)
        /\ \A episodes : Fits(committed, episodes, n) => Fits(committed', episodes, n)
  <2> SUFFICES ASSUME NEW n \in Nat, n <= Watermark
               PROVE  /\ \A s \in Systems : KindIn(committed', s, n) = KindIn(committed, s, n)
                      /\ \A episodes : Fits(committed, episodes, n)
                                        => Fits(committed', episodes, n)
    OBVIOUS
  <2>1. \A e \in committed' \ committed : e.seq > n
    BY <1>2, <1>4, <1>5, EventNumbers
  <2> QED
    BY <1>1, <1>2, <2>1, KindGrows
<1>7. acked \in Nat /\ acked <= Watermark
  BY EventNumbers DEF BotInv, BotShape, BotOrder
<1>8. job # NoJob => /\ job \in Works /\ job.target \in Nat /\ job.target <= Watermark
                     /\ job.unsent \subseteq Messages
  BY JobFields, EventNumbers DEF BotInv, BotShape, BotOrder
<1>9. (job # NoJob => SoundWork(job))'
  <2> SUFFICES ASSUME job # NoJob
               PROVE  SoundWork(job)'
    BY <1>3
  <2>1. SoundWork(job)
    BY DEF BotInv, BotNews
  <2>2. \A m \in job.unsent : m.system \in Systems
    BY <1>8 DEF Messages
  <2> QED
    BY <1>1, <1>3, <1>6, <1>8, <2>1, <2>2 DEF SoundWork
<1>10. (kept = committed => Fits(committed, tracked, acked))'
  BY <1>1, <1>3, <1>6, <1>7 DEF BotInv, BotNews
<1>11. BotNews'
  BY <1>3, <1>9, <1>10 DEF BotInv, BotNews
<1>12. BotShape' /\ BotFlags'
  BY <1>3, Zenon DEF BotInv, BotShape, BotFlags
<1>13. \A b \in Snaps : b.seq \in Nat
  BY SnapFields
<1>14. BotOrder'
  <2>1. snap # NoSnap => snap.seq <= Watermark'
    BY <1>1, <1>4, <1>13 DEF BotInv, BotShape, BotOrder
  <2>2. boot # NoSnap => acked <= boot.seq /\ boot.seq <= Watermark'
    BY <1>1, <1>4, <1>13 DEF BotInv, BotShape, BotOrder
  <2>3. acked <= Watermark' /\ (job # NoJob => job.target <= Watermark')
    BY <1>1, <1>4, <1>7, <1>8
  <2> QED
    BY <1>3, <2>1, <2>2, <2>3, Zenon DEF BotInv, BotOrder
<1> QED
  BY <1>11, <1>12, <1>14 DEF BotInv

\* Calling for a new bootstrap leaves the finished one with its number.
LEMMA CalledSnap ==
    ASSUME BotShape, CallForBootstrap
    PROVE  /\ reconcile' \in BOOLEAN
           /\ snap' \in Snaps \cup {NoSnap}
           /\ snap' # NoSnap => snap # NoSnap /\ snap'.seq = snap.seq
<1>1. reconcile' = TRUE /\ snap' = IF snap = NoSnap THEN NoSnap ELSE [snap EXCEPT !.current = FALSE]
  BY Zenon DEF CallForBootstrap
<1>2. CASE snap = NoSnap
  BY <1>1, <1>2, Zenon
<1>3. CASE snap # NoSnap
  <2>1. snap \in Snaps
    BY <1>3 DEF BotShape
  <2>2. snap' = [snap EXCEPT !.current = FALSE]
    BY <1>1, <1>3, Zenon
  <2>3. snap' \in Snaps
    BY <2>1, <2>2, Zenon DEF Snaps
  <2>4. snap'.seq = snap.seq
    BY <2>1, <2>2, Zenon DEF Snaps
  <2> QED
    BY <1>1, <1>3, <2>3, <2>4, Zenon
<1> QED
  BY <1>2, <1>3

\* A finished bootstrap is no newer than the journal.
LEMMA SnapshotKeeps ==
    ASSUME JournalInv, BotInv, TakeSnapshot, UNCHANGED journal
    PROVE  BotInv'
<1>1. /\ acked' = acked /\ ready' = ready /\ tracked' = tracked /\ delivered' = delivered
      /\ heard' = heard /\ pc' = pc /\ initialized' = initialized /\ reconcile' = reconcile
      /\ boot' = boot /\ job' = job /\ faults' = faults
      /\ committed' = committed /\ kept' = kept
  BY DEF TakeSnapshot, redis, journal
<1>2. PICK watched \in SUBSET Systems :
        snap' = [seq |-> Watermark, live |-> watched, current |-> TRUE]
  BY Zenon DEF TakeSnapshot
<1>3. Watermark \in 0..MaxSeq
  BY HighestNumber DEF Watermark, JournalInv, JournalTypeOK
<1>4. TRUE \in BOOLEAN
  OBVIOUS
<1>5. snap' \in Snaps
  BY <1>2, <1>3, <1>4, Zenon DEF Snaps
<1>6. snap'.seq = Watermark
  BY <1>2, Zenon
<1>7. Watermark' = Watermark
  BY <1>1 DEF Watermark
<1>8. BotShape'
  BY <1>1, <1>5, Zenon DEF BotInv, BotShape
<1>9. BotFlags'
  BY <1>1, Zenon DEF BotInv, BotFlags
<1>10. snap'.seq <= Watermark'
  BY <1>3, <1>6, <1>7
<1>11. BotOrder'
  BY <1>1, <1>7, <1>10, Zenon DEF BotInv, BotOrder
<1>12. BotNews'
  <2>1. (job # NoJob => SoundWork(job))'
    BY <1>1 DEF BotInv, BotNews, SoundWork
  <2>2. (kept = committed => Fits(committed, tracked, acked))'
    BY <1>1 DEF BotInv, BotNews
  <2> QED
    BY <1>1, <2>1, <2>2, Zenon DEF BotInv, BotNews
<1> QED
  BY <1>8, <1>9, <1>11, <1>12 DEF BotInv

\* The loop begins again from what Redis keeps.
LEMMA ReloadKeeps ==
    ASSUME JournalInv, BotInv, Reload, UNCHANGED <<redis, heard, journal>>,
           reconcile' \in BOOLEAN, faults' \in 0..MaxFaults,
           snap' \in Snaps \cup {NoSnap},
           snap' # NoSnap => snap # NoSnap /\ snap'.seq = snap.seq
    PROVE  BotInv'
<1>1. /\ acked' = acked /\ ready' = ready /\ tracked' = tracked /\ delivered' = delivered
      /\ heard' = heard /\ committed' = committed /\ kept' = kept
      /\ pc' = "idle" /\ boot' = NoSnap /\ job' = NoJob
  BY DEF Reload, redis, journal
<1>2. initialized' = (acked > 0 /\ ready)
  BY DEF Reload
<1>3. Watermark' = Watermark
  BY <1>1 DEF Watermark
<1>4. acked \in Nat
  BY EventNumbers DEF BotInv, BotShape
<1>5. BotShape'
  BY <1>1 DEF BotInv, BotShape
<1>6. BotFlags'
  BY <1>1, <1>2 DEF BotInv, BotFlags
<1>7. ~ initialized' => acked = 0
  <2>1. acked > 0 => ready
    BY Zenon DEF BotInv, BotOrder
  <2>2. ~ initialized' => ~ (acked > 0)
    BY <1>2, <2>1, Zenon
  <2> QED
    BY <1>4, <2>2
<1>8. initialized' => ready
  BY <1>2
<1>9. snap' # NoSnap => snap'.seq <= Watermark
  BY DEF BotInv, BotOrder
<1>10. BotOrder'
  BY <1>1, <1>3, <1>7, <1>8, <1>9, Zenon DEF BotInv, BotOrder
<1>11. BotNews'
  BY <1>1 DEF BotInv, BotNews
<1> QED
  BY <1>5, <1>6, <1>10, <1>11 DEF BotInv

\* An expired event, a failure or a crash: the loop begins again.
LEMMA RestartKeeps ==
    ASSUME JournalInv, BotInv, ExpireReplay \/ GiveUp \/ Crash, UNCHANGED journal
    PROVE  BotInv'
<1>1. faults \in 0..MaxFaults /\ snap \in Snaps \cup {NoSnap} /\ BotShape
  BY DEF BotInv, BotShape
<1>2. CASE ExpireReplay
  <2>1. Reload /\ CallForBootstrap /\ UNCHANGED <<redis, heard, journal>> /\ faults' = faults
    BY <1>2 DEF ExpireReplay
  <2> QED
    BY <1>1, <2>1, CalledSnap, ReloadKeeps
<1>3. CASE GiveUp
  <2>1. Reload /\ UNCHANGED <<redis, heard, journal>> /\ faults' = faults
    BY <1>3 DEF GiveUp
  <2>2. CASE job.failure = "limit"
    <3>1. CallForBootstrap
      BY <1>3, <2>2 DEF GiveUp
    <3> QED
      BY <1>1, <2>1, <3>1, CalledSnap, ReloadKeeps
  <2>3. CASE job.failure # "limit"
    <3>1. reconcile' = reconcile /\ snap' = snap
      BY <1>3, <2>3 DEF GiveUp
    <3>2. reconcile' \in BOOLEAN
      BY <3>1, Zenon DEF BotInv, BotFlags
    <3> QED
      BY <1>1, <2>1, <3>1, <3>2, ReloadKeeps
  <2> QED
    BY <2>2, <2>3
<1>4. CASE Crash
  <2>1. /\ Reload /\ UNCHANGED <<redis, heard, journal>> /\ snap' = NoSnap
        /\ faults < MaxFaults /\ faults' = faults + 1
    BY <1>4 DEF Crash
  <2>2. reconcile' \in BOOLEAN
    BY <1>4 DEF Crash
  <2>3. faults' \in 0..MaxFaults
    BY <1>1, <2>1, MaxFaultsAssumption
  <2> QED
    BY <2>1, <2>2, <2>3, ReloadKeeps
<1> QED
  BY <1>2, <1>3, <1>4

\* A turn of the loop that has no work yet.
LEMMA TurnKeeps ==
    ASSUME JournalInv, BotInv, UNCHANGED journal, UNCHANGED <<redis, heard, reconcile, faults>>,
           initialized' = initialized, pc = "idle" \/ pc = "replay", job' = NoJob,
           pc' = "idle" \/ pc' = "replay", pc' = "replay" => initialized,
           snap' = snap \/ snap' = NoSnap,
           boot' = NoSnap \/ (pc' = "replay" /\ boot' = snap /\ acked <= snap.seq)
    PROVE  BotInv'
<1>1. /\ acked' = acked /\ ready' = ready /\ tracked' = tracked /\ delivered' = delivered
      /\ heard' = heard /\ reconcile' = reconcile /\ faults' = faults
      /\ committed' = committed /\ kept' = kept
  BY DEF redis, journal
<1>2. Watermark' = Watermark
  BY <1>1 DEF Watermark
<1>3. BotShape'
  BY <1>1 DEF BotInv, BotShape
<1>4. BotFlags'
  BY <1>1, Zenon DEF BotInv, BotFlags
<1>5. pc' = "idle" => boot' = NoSnap
  OBVIOUS
<1>6. snap' # NoSnap => snap'.seq <= Watermark
  BY DEF BotInv, BotOrder
<1>7. boot' # NoSnap => acked <= boot'.seq /\ boot'.seq <= Watermark
  BY DEF BotInv, BotOrder
<1>8. pc' # "ack"
  OBVIOUS
<1>9. BotOrder'
  BY <1>1, <1>2, <1>5, <1>6, <1>7, <1>8, Zenon DEF BotInv, BotOrder
<1>10. BotNews'
  BY <1>1, <1>8 DEF BotInv, BotNews
<1> QED
  BY <1>3, <1>4, <1>9, <1>10 DEF BotInv

\* A turn of the loop that takes up a bootstrap.
LEMMA BootstrapKeeps ==
    ASSUME JournalInv, BotInv, UNCHANGED journal, UNCHANGED <<redis, heard, reconcile, faults>>,
           initialized' = initialized, pc' = "sending", boot' = NoSnap,
           snap' = snap \/ snap' = NoSnap,
           NEW b \in Snaps, acked <= b.seq, b.seq <= Watermark, job' = BootstrapWork(b)
    PROVE  BotInv'
<1>1. /\ acked' = acked /\ ready' = ready /\ tracked' = tracked /\ delivered' = delivered
      /\ heard' = heard /\ reconcile' = reconcile /\ faults' = faults
      /\ committed' = committed /\ kept' = kept
  BY DEF redis, journal
<1>2. Watermark' = Watermark
  BY <1>1 DEF Watermark
<1>3. job' \in Works /\ job'.target = b.seq /\ job'.baseline /\ SoundWork(job')
  BY BootstrapWorkSound, Zenon
<1>4. job' # NoJob
  BY <1>3, AbsentRecords
<1>5. BotShape'
  <2>1. job' \in Works
    BY <1>3, Zenon
  <2> QED
    BY <1>1, <1>4, <2>1 DEF BotInv, BotShape
<1>6. BotFlags'
  BY <1>1, Zenon DEF BotInv, BotFlags
<1>7. snap' # NoSnap => snap'.seq <= Watermark
  BY DEF BotInv, BotOrder
<1>8. pc' # "idle" /\ pc' # "replay" /\ pc' # "ack"
  OBVIOUS
<1>9. acked <= job'.target /\ job'.target <= Watermark
  BY <1>3, Zenon
<1>10. BotOrder'
  BY <1>1, <1>2, <1>3, <1>7, <1>8, <1>9, Zenon DEF BotInv, BotOrder
<1>11. SoundWork(job)'
  <2>1. SoundWork(job')
    BY <1>3, Zenon
  <2> QED
    BY <1>1, <2>1 DEF SoundWork
<1>12. BotNews'
  <2>1. (kept = committed => Fits(committed, tracked, acked))'
    BY <1>1 DEF BotInv, BotNews
  <2>2. IsFiniteSet(delivered')
    BY <1>1 DEF BotInv, BotNews
  <2> QED
    BY <1>8, <1>11, <2>1, <2>2, Zenon DEF BotNews
<1> QED
  BY <1>5, <1>6, <1>10, <1>12 DEF BotInv

\* The loop takes a turn, or comes to the end of the journal.
LEMMA LoopKeeps ==
    ASSUME JournalInv, BotInv, UNCHANGED journal,
           TurnWithBootstrap \/ TurnWithoutBootstrap \/ EndReplay
    PROVE  BotInv'
<1>1. /\ snap \in Snaps \cup {NoSnap} /\ boot \in Snaps \cup {NoSnap}
      /\ snap # NoSnap => snap.seq <= Watermark
      /\ boot # NoSnap => acked <= boot.seq /\ boot.seq <= Watermark
  BY DEF BotInv, BotShape, BotOrder
<1>2. acked \in Nat /\ Watermark \in Nat /\ \A b \in Snaps : b.seq \in Nat
  <2>1. Watermark \in Nat
    BY HighestNumber, EventNumbers DEF Watermark, JournalInv, JournalTypeOK
  <2> QED
    BY <2>1, SnapFields DEF BotInv, BotShape
<1>3. pc \in {"idle", "replay"} => job = NoJob
  BY DEF BotInv, BotShape
<1>4. CASE TurnWithBootstrap
  <2>1. /\ pc = "idle" /\ snap # NoSnap /\ snap' = NoSnap /\ snap \in Snaps
        /\ UNCHANGED <<redis, heard, reconcile, faults>> /\ initialized' = initialized
        /\ boot = NoSnap /\ job = NoJob
    BY <1>1, <1>3, <1>4 DEF TurnWithBootstrap, BotInv, BotOrder
  <2>2. CASE pc' = pc /\ boot' = boot /\ job' = job
    BY <2>1, <2>2, TurnKeeps
  <2>3. CASE /\ reconcile \/ ~ initialized
             /\ ~ (reconcile /\ Outdated(snap))
             /\ pc' = "sending" /\ job' = BootstrapWork(snap) /\ boot' = NoSnap
    <3>1. acked <= snap.seq
      <4>1. CASE initialized
        <5>1. ~ (snap.seq < acked)
          BY <2>3, <4>1, Zenon DEF Outdated
        <5> QED
          BY <1>2, <2>1, <5>1
      <4>2. CASE ~ initialized
        <5>1. acked = 0
          BY <4>2, Zenon DEF BotInv, BotOrder
        <5> QED
          BY <1>2, <2>1, <5>1
      <4> QED
        BY <4>1, <4>2
    <3>2. pc' = "sending" /\ job' = BootstrapWork(snap) /\ boot' = NoSnap
      BY <2>3
    <3> QED
      BY <1>1, <2>1, <3>1, <3>2, BootstrapKeeps
  <2>4. CASE /\ initialized
             /\ pc' = "replay" /\ job' = NoJob
             /\ boot' = IF Outdated(snap) THEN NoSnap ELSE snap
    <3>1. boot' = NoSnap \/ (pc' = "replay" /\ boot' = snap /\ acked <= snap.seq)
      <4>1. CASE Outdated(snap)
        BY <2>4, <4>1
      <4>2. CASE ~ Outdated(snap)
        <5>1. ~ (snap.seq < acked)
          BY <4>2, Zenon DEF Outdated
        <5> QED
          BY <1>2, <2>1, <2>4, <4>2, <5>1
      <4> QED
        BY <4>1, <4>2
    <3>2. initialized /\ pc' = "replay" /\ job' = NoJob
      BY <2>4
    <3> QED
      BY <2>1, <3>1, <3>2, TurnKeeps
  <2>5. \/ pc' = pc /\ boot' = boot /\ job' = job
        \/ /\ reconcile \/ ~ initialized
           /\ ~ (reconcile /\ Outdated(snap))
           /\ pc' = "sending" /\ job' = BootstrapWork(snap) /\ boot' = NoSnap
        \/ /\ initialized
           /\ pc' = "replay" /\ job' = NoJob
           /\ boot' = IF Outdated(snap) THEN NoSnap ELSE snap
    BY <1>4, Zenon DEF TurnWithBootstrap
  <2> QED
    BY <2>2, <2>3, <2>4, <2>5, Zenon
<1>5. CASE TurnWithoutBootstrap
  <2>1. /\ pc = "idle" /\ pc' = "replay" /\ initialized /\ snap' = snap /\ boot' = boot
        /\ UNCHANGED <<redis, heard, reconcile, faults>> /\ initialized' = initialized
        /\ boot = NoSnap /\ job' = NoJob
    BY <1>3, <1>5 DEF TurnWithoutBootstrap, BotInv, BotOrder
  <2> QED
    BY <2>1, TurnKeeps
<1>6. CASE EndReplay
  <2>1. /\ pc = "replay" /\ snap' = snap /\ boot' = NoSnap
        /\ UNCHANGED <<redis, heard, reconcile, faults>> /\ initialized' = initialized
    BY <1>6 DEF EndReplay
  <2>2. CASE boot = NoSnap
    <3>1. pc' = "idle" /\ job' = NoJob
      BY <1>6, <2>2 DEF EndReplay
    <3> QED
      BY <2>1, <3>1, TurnKeeps
  <2>3. CASE boot # NoSnap
    <3>1. pc' = "sending" /\ job' = BootstrapWork(boot) /\ boot \in Snaps
      BY <1>1, <1>6, <2>3 DEF EndReplay
    <3> QED
      BY <1>1, <2>1, <2>3, <3>1, BootstrapKeeps
  <2> QED
    BY <2>2, <2>3
<1> QED
  BY <1>4, <1>5, <1>6

\* The next event is taken up.
LEMMA ReplayKeeps ==
    ASSUME JournalInv, BotInv, UNCHANGED journal, ReplayEvent
    PROVE  BotInv'
<1>1. /\ acked' = acked /\ ready' = ready /\ tracked' = tracked /\ delivered' = delivered
      /\ heard' = heard /\ initialized' = initialized /\ reconcile' = reconcile
      /\ snap' = snap /\ boot' = boot /\ faults' = faults
      /\ committed' = committed /\ kept' = kept
      /\ pc = "replay" /\ pc' = "sending"
  BY DEF ReplayEvent, Replayable, redis, journal
<1>2. After(acked) # {} /\ job' = EventWork(NextAfter(acked))
  BY DEF ReplayEvent, Replayable
<1>3. boot # NoSnap => NextAfter(acked).seq <= boot.seq
  BY DEF ReplayEvent, Replayable
<1>4. /\ job' \in Works /\ job'.target = NextAfter(acked).seq /\ ~ job'.baseline
      /\ acked <= NextAfter(acked).seq /\ NextAfter(acked).seq <= Watermark
      /\ SoundWork(job')
  BY <1>2, EventWorkSound, Zenon
<1>5. Watermark' = Watermark
  BY <1>1 DEF Watermark
<1>6. job' # NoJob
  BY <1>4, AbsentRecords
<1>7. BotShape'
  <2>1. job' \in Works
    BY <1>4, Zenon
  <2> QED
    BY <1>1, <1>6, <2>1 DEF BotInv, BotShape
<1>8. BotFlags'
  BY <1>1, Zenon DEF BotInv, BotFlags
<1>9. pc' # "idle" /\ pc' # "replay" /\ pc' # "ack"
  BY <1>1
<1>10. initialized'
  BY <1>1, Zenon DEF BotInv, BotOrder
<1>11. /\ acked <= job'.target /\ job'.target <= Watermark
       /\ boot # NoSnap => job'.target <= boot.seq
  BY <1>3, <1>4, Zenon
<1>12. BotOrder'
  BY <1>1, <1>4, <1>5, <1>9, <1>10, <1>11, Zenon DEF BotInv, BotOrder
<1>13. SoundWork(job)'
  <2>1. SoundWork(job')
    BY <1>4, Zenon
  <2> QED
    BY <1>1, <2>1 DEF SoundWork
<1>14. BotNews'
  <2>1. (kept = committed => Fits(committed, tracked, acked))'
    BY <1>1 DEF BotInv, BotNews
  <2>2. IsFiniteSet(delivered')
    BY <1>1 DEF BotInv, BotNews
  <2> QED
    BY <1>9, <1>13, <2>1, <2>2, Zenon DEF BotNews
<1> QED
  BY <1>7, <1>8, <1>12, <1>14 DEF BotInv

\* While it sends, the work gets fewer messages to send and stays as it is.
LEMMA SendingKeeps ==
    ASSUME JournalInv, BotInv, UNCHANGED journal, pc = "sending",
           UNCHANGED <<acked, ready, tracked, pc, initialized, reconcile, snap, boot>>,
           faults' \in 0..MaxFaults, NEW m \in job.unsent,
           heard' \in [Groups -> [Systems -> {"nothing", "alert", "safe"}]],
           delivered' = delivered \/ delivered' = delivered \cup {m},
           job' \in Works, job'.target = job.target, job'.goal = job.goal,
           job'.unsent = job.unsent \ {m}, job'.baseline = job.baseline
    PROVE  BotInv'
<1>1. /\ acked' = acked /\ ready' = ready /\ tracked' = tracked /\ pc' = pc
      /\ initialized' = initialized /\ reconcile' = reconcile
      /\ snap' = snap /\ boot' = boot /\ committed' = committed /\ kept' = kept
  BY DEF journal
<1>2. Watermark' = Watermark
  BY <1>1 DEF Watermark
<1>3. job # NoJob /\ job \in Works
  BY DEF BotInv, BotShape
<1>4. job' # NoJob
  BY AbsentRecords
<1>5. m \in Messages /\ delivered \subseteq Messages /\ IsFiniteSet(delivered)
  BY <1>3, JobFields DEF BotInv, BotShape, BotNews
<1>6. delivered' \subseteq Messages
  BY <1>5
<1>7. IsFiniteSet(delivered')
  BY <1>5, FS_AddElement
<1>8. BotShape'
  BY <1>1, <1>3, <1>4, <1>6 DEF BotInv, BotShape
<1>9. BotFlags'
  BY <1>1, Zenon DEF BotInv, BotFlags
<1>10. BotOrder'
  <2>1. acked' <= job'.target /\ job'.target <= Watermark'
    BY <1>1, <1>2, <1>3, Zenon DEF BotInv, BotOrder
  <2>2. boot' # NoSnap => ~ job'.baseline /\ job'.target <= boot'.seq
    BY <1>1, <1>3, Zenon DEF BotInv, BotOrder
  <2>3. job'.baseline \/ initialized'
    <3>1. job.baseline \/ initialized
      BY <1>3, Zenon DEF BotInv, BotOrder
    <3>2. CASE job.baseline
      BY <3>2, Zenon
    <3>3. CASE initialized
      BY <1>1, <3>3, Zenon
    <3> QED
      BY <3>1, <3>2, <3>3, Zenon
  <2>4. pc' # "ack" /\ pc' # "replay" /\ pc' # "idle"
    BY <1>1
  <2>5. acked' <= Watermark' /\ (acked' > 0 => ready')
    <3>1. acked <= Watermark /\ (acked > 0 => ready)
      BY Zenon DEF BotInv, BotOrder
    <3> QED
      BY <1>1, <1>2, <3>1
  <2>6. (initialized => ready) /\ (~ initialized => acked = 0)
    BY Zenon DEF BotInv, BotOrder
  <2>7. (initialized' => ready') /\ (~ initialized' => acked' = 0)
    BY <1>1, <2>6
  <2>8. /\ snap' # NoSnap => snap'.seq <= Watermark'
        /\ boot' # NoSnap => acked' <= boot'.seq /\ boot'.seq <= Watermark'
    BY <1>1, <1>2, Zenon DEF BotInv, BotOrder
  <2> QED
    BY <2>1, <2>2, <2>3, <2>4, <2>5, <2>7, <2>8, Zenon DEF BotOrder
<1>11. SoundWork(job)'
  <2>1. SoundWork(job)
    BY <1>3 DEF BotInv, BotNews
  <2>2. \A x \in job'.unsent : x \in job.unsent /\ x # m
    OBVIOUS
  <2>3. \A x \in job'.unsent : x \notin delivered'
    BY <2>1, <2>2 DEF SoundWork
  <2> QED
    BY <1>1, <2>1, <2>2, <2>3 DEF SoundWork
<1>12. BotNews'
  <2>1. (kept = committed => Fits(committed, tracked, acked))'
    BY <1>1 DEF BotInv, BotNews
  <2>2. pc' # "ack"
    BY <1>1
  <2> QED
    BY <1>7, <1>11, <2>1, <2>2, Zenon DEF BotNews
<1> QED
  BY <1>8, <1>9, <1>10, <1>12 DEF BotInv

\* A message reaches its group, or fails.
LEMMA MessageKeeps ==
    ASSUME JournalInv, BotInv, UNCHANGED journal, pc = "sending", NEW m \in job.unsent,
           Deliver(m) \/ FailDelivery(m)
    PROVE  BotInv'
<1>1. /\ job \in Works /\ job.unsent \subseteq Messages
      /\ job.failure \in {"none", "error", "limit"}
      /\ heard \in [Groups -> [Systems -> {"nothing", "alert", "safe"}]]
      /\ faults \in 0..MaxFaults
  BY JobFields DEF BotInv, BotShape
<1>2. m.kind \in {"alert", "safe"} /\ m.system \in Systems /\ m.group \in Groups
  BY <1>1 DEF Messages
<1>3. [heard EXCEPT ![m.group][m.system] = m.kind]
        \in [Groups -> [Systems -> {"nothing", "alert", "safe"}]]
  BY <1>1, <1>2
<1>4. job.unsent \ {m} \in SUBSET Messages
  BY <1>1
<1>5. CASE Deliver(m)
  <2>1. /\ heard' = [heard EXCEPT ![m.group][m.system] = m.kind]
        /\ delivered' = delivered \cup {m} /\ faults' = faults
        /\ UNCHANGED <<acked, ready, tracked, pc, initialized, reconcile, snap, boot>>
    BY <1>5 DEF Deliver
  <2>2. job' = [job EXCEPT !.unsent = job.unsent \ {m}]
    BY <1>5, Zenon DEF Deliver
  <2>3. job' \in Works
    BY <1>1, <1>4, <2>2, Zenon DEF Works
  <2>4. job'.target = job.target /\ job'.goal = job.goal /\ job'.baseline = job.baseline
    BY <1>1, <2>2, Zenon DEF Works
  <2>5. job'.unsent = job.unsent \ {m}
    BY <1>1, <2>2, Zenon DEF Works
  <2>6. heard' \in [Groups -> [Systems -> {"nothing", "alert", "safe"}]]
    BY <1>3, <2>1
  <2>7. faults' \in 0..MaxFaults
    BY <1>1, <2>1
  <2>8. delivered' = delivered \cup {m}
    BY <2>1
  <2>9. UNCHANGED <<acked, ready, tracked, pc, initialized, reconcile, snap, boot>>
    BY <2>1
  <2> QED
    BY <2>3, <2>4, <2>5, <2>6, <2>7, <2>8, <2>9, SendingKeeps, Zenon
<1>6. CASE FailDelivery(m)
  <2>1. /\ heard' \in {heard, [heard EXCEPT ![m.group][m.system] = m.kind]}
        /\ faults < MaxFaults /\ faults' = faults + 1
        /\ UNCHANGED <<acked, ready, tracked, delivered, pc, initialized, reconcile, snap, boot>>
    BY <1>6 DEF FailDelivery, redis
  <2>2. PICK failure \in {"none", "error", "limit"} :
          job' = [job EXCEPT !.unsent = job.unsent \ {m}, !.failure = failure]
    <3>1. PICK failure \in {"error", "limit"} :
            job' = [job EXCEPT !.unsent = @ \ {m},
                               !.failure = IF @ = "limit" THEN @ ELSE failure]
      BY <1>6, Zenon DEF FailDelivery
    <3>2. job' = [job EXCEPT !.unsent = job.unsent \ {m},
                             !.failure = IF job.failure = "limit" THEN job.failure ELSE failure]
      BY <3>1, Zenon
    <3>3. (IF job.failure = "limit" THEN job.failure ELSE failure) \in {"none", "error", "limit"}
      OBVIOUS
    <3> QED
      BY <3>2, <3>3, Zenon
  <2>3. job' \in Works
    BY <1>1, <1>4, <2>2, Zenon DEF Works
  <2>4. job'.target = job.target /\ job'.goal = job.goal /\ job'.baseline = job.baseline
    BY <1>1, <2>2, Zenon DEF Works
  <2>5. job'.unsent = job.unsent \ {m}
    BY <1>1, <2>2, Zenon DEF Works
  <2>6. heard' \in [Groups -> [Systems -> {"nothing", "alert", "safe"}]]
    BY <1>1, <1>3, <2>1
  <2>7. faults' \in 0..MaxFaults
    BY <1>1, <2>1, MaxFaultsAssumption
  <2>8. delivered' = delivered
    BY <2>1
  <2>9. UNCHANGED <<acked, ready, tracked, pc, initialized, reconcile, snap, boot>>
    BY <2>1
  <2> QED
    BY <2>3, <2>4, <2>5, <2>6, <2>7, <2>8, <2>9, SendingKeeps, Zenon
<1> QED
  BY <1>5, <1>6

\* What was announced is saved, while the cursor is still where it was.
LEMMA SaveKeeps ==
    ASSUME JournalInv, BotInv, UNCHANGED journal, Save
    PROVE  BotInv'
<1>1. /\ acked' = acked /\ delivered' = delivered /\ heard' = heard
      /\ initialized' = initialized /\ reconcile' = reconcile
      /\ snap' = snap /\ boot' = boot /\ job' = job /\ faults' = faults
      /\ committed' = committed /\ kept' = kept
      /\ pc = "sending" /\ pc' = "ack" /\ tracked' = job.goal
  BY DEF Save, journal
<1>2. ready' = TRUE
  BY DEF Save
<1>3. Watermark' = Watermark
  BY <1>1 DEF Watermark
<1>4. job # NoJob /\ job \in Works
  BY <1>1 DEF BotInv, BotShape
<1>5. BotShape'
  <2>1. tracked' \in [Systems -> Int]
    BY <1>1, <1>4, JobFields
  <2> QED
    BY <1>1, <1>4, <2>1 DEF BotInv, BotShape
<1>6. BotFlags'
  BY <1>1, <1>2, Zenon DEF BotInv, BotFlags
<1>7. pc' # "idle" /\ pc' # "replay" /\ ready'
  BY <1>1, <1>2
<1>8. BotOrder'
  BY <1>1, <1>3, <1>7, Zenon DEF BotInv, BotOrder
<1>9. SoundWork(job)
  BY <1>4 DEF BotInv, BotNews
<1>10. SoundWork(job)'
  BY <1>1, <1>9 DEF SoundWork
<1>11. (kept = committed => Fits(committed, tracked, acked))'
  <2> SUFFICES ASSUME kept = committed
               PROVE  Fits(committed, job.goal, acked)
    BY <1>1
  <2>1. Fits(committed, job.goal, job.target)
    BY <1>9 DEF SoundWork
  <2>2. committed \in SUBSET Events
    BY DEF JournalInv, JournalTypeOK
  <2>3. acked \in Int /\ job.target \in Int /\ acked <= job.target
    BY <1>4, JobFields, EventNumbers DEF BotInv, BotShape, BotOrder
  <2> QED
    BY <2>1, <2>2, <2>3, FitsAhead
<1>12. BotNews'
  <2>1. IsFiniteSet(delivered')
    BY <1>1 DEF BotInv, BotNews
  <2> QED
    BY <1>1, <1>10, <1>11, <2>1, Zenon DEF BotNews
<1> QED
  BY <1>5, <1>6, <1>8, <1>12 DEF BotInv

\* The cursor comes after what it stands for.
LEMMA AckKeeps ==
    ASSUME JournalInv, BotInv, UNCHANGED journal, Ack
    PROVE  BotInv'
<1>1. /\ ready' = ready /\ tracked' = tracked /\ delivered' = delivered /\ heard' = heard
      /\ snap' = snap /\ boot' = boot /\ faults' = faults
      /\ committed' = committed /\ kept' = kept
      /\ pc = "ack" /\ acked' = job.target /\ job' = NoJob
  BY DEF Ack, journal
<1>2. \/ job.baseline /\ pc' = "idle" /\ initialized' = TRUE /\ reconcile' = FALSE
      \/ ~ job.baseline /\ pc' = "replay" /\ initialized' = initialized /\ reconcile' = reconcile
  BY Zenon DEF Ack
<1>3. Watermark' = Watermark
  BY <1>1 DEF Watermark
<1>4. job # NoJob /\ job \in Works /\ job.target \in 0..MaxSeq
  BY <1>1, JobFields DEF BotInv, BotShape
<1>5. pc' = "idle" \/ pc' = "replay"
  BY <1>2
<1>6. BotShape'
  BY <1>1, <1>4, <1>5 DEF BotInv, BotShape
<1>7. ready
  BY <1>1, Zenon DEF BotInv, BotOrder
<1>8. initialized'
  <2>1. job.baseline \/ initialized
    BY <1>4, Zenon DEF BotInv, BotOrder
  <2>2. CASE initialized' = TRUE
    BY <2>2
  <2>3. CASE initialized' = initialized /\ ~ job.baseline
    BY <2>1, <2>3, Zenon
  <2> QED
    BY <1>2, <2>2, <2>3, Zenon
<1>9. initialized' \in BOOLEAN
  <2>1. TRUE \in BOOLEAN /\ initialized \in BOOLEAN
    BY Zenon DEF BotInv, BotFlags
  <2>2. initialized' = TRUE \/ initialized' = initialized
    BY <1>2, Zenon
  <2> QED
    BY <2>1, <2>2, Zenon
<1>10. reconcile' \in BOOLEAN
  <2>1. FALSE \in BOOLEAN /\ reconcile \in BOOLEAN
    BY Zenon DEF BotInv, BotFlags
  <2>2. reconcile' = FALSE \/ reconcile' = reconcile
    BY <1>2, Zenon
  <2> QED
    BY <2>1, <2>2, Zenon
<1>11. BotFlags'
  BY <1>1, <1>9, <1>10, Zenon DEF BotInv, BotFlags
<1>12. pc' = "idle" => boot = NoSnap
  <2>1. boot # NoSnap => ~ job.baseline
    BY <1>4, Zenon DEF BotInv, BotOrder
  <2>2. pc' = "idle" => job.baseline
    BY <1>2
  <2> QED
    BY <2>1, <2>2, Zenon
<1>13. boot # NoSnap => job.target <= boot.seq
  BY <1>4, Zenon DEF BotInv, BotOrder
<1>14. job.target <= Watermark
  BY <1>4, Zenon DEF BotInv, BotOrder
<1>15. pc' # "ack"
  BY <1>5
<1>16. BotOrder'
  BY <1>1, <1>3, <1>7, <1>8, <1>12, <1>13, <1>14, <1>15, Zenon DEF BotInv, BotOrder
<1>17. (kept = committed => Fits(committed, tracked, acked))'
  <2> SUFFICES ASSUME kept = committed
               PROVE  Fits(committed, tracked, job.target)
    BY <1>1
  <2>1. SoundWork(job) /\ tracked = job.goal
    BY <1>1, <1>4 DEF BotInv, BotNews
  <2> QED
    BY <2>1 DEF SoundWork
<1>18. BotNews'
  <2>1. IsFiniteSet(delivered')
    BY <1>1 DEF BotInv, BotNews
  <2> QED
    BY <1>1, <1>15, <1>17, <2>1, Zenon DEF BotNews
<1> QED
  BY <1>6, <1>11, <1>16, <1>18 DEF BotInv

\* What the bot, or the journal, may do.
BotMoves ==
    \/ JournalNext /\ UNCHANGED bot
    \/ BotNext /\ UNCHANGED journal
    \/ UNCHANGED <<journal, bot>>

\* At first the bot has announced nothing.
LEMMA BotInitKeeps == Init => BotInv
<1> SUFFICES ASSUME Init
             PROVE  BotInv
  OBVIOUS
<1>1. /\ acked = 0 /\ tracked = [s \in Systems |-> Untracked] /\ delivered = {}
      /\ heard = [g \in Groups |-> [s \in Systems |-> "nothing"]]
      /\ pc = "idle" /\ snap = NoSnap /\ boot = NoSnap /\ job = NoJob /\ faults = 0
      /\ committed = {} /\ kept = {}
  BY DEF Init, BotInit, JournalInit
<1>2. ready = FALSE /\ initialized = FALSE /\ reconcile = FALSE
  BY DEF Init, BotInit
<1>3. 0 \in 0..MaxSeq /\ 0 \in 0..MaxFaults
  BY EventNumbers, MaxFaultsAssumption
<1>4. BotShape
  BY <1>1, <1>3 DEF BotShape, Untracked
<1>5. BotFlags
  BY <1>2 DEF BotFlags
<1>6. Watermark = 0
  BY <1>1 DEF Watermark, Highest
<1>7. BotOrder
  BY <1>1, <1>2, <1>6 DEF BotOrder
<1>8. Fits(committed, tracked, acked)
  BY <1>1 DEF Fits, SettledIn, KindIn, Untracked
<1>9. BotNews
  BY <1>1, <1>8, FS_EmptySet DEF BotNews
<1> QED
  BY <1>4, <1>5, <1>7, <1>9 DEF BotInv

\* Every operation keeps the bot right.
LEMMA BotKeeps ==
    ASSUME JournalInv, BotInv, BotMoves
    PROVE  BotInv'
<1>1. CASE JournalNext /\ UNCHANGED bot
  BY <1>1, JournalLeavesBot
<1>2. CASE BotNext /\ UNCHANGED journal
  <2>1. CASE TakeSnapshot
    BY <1>2, <2>1, SnapshotKeeps
  <2>2. CASE TurnWithBootstrap \/ TurnWithoutBootstrap \/ EndReplay
    BY <1>2, <2>2, LoopKeeps
  <2>3. CASE ReplayEvent
    BY <1>2, <2>3, ReplayKeeps
  <2>4. CASE ExpireReplay \/ GiveUp \/ Crash
    BY <1>2, <2>4, RestartKeeps
  <2>5. CASE pc = "sending" /\ \E m \in job.unsent : Deliver(m) \/ FailDelivery(m)
    BY <1>2, <2>5, MessageKeeps
  <2>6. CASE Save
    BY <1>2, <2>6, SaveKeeps
  <2>7. CASE Ack
    BY <1>2, <2>7, AckKeeps
  <2> QED
    BY <1>2, <2>1, <2>2, <2>3, <2>4, <2>5, <2>6, <2>7
    DEF BotNext, BotSteps, BotFaults, DeliverNext
<1>3. CASE UNCHANGED <<journal, bot>>
  <2>1. /\ acked' = acked /\ ready' = ready /\ tracked' = tracked /\ delivered' = delivered
        /\ heard' = heard /\ pc' = pc /\ initialized' = initialized /\ reconcile' = reconcile
        /\ snap' = snap /\ boot' = boot /\ job' = job /\ faults' = faults
        /\ committed' = committed /\ kept' = kept
    BY <1>3 DEF journal, bot
  <2>2. Watermark' = Watermark
    BY <2>1 DEF Watermark
  <2>3. BotShape' /\ BotFlags'
    BY <2>1, Zenon DEF BotInv, BotShape, BotFlags
  <2>4. BotOrder'
    BY <2>1, <2>2, Zenon DEF BotInv, BotOrder
  <2>5. BotNews'
    <3>1. (job # NoJob => SoundWork(job))'
      BY <2>1 DEF BotInv, BotNews, SoundWork
    <3> QED
      BY <2>1, <3>1 DEF BotInv, BotNews
  <2> QED
    BY <2>3, <2>4, <2>5 DEF BotInv
<1> QED
  BY <1>1, <1>2, <1>3 DEF BotMoves

\* A group hears what is so at the number of the work in hand.
LEMMA NewsIsSo ==
    ASSUME JournalInv, BotInv, BotMoves
    PROVE  \A g \in Groups, s \in Systems : heard'[g][s] # heard[g][s] =>
             LET now == KindAt(s, IF job.target > acked THEN job.target ELSE acked)
             IN  heard'[g][s] = "alert" <=> now = "hostile"
<1> SUFFICES ASSUME NEW g \in Groups, NEW s \in Systems, heard'[g][s] # heard[g][s]
             PROVE  heard'[g][s] = "alert"
                      <=> KindAt(s, IF job.target > acked THEN job.target ELSE acked) = "hostile"
  OBVIOUS
<1>1. PICK m \in job.unsent : /\ pc = "sending"
                              /\ heard' = [heard EXCEPT ![m.group][m.system] = m.kind]
  <2>1. heard' # heard
    OBVIOUS
  <2>2. \/ DeliverNext
        \/ pc = "sending" /\ \E m \in job.unsent : FailDelivery(m)
    <3>1. ~ UNCHANGED bot /\ ~ UNCHANGED <<journal, bot>>
      BY <2>1 DEF bot
    <3>2. BotNext
      BY <3>1 DEF BotMoves
    <3> QED
      BY <2>1, <3>2 DEF BotNext, BotSteps, BotFaults, TakeSnapshot, TurnWithBootstrap,
        TurnWithoutBootstrap, ReplayEvent, ExpireReplay, EndReplay, GiveUp, Save, Ack, Crash
  <2> QED
    BY <2>1, <2>2 DEF DeliverNext, Deliver, FailDelivery
<1>2. /\ job # NoJob /\ job \in Works /\ SoundWork(job)
      /\ heard \in [Groups -> [Systems -> {"nothing", "alert", "safe"}]]
      /\ acked \in Nat /\ acked <= job.target
  BY <1>1, EventNumbers DEF BotInv, BotShape, BotNews, BotOrder
<1>3. job.target \in Nat /\ m \in Messages
  BY <1>1, <1>2, JobFields
<1>4. m.group \in Groups /\ m.system \in Systems
  BY <1>3 DEF Messages
<1>5. g = m.group /\ s = m.system /\ heard'[g][s] = m.kind
  BY <1>1, <1>2, <1>4
<1>6. (IF job.target > acked THEN job.target ELSE acked) = job.target
  BY <1>2, <1>3
<1>7. m.kind = "alert" <=> KindIn(committed, m.system, job.target) = "hostile"
  BY <1>1, <1>2 DEF SoundWork
<1>8. KindAt(s, job.target) = KindIn(committed, s, job.target)
  BY DEF KindAt, KindIn
<1> QED
  BY <1>5, <1>6, <1>7, <1>8

\* Once the last event is worked off, the bot holds announced what is hostile.
LEMMA SyncFollows ==
    ASSUME JournalInv, BotInv
    PROVE  InSync
<1> SUFFICES ASSUME kept = committed, acked = Highest(committed)
             PROVE  Tracked = HostileAt(acked)
  BY DEF InSync
<1>1. committed \subseteq Events
  BY DEF JournalInv, JournalTypeOK
<1>2. \A e \in committed : e.seq <= acked
  BY <1>1, HighestNumber
<1>3. Fits(committed, tracked, acked)
  BY DEF BotInv, BotNews
<1>4. \A s \in Systems : tracked[s] # Untracked <=> KindIn(committed, s, acked) = "hostile"
  BY <1>2, <1>3 DEF Fits, SettledIn
<1> QED
  BY <1>4 DEF Tracked, HostileAt, KindAt, KindIn

\* With whichever consumer, the journal and the bot do their operations or nothing.
LEMMA ConsumersRunBot == Spec => Init /\ [][BotMoves]_<<journal, bot>>
<1>1. [Next]_vars => [BotMoves]_<<journal, bot>>
  <2> SUFFICES ASSUME [Next]_vars
               PROVE  BotMoves
    OBVIOUS
  <2>1. CASE JournalStep
    BY <2>1 DEF JournalStep, BotMoves
  <2>2. CASE ByBot(BotNext)
    BY <2>2 DEF ByBot, BotMoves
  <2>3. CASE ~ JournalStep /\ ~ ByBot(BotNext)
    BY <2>3 DEF Next, vars, ByStream, ByReader, ByWorker, ByQuery, ByWatch, BotMoves
  <2> QED
    BY <2>1, <2>2, <2>3
<1> QED
  BY <1>1, PTL DEF Spec

\* Nothing that the bot holds, in its variables or in Redis, is ahead of the
\* journal or beside it.
THEOREM BotStaysRight == Spec => []BotInv
<1>1. JournalInv /\ BotInv /\ [BotMoves]_<<journal, bot>> => BotInv'
  BY BotKeeps DEF BotMoves
<1> QED
  BY <1>1, BotInitKeeps, JournalStaysOrdered, ConsumersRunBot, PTL

\* The variables of the bot have their types.
THEOREM BotTypesCorrect == Spec => []BotTypeOK
<1>1. BotInv => BotTypeOK
  <2> SUFFICES ASSUME BotInv
               PROVE  BotTypeOK
    OBVIOUS
  <2>1. job # NoJob => job.unsent \cap delivered = {}
    BY DEF BotInv, BotNews, SoundWork
  <2> QED
    BY <2>1, ShapeIsType DEF BotInv
<1> QED
  BY <1>1, BotStaysRight, PTL

\* Once the bot has worked off the last event, through whatever failures, crashes,
\* expired events and bootstraps, it holds announced exactly the systems that are
\* hostile, as long as no event was pruned before it came to it
\* (qq_bot_runtime.py 201).
THEOREM BotGetsInSync == Spec => []InSync
<1>1. JournalInv /\ BotInv => InSync
  BY SyncFollows
<1> QED
  BY <1>1, BotStaysRight, JournalStaysOrdered, PTL

\* No group is ever told safe, or of an alert, on the word of a bootstrap older
\* than the events worked off (qq_bot_runtime.py 181).
THEOREM NewsIsNeverOutdated == Spec => NoOutdatedNews
<1> DEFINE ToldSo == \A g \in Groups, s \in Systems : heard'[g][s] # heard[g][s] =>
        LET now == KindAt(s, IF job.target > acked THEN job.target ELSE acked)
        IN  heard'[g][s] = "alert" <=> now = "hostile"
<1>1. JournalInv /\ BotInv /\ [BotMoves]_<<journal, bot>> => [ToldSo]_bot
  <2> SUFFICES ASSUME JournalInv, BotInv, [BotMoves]_<<journal, bot>>
               PROVE  ToldSo
    OBVIOUS
  <2>1. BotMoves
    BY DEF BotMoves
  <2> QED
    BY <2>1, NewsIsSo
<1>2. Spec => [][ToldSo]_bot
  BY <1>1, BotStaysRight, JournalStaysOrdered, ConsumersRunBot, PTL
<1> QED
  BY <1>2 DEF NoOutdatedNews

-----------------------------------------------------------------------------
(* The stream to a client.                                                 *)

\* Events with different numbers are finitely many, and can be put in order.
LEMMA PageInOrder ==
    ASSUME NEW S \in SUBSET Events, \A e, f \in S : e.seq = f.seq => e = f
    PROVE  /\ Cardinality(S) \in Nat
           /\ InOrder(S) \in [1..Cardinality(S) -> S]
           /\ \A i, j \in 1..Cardinality(S) : i < j => InOrder(S)[i].seq < InOrder(S)[j].seq
           /\ \A e \in S : \E i \in 1..Cardinality(S) : InOrder(S)[i] = e
<1> DEFINE N == Cardinality(S)
           number == [e \in S |-> e.seq]
           UpToIt(e) == {f \in S : f.seq <= e.seq}
           rank == [e \in S |-> Cardinality(UpToIt(e))]
           page == [i \in 1..N |-> CHOOSE e \in S : rank[e] = i]
           Sorted(p) == \A i, j \in DOMAIN p : i < j => p[i].seq < p[j].seq
<1>1. \A e \in S : e.seq \in 1..MaxSeq /\ e.seq \in Nat
  BY EventNumbers
<1>2. IsFiniteSet(S)
  <2>1. IsFiniteSet(1..MaxSeq)
    BY EventNumbers, FS_Interval
  <2>2. number \in Injection(S, 1..MaxSeq)
    BY <1>1 DEF Injection, IsInjective
  <2> QED
    BY <2>1, <2>2, FS_Injection
<1>3. N \in Nat
  BY <1>2, FS_CardinalityType
<1>4. \A e \in S : e \in UpToIt(e) /\ UpToIt(e) \in SUBSET S
  BY <1>1
<1>5. ASSUME NEW e \in S
      PROVE  IsFiniteSet(UpToIt(e)) /\ rank[e] \in 1..N
  <2>1. UpToIt(e) # {} /\ UpToIt(e) \in SUBSET S
    BY <1>4
  <2> HIDE DEF UpToIt, N
  <2>2. IsFiniteSet(UpToIt(e)) /\ Cardinality(UpToIt(e)) <= Cardinality(S)
    BY <1>2, <2>1, FS_Subset
  <2>3. Cardinality(UpToIt(e)) \in Nat /\ Cardinality(UpToIt(e)) # 0
    BY <2>1, <2>2, FS_CardinalityType, FS_EmptySet
  <2> QED
    BY <1>3, <2>2, <2>3 DEF N
<1>6. ASSUME NEW e \in S, NEW f \in S, e.seq < f.seq
      PROVE  rank[e] < rank[f]
  <2>1. UpToIt(e) \in SUBSET UpToIt(f) /\ UpToIt(e) # UpToIt(f)
    <3>1. f \in UpToIt(f) /\ f \notin UpToIt(e)
      BY <1>1, <1>6
    <3> QED
      BY <1>1, <1>6, <3>1
  <2> HIDE DEF UpToIt
  <2>2. /\ Cardinality(UpToIt(e)) <= Cardinality(UpToIt(f))
        /\ Cardinality(UpToIt(e)) # Cardinality(UpToIt(f))
    BY <1>5, <2>1, FS_Subset
  <2>3. Cardinality(UpToIt(e)) \in Nat /\ Cardinality(UpToIt(f)) \in Nat
    BY <1>5, FS_CardinalityType
  <2> QED
    BY <2>2, <2>3
<1> HIDE DEF rank, UpToIt, N
<1>7. rank \in [S -> 1..N]
  BY <1>5 DEF rank
<1>8. \A e, f \in S : rank[e] = rank[f] => e = f
  <2> SUFFICES ASSUME NEW e \in S, NEW f \in S, rank[e] = rank[f]
               PROVE  e = f
    OBVIOUS
  <2>1. ~ (e.seq < f.seq) /\ ~ (f.seq < e.seq)
    BY <1>3, <1>6, <1>7
  <2> QED
    BY <1>1, <2>1
<1>9. \A i \in 1..N : \E e \in S : rank[e] = i
  <2>1. rank \in Injection(S, 1..N)
    BY <1>7, <1>8 DEF Injection, IsInjective
  <2>2. IsFiniteSet(1..N) /\ Cardinality(1..N) = N
    BY <1>3, FS_Interval
  <2>3. rank \in Surjection(S, 1..N)
    BY <2>1, <2>2, FS_Injection DEF N
  <2> QED
    BY <2>3 DEF Surjection
<1>10. \A i \in 1..N : page[i] \in S /\ rank[page[i]] = i
  BY <1>9
<1>11. page \in [1..N -> S]
  BY <1>10
<1>12. DOMAIN page = 1..N
  OBVIOUS
<1> HIDE DEF page
<1>13. Sorted(page)
  <2> SUFFICES ASSUME NEW i \in 1..N, NEW j \in 1..N, i < j
               PROVE  page[i].seq < page[j].seq
    BY <1>12
  <2>1. /\ page[i] \in S /\ page[j] \in S
        /\ rank[page[i]] = i /\ rank[page[j]] = j
    BY <1>10
  <2>2. ~ (page[j].seq < page[i].seq)
    BY <1>3, <1>6, <2>1
  <2>3. page[i].seq # page[j].seq
    BY <1>3, <2>1
  <2> QED
    BY <1>1, <2>1, <2>2, <2>3
<1> DEFINE sorted == CHOOSE p \in [1..N -> S] : Sorted(p)
<1>14. InOrder(S) = sorted
  BY DEF InOrder, N
<1> HIDE DEF Sorted
<1>15. sorted \in [1..N -> S] /\ Sorted(sorted)
  BY <1>11, <1>13
<1> HIDE DEF sorted
<1>16. \A i, j \in 1..N : i < j => sorted[i].seq < sorted[j].seq
  BY <1>15 DEF Sorted
<1>17. \A e \in S : \E i \in 1..N : sorted[i] = e
  <2>1. \A i, j \in 1..N : sorted[i] = sorted[j] => i = j
    <3> SUFFICES ASSUME NEW i \in 1..N, NEW j \in 1..N, sorted[i] = sorted[j], i # j
                 PROVE  FALSE
      OBVIOUS
    <3>1. sorted[i].seq \in Nat /\ sorted[i].seq = sorted[j].seq
      BY <1>1, <1>15
    <3>2. i < j \/ j < i
      BY <1>3
    <3> QED
      BY <1>16, <3>1, <3>2
  <2>2. sorted \in Injection(1..N, S)
    BY <1>15, <2>1 DEF Injection, IsInjective
  <2>3. IsFiniteSet(1..N) /\ Cardinality(1..N) = N
    BY <1>3, FS_Interval
  <2>4. sorted \in Surjection(1..N, S)
    BY <1>2, <2>2, <2>3, FS_Injection DEF N
  <2> QED
    BY <2>4 DEF Surjection
<1> QED
  BY <1>3, <1>14, <1>15, <1>16, <1>17 DEF N

Frames == [kind : {"bootstrap", "cursor"} \cup Kinds, seq : 0..MaxSeq,
           system : Systems \cup {"none"}]

\* The events after p, up to n.
Between(events, p, n) == {e \in events : e.seq > p /\ e.seq <= n}

\* Frame f brings a view that is right at p to what is so at its own number, which
\* is none of the cache's future.
Follows(events, top, p, f) ==
    /\ p <= f.seq /\ f.seq <= top
    /\ \/ f.kind = "bootstrap"
       \/ f.kind = "cursor" /\ p # NoPosition /\ Between(events, p, f.seq) = {}
       \/ f.kind \in Kinds /\ p # NoPosition /\ Between(events, p, f.seq) = {f}

\* The number before frame i of frames that follow number n, and after them all.
Before(n, frames, i) == IF i = 1 THEN n ELSE frames[i - 1].seq
EndOf(n, frames) == IF Len(frames) = 0 THEN n ELSE frames[Len(frames)].seq

\* Each frame follows the one before it.
FramesFit(events, top, n, frames) ==
    \A i \in 1..Len(frames) : Follows(events, top, Before(n, frames, i), frames[i])

\* Later events and later snapshots are none of the frames' business.
LEMMA FramesStay ==
    ASSUME NEW C \in SUBSET Events, NEW D \in SUBSET Events, C \subseteq D,
           NEW top \in 0..MaxSeq, NEW later \in 0..MaxSeq, top <= later,
           \A e \in D \ C : e.seq > top,
           NEW n, NEW frames \in Seq(Frames), FramesFit(C, top, n, frames)
    PROVE  FramesFit(D, later, n, frames)
<1> SUFFICES ASSUME NEW i \in 1..Len(frames)
             PROVE  Follows(D, later, Before(n, frames, i), frames[i])
  BY DEF FramesFit
<1> DEFINE f == frames[i]
           p == Before(n, frames, i)
<1>1. f \in Frames
  BY ElementOfSeq
<1>2. f.seq \in Int /\ MaxSeq \in Nat
  BY <1>1, EventNumbers DEF Frames
<1>3. Follows(C, top, p, f)
  BY DEF FramesFit
<1> HIDE DEF f, p
<1>4. Between(D, p, f.seq) = Between(C, p, f.seq)
  <2>1. \A e \in D : e.seq \in Int
    BY EventNumbers
  <2>2. f.seq <= top
    BY <1>3 DEF Follows
  <2>3. \A e \in D : e.seq <= f.seq => e \in C
    BY <1>2, <2>1, <2>2
  <2> QED
    BY <2>3 DEF Between
<1>5. f.seq <= later
  BY <1>2, <1>3 DEF Follows
<1> QED
  BY <1>3, <1>4, <1>5 DEF Follows, f, p

\* Frames that follow frames.
LEMMA FramesJoin ==
    ASSUME NEW C, NEW top, NEW n, NEW s \in Seq(Frames), NEW t \in Seq(Frames),
           FramesFit(C, top, n, s), FramesFit(C, top, EndOf(n, s), t)
    PROVE  /\ s \o t \in Seq(Frames)
           /\ FramesFit(C, top, n, s \o t)
           /\ EndOf(n, s \o t) = EndOf(EndOf(n, s), t)
<1> DEFINE w == s \o t
<1>1. /\ w \in Seq(Frames) /\ Len(w) = Len(s) + Len(t)
      /\ \A i \in 1..Len(s) + Len(t) : w[i] = IF i <= Len(s) THEN s[i] ELSE t[i - Len(s)]
      /\ Len(s) \in Nat /\ Len(t) \in Nat
  BY ConcatProperties, LenProperties
<1> HIDE DEF w
<1>2. ASSUME NEW i \in 1..Len(w)
      PROVE  Follows(C, top, Before(n, w, i), w[i])
  <2>1. CASE i <= Len(s)
    <3>1. w[i] = s[i] /\ Before(n, w, i) = Before(n, s, i)
      BY <1>1, <2>1 DEF Before
    <3> QED
      BY <1>1, <2>1, <3>1 DEF FramesFit
  <2>2. CASE i > Len(s)
    <3>1. i - Len(s) \in 1..Len(t) /\ w[i] = t[i - Len(s)]
      BY <1>1, <2>2
    <3>2. Before(n, w, i) = Before(EndOf(n, s), t, i - Len(s))
      BY <1>1, <2>2 DEF Before, EndOf
    <3> QED
      BY <3>1, <3>2 DEF FramesFit
  <2> QED
    BY <1>1, <2>1, <2>2
<1>3. EndOf(n, w) = EndOf(EndOf(n, s), t)
  BY <1>1 DEF EndOf
<1> QED
  BY <1>1, <1>2, <1>3 DEF FramesFit, w

\* The frames after the first.
LEMMA FramesAfterHead ==
    ASSUME NEW C, NEW top, NEW n, NEW s \in Seq(Frames), s # <<>>, FramesFit(C, top, n, s)
    PROVE  /\ Head(s) \in Frames /\ Tail(s) \in Seq(Frames) /\ Head(s) = s[1]
           /\ Follows(C, top, n, Head(s))
           /\ FramesFit(C, top, Head(s).seq, Tail(s))
           /\ EndOf(Head(s).seq, Tail(s)) = EndOf(n, s)
<1> DEFINE t == Tail(s)
<1>1. /\ Head(s) \in Frames /\ t \in Seq(Frames) /\ Len(t) = Len(s) - 1
      /\ \A i \in 1..Len(t) : t[i] = s[i + 1]
      /\ Len(s) \in Nat \ {0} /\ Head(s) = s[1]
  BY HeadTailProperties, EmptySeq
<1> HIDE DEF t
<1>2. Follows(C, top, n, Head(s))
  <2>1. 1 \in 1..Len(s) /\ Before(n, s, 1) = n
    BY <1>1 DEF Before
  <2> QED
    BY <1>1, <2>1 DEF FramesFit
<1>3. ASSUME NEW i \in 1..Len(t)
      PROVE  Follows(C, top, Before(Head(s).seq, t, i), t[i])
  <2>1. i + 1 \in 1..Len(s) /\ t[i] = s[i + 1]
    BY <1>1
  <2>2. Before(Head(s).seq, t, i) = Before(n, s, i + 1)
    BY <1>1 DEF Before
  <2> QED
    BY <2>1, <2>2 DEF FramesFit
<1>4. EndOf(Head(s).seq, t) = EndOf(n, s)
  BY <1>1 DEF EndOf
<1> QED
  BY <1>1, <1>2, <1>3, <1>4 DEF FramesFit, t

\* One frame.
LEMMA OneFrame ==
    ASSUME NEW C, NEW top, NEW n, NEW f \in Frames, Follows(C, top, n, f)
    PROVE  /\ <<f>> \in Seq(Frames)
           /\ FramesFit(C, top, n, <<f>>)
           /\ EndOf(n, <<f>>) = f.seq
BY DEF FramesFit, Before, EndOf

\* The frames of a pass: no event between what was sent and the snapshot is left
\* out.
LEMMA PassFits ==
    ASSUME JournalInv, position \in 0..MaxSeq, NEW n \in 0..MaxSeq, position <= n,
           \A e \in committed \ kept : e.seq <= position
    PROVE  /\ FramesUpTo(n, UpTo(n)) \in Seq(Frames)
           /\ FramesFit(committed, n, position, FramesUpTo(n, UpTo(n)))
           /\ EndOf(position, FramesUpTo(n, UpTo(n))) = n
<1> DEFINE S == UpTo(n)
           N == Cardinality(S)
           page == InOrder(S)
           last == IF Content(n) # lastSent THEN BootFrame(n) ELSE CursorFrame(n)
<1>1. /\ committed \subseteq Events /\ kept \subseteq committed
      /\ \A e, f \in committed : e.seq = f.seq => e = f
      /\ \A e \in committed : e.seq \in 1..MaxSeq /\ e.seq \in Nat
      /\ MaxSeq \in Nat /\ position \in Nat /\ n \in Nat
  BY EventNumbers DEF JournalInv, JournalTypeOK
<1>2. S = Between(committed, position, n)
  BY <1>1 DEF UpTo, After, Between
<1> HIDE DEF S
<1>3. S \in SUBSET Events /\ S \subseteq committed /\ \A e \in S : e.seq > position /\ e.seq <= n
  BY <1>1, <1>2 DEF Between
<1>4. /\ N \in Nat /\ page \in [1..N -> S]
      /\ \A i, j \in 1..N : i < j => page[i].seq < page[j].seq
      /\ \A e \in S : \E i \in 1..N : page[i] = e
  BY <1>1, <1>3, PageInOrder
<1> HIDE DEF N, page
<1>5. \A e \in S : e \in Frames
  BY <1>3, EventNumbers DEF Events, Frames
<1>6. page \in Seq(Frames) /\ Len(page) = N
  BY <1>4, <1>5
<1>7. \A e \in committed : e.seq > position /\ e.seq <= n => e \in S
  BY <1>2 DEF Between
<1>8. FramesFit(committed, n, position, page)
  <2> SUFFICES ASSUME NEW i \in 1..N
               PROVE  Follows(committed, n, Before(position, page, i), page[i])
    BY <1>6 DEF FramesFit
  <2> DEFINE f == page[i]
             p == Before(position, page, i)
  <2>1. f \in S /\ f \in committed /\ f.seq \in Nat /\ f.seq <= n /\ f.kind \in Kinds
    BY <1>1, <1>3, <1>4, EventNumbers
  <2>2. p \in Nat /\ position <= p /\ p < f.seq
    <3>1. CASE i = 1
      BY <1>1, <1>3, <2>1, <3>1 DEF Before
    <3>2. CASE i # 1
      <4>1. i - 1 \in 1..N /\ i - 1 < i
        BY <1>4, <3>2
      <4>2. page[i - 1] \in S /\ p = page[i - 1].seq /\ page[i - 1].seq < f.seq
        BY <1>4, <3>2, <4>1 DEF Before
      <4> QED
        BY <1>1, <1>3, <4>2
    <3> QED
      BY <3>1, <3>2
  <2>3. ASSUME NEW e \in committed, e.seq > p, e.seq <= f.seq
        PROVE  e = f
    <3>1. e \in S
      BY <1>1, <1>7, <2>1, <2>2, <2>3
    <3>2. PICK j \in 1..N : page[j] = e
      BY <1>4, <3>1
    <3>3. ~ (i < j)
      BY <1>1, <1>4, <2>1, <2>3, <3>2
    <3>4. ~ (j < i)
      <4> SUFFICES ASSUME j < i
                   PROVE  FALSE
        OBVIOUS
      <4>1. i - 1 \in 1..N /\ p = page[i - 1].seq
        BY <1>4 DEF Before
      <4>2. CASE j = i - 1
        BY <1>1, <2>2, <2>3, <3>2, <4>1, <4>2
      <4>3. CASE j < i - 1
        <5>1. e.seq < p
          BY <1>4, <3>2, <4>1, <4>3
        <5> QED
          BY <1>1, <2>2, <2>3, <5>1
      <4> QED
        BY <1>4, <4>2, <4>3
    <3> QED
      BY <1>4, <3>2, <3>3, <3>4
  <2> HIDE DEF f, p
  <2>4. Between(committed, p, f.seq) = {f}
    BY <2>1, <2>2, <2>3 DEF Between
  <2>5. Follows(committed, n, p, f)
    BY <2>1, <2>2, <2>4 DEF Follows, NoPosition
  <2> QED
    BY <2>5 DEF f, p
<1>9. /\ EndOf(position, page) \in Nat /\ position <= EndOf(position, page)
      /\ EndOf(position, page) <= n
      /\ \A e \in committed : e.seq <= n => e.seq <= EndOf(position, page)
  <2>1. CASE N = 0
    BY <1>1, <1>4, <1>6, <1>7, <2>1 DEF EndOf
  <2>2. CASE N # 0
    <3>1. N \in 1..N /\ page[N] \in S /\ EndOf(position, page) = page[N].seq
      BY <1>4, <1>6, <2>2 DEF EndOf
    <3>2. \A j \in 1..N : page[j].seq <= page[N].seq
      BY <1>1, <1>3, <1>4, <3>1
    <3>3. \A e \in S : e.seq <= page[N].seq
      BY <1>4, <3>2
    <3>4. page[N].seq \in Nat /\ position < page[N].seq /\ page[N].seq <= n
      BY <1>1, <1>3, <3>1
    <3>5. ASSUME NEW e \in committed, e.seq <= n
          PROVE  e.seq <= page[N].seq
      <4>1. CASE e.seq > position
        BY <1>7, <3>3, <3>5, <4>1
      <4>2. CASE ~ (e.seq > position)
        BY <1>1, <3>4, <4>2
      <4> QED
        BY <4>1, <4>2
    <3> QED
      BY <1>1, <3>1, <3>4, <3>5
  <2> QED
    BY <2>1, <2>2
<1> DEFINE end == EndOf(position, page)
<1> HIDE DEF end
<1>10. end \in Nat /\ end <= n /\ \A e \in committed : e.seq <= n => e.seq <= end
  BY <1>9 DEF end
<1>11. last \in Frames /\ last.seq = n /\ Follows(committed, n, end, last)
  <2>1. CASE Content(n) # lastSent
    <3>1. last = BootFrame(n)
      BY <2>1
    <3> QED
      BY <1>1, <1>10, <3>1 DEF BootFrame, Frames, Follows
  <2>2. CASE Content(n) = lastSent
    <3>1. last = CursorFrame(n)
      BY <2>2
    <3>2. Between(committed, end, n) = {}
      BY <1>1, <1>10 DEF Between
    <3> QED
      BY <1>1, <1>10, <3>1, <3>2 DEF CursorFrame, Frames, Follows, NoPosition
  <2> QED
    BY <2>1, <2>2
<1> DEFINE ending == <<last>>
<1>12. FramesUpTo(n, S) = page \o ending
  BY DEF FramesUpTo, page
<1> HIDE DEF last
<1>13. /\ ending \in Seq(Frames) /\ FramesFit(committed, n, end, ending)
       /\ EndOf(end, ending) = n
  BY <1>11, OneFrame
<1> HIDE DEF ending
<1>14. /\ page \o ending \in Seq(Frames)
       /\ FramesFit(committed, n, position, page \o ending)
       /\ EndOf(position, page \o ending) = EndOf(end, ending)
  <2>1. FramesFit(committed, n, EndOf(position, page), ending)
    BY <1>13 DEF end
  <2>2. /\ page \o ending \in Seq(Frames)
        /\ FramesFit(committed, n, position, page \o ending)
        /\ EndOf(position, page \o ending) = EndOf(EndOf(position, page), ending)
    BY <1>6, <1>8, <1>13, <2>1, FramesJoin
  <2> QED
    BY <2>2 DEF end
<1> QED
  BY <1>12, <1>13, <1>14 DEF S

\* A frame that follows a view which is right makes it what is so at its number.
LEMMA FrameMoves ==
    ASSUME JournalInv, NEW top, NEW p \in 0..MaxSeq, NEW f \in Frames,
           Follows(committed, top, p, f)
    PROVE  /\ f.kind = "cursor" => HostileAt(f.seq) = HostileAt(p)
           /\ f.kind \in {"clear", "unknown"} => HostileAt(f.seq) = HostileAt(p) \ {f.system}
           /\ f.kind = "hostile" => HostileAt(f.seq) = HostileAt(p) \cup {f.system}
           /\ f.kind \in Kinds => f.seq > p
<1>1. /\ committed \in SUBSET Events /\ MaxSeq \in Nat
      /\ \A d, e \in committed : d.seq = e.seq => d = e
      /\ \A e \in committed : e.seq \in 1..MaxSeq /\ e.seq \in Nat
      /\ p \in Nat /\ f.seq \in Nat
  BY EventNumbers DEF JournalInv, JournalTypeOK, Frames
<1>2. \A n : HostileAt(n) = {s \in Systems : KindIn(committed, s, n) = "hostile"}
  BY DEF HostileAt, KindAt, KindIn
<1>3. ASSUME NEW s \in Systems, \A e \in Between(committed, p, f.seq) : e.system # s,
             p <= f.seq
      PROVE  KindIn(committed, s, f.seq) = KindIn(committed, s, p)
  <2>1. {e \in committed : e.system = s /\ e.seq <= f.seq}
          = {e \in committed : e.system = s /\ e.seq <= p}
    BY <1>1, <1>3 DEF Between
  <2> QED
    BY <2>1 DEF KindIn
<1>4. p <= f.seq
  BY DEF Follows
<1>5. CASE f.kind = "cursor"
  <2>1. Between(committed, p, f.seq) = {}
    BY <1>5 DEF Follows, Kinds
  <2>2. \A s \in Systems : KindIn(committed, s, f.seq) = KindIn(committed, s, p)
    BY <1>3, <1>4, <2>1
  <2> QED
    BY <1>2, <1>5, <2>2 DEF Kinds
<1>6. CASE f.kind \in Kinds
  <2>1. Between(committed, p, f.seq) = {f}
    BY <1>6 DEF Follows, Kinds
  <2>2. f \in committed /\ f.seq > p /\ f.system \in Systems
    BY <1>1, <2>1, EventNumbers DEF Between
  <2>3. KindIn(committed, f.system, f.seq) = f.kind
    BY <1>1, <2>2, EventSpeaks
  <2>4. \A s \in Systems : s # f.system
          => KindIn(committed, s, f.seq) = KindIn(committed, s, p)
    BY <1>3, <1>4, <2>1
  <2>5. \A s \in Systems : s \in HostileAt(f.seq) <=>
          (s = f.system /\ f.kind = "hostile") \/ (s # f.system /\ s \in HostileAt(p))
    BY <1>2, <2>3, <2>4
  <2>6. HostileAt(p) \subseteq Systems /\ HostileAt(f.seq) \subseteq Systems
    BY <1>2
  <2>7. f.kind \in {"clear", "unknown"} => HostileAt(f.seq) = HostileAt(p) \ {f.system}
    BY <2>5, <2>6
  <2>8. f.kind = "hostile" => HostileAt(f.seq) = HostileAt(p) \cup {f.system}
    BY <2>2, <2>5, <2>6
  <2> QED
    BY <1>6, <2>2, <2>7, <2>8 DEF Kinds
<1>7. CASE f.kind = "bootstrap"
  BY <1>7 DEF Kinds
<1> QED
  BY <1>5, <1>6, <1>7 DEF Follows

Caches == [seq : 0..MaxSeq, fresh : BOOLEAN]

\* The variables of the stream.
StreamShape ==
    /\ cache \in Caches
    /\ taken \in {NotReady} \cup 0..MaxSeq
    /\ position \in {NoPosition} \cup 0..MaxSeq
    /\ lastSent \subseteq 0..MaxSeq
    /\ wire \in Seq(Frames)
    /\ view \subseteq Systems
    /\ handled \in {NoPosition} \cup 0..MaxSeq
    /\ seen \subseteq 1..MaxSeq
    /\ breaks \in 0..MaxBreaks

\* No row that is gone has a number above n.
PrunedUpTo(n) == \A e \in committed \ kept : e.seq <= n

\* Snapshot number n is no older than what the client has handled, and has all that
\* was pruned.
Baseline(n) == handled <= n /\ (\A m \in seen : m <= n) /\ PrunedUpTo(n)

\* The cache has what was pruned while it is used.
CacheOrder == cache.seq <= Watermark /\ (cache.fresh => PrunedUpTo(cache.seq))

\* The cache is ahead of all that was sent; the frames on the wire follow the view
\* and each other, and none of them is an alert the client knows.
WireOrder ==
    /\ FramesFit(committed, cache.seq, handled, wire)
    /\ handled <= cache.seq
    /\ \A m \in seen : m <= cache.seq
    /\ handled # NoPosition => \A m \in seen : m <= handled
    /\ handled = NoPosition /\ wire # <<>> => \A m \in seen : m <= wire[1].seq

\* The connection begins ahead of all that was sent before, and what it has sent
\* leads to its position.
ConnectionOrder ==
    connected =>
        /\ taken # NotReady => taken <= cache.seq
        /\ position = NoPosition => wire = <<>> /\ (taken # NotReady => Baseline(taken))
        /\ position # NoPosition => PrunedUpTo(position) /\ position = EndOf(handled, wire)

StreamInv ==
    /\ StreamShape
    /\ connected \in BOOLEAN
    /\ CacheOrder /\ WireOrder /\ ConnectionOrder
    /\ ViewIsConsistent

\* What was pruned is no newer than the watermark.
LEMMA PrunedAreOld ==
    ASSUME JournalInv
    PROVE  PrunedUpTo(Watermark) /\ Watermark \in 0..MaxSeq
<1>1. committed \subseteq Events /\ kept \subseteq committed /\ kept \subseteq Events
  BY DEF JournalInv, JournalTypeOK
<1>2. Watermark \in 0..MaxSeq /\ \A k \in kept : k.seq <= Watermark
  BY <1>1, HighestNumber DEF Watermark
<1>3. ASSUME NEW e \in committed
      PROVE  e.seq <= Watermark
  <2>1. PICK k \in kept : e.seq <= k.seq
    BY DEF JournalInv
  <2>2. e.seq \in Nat /\ k.seq \in Nat /\ Watermark \in Nat
    BY <1>1, <1>2, EventNumbers
  <2> QED
    BY <1>2, <2>1, <2>2
<1> QED
  BY <1>2, <1>3 DEF PrunedUpTo

\* A snapshot, the cached one or a new one.
LEMMA SnapshotServes ==
    ASSUME JournalInv, StreamInv, NEW least \in Nat, least <= Watermark
    PROVE  /\ Snapshot(least) \in Caches
           /\ Snapshot(least).seq \in 0..MaxSeq
           /\ least <= Snapshot(least).seq /\ cache.seq <= Snapshot(least).seq
           /\ Snapshot(least).seq <= Watermark
           /\ PrunedUpTo(Snapshot(least).seq)
<1>1. Watermark \in 0..MaxSeq /\ PrunedUpTo(Watermark)
  BY PrunedAreOld
<1>2. cache \in Caches
  BY DEF StreamInv, StreamShape
<1>3. cache.seq \in 0..MaxSeq
  BY <1>2, Zenon DEF Caches
<1>4. cache.seq <= Watermark /\ (cache.fresh => PrunedUpTo(cache.seq))
  BY Zenon DEF StreamInv, CacheOrder
<1>5. CASE Usable(least)
  <2>1. Snapshot(least) = cache
    BY <1>5, Zenon DEF Snapshot
  <2>2. cache.fresh /\ cache.seq >= least
    BY <1>5, Zenon DEF Usable
  <2>3. PrunedUpTo(cache.seq)
    BY <1>4, <2>2, Zenon
  <2>4. cache.seq >= least
    BY <2>2, Zenon
  <2>5. least <= cache.seq /\ cache.seq <= cache.seq
    BY <1>3, <2>4
  <2> QED
    BY <1>2, <1>3, <1>4, <2>1, <2>3, <2>5, Zenon
<1>6. CASE ~ Usable(least)
  <2> DEFINE c == Snapshot(least)
  <2>1. c = [seq |-> Watermark, fresh |-> TRUE]
    BY <1>6, Zenon DEF Snapshot
  <2> HIDE DEF c
  <2>2. TRUE \in BOOLEAN
    OBVIOUS
  <2>3. c \in Caches
    BY <1>1, <2>1, <2>2, Zenon DEF Caches
  <2>4. c.seq = Watermark
    BY <2>1, Zenon
  <2>5. Watermark <= Watermark
    BY <1>1
  <2> QED
    BY <1>1, <1>4, <2>3, <2>4, <2>5, Zenon DEF c
<1> QED
  BY <1>5, <1>6, Zenon

\* The numbers of the stream.
LEMMA StreamNumbers ==
    ASSUME JournalInv, StreamInv
    PROVE  /\ MaxSeq \in Nat /\ cache.seq \in 0..MaxSeq /\ cache.seq \in Nat
           /\ cache.seq <= Watermark /\ Watermark \in Nat
           /\ handled \in Int /\ handled <= cache.seq /\ \A m \in seen : m \in Nat
           /\ \A i \in 1..Len(wire) : wire[i].seq \in Int /\ wire[i].seq <= cache.seq
           /\ Len(wire) \in Nat
           /\ committed \in SUBSET Events
           /\ EndOf(handled, wire) <= cache.seq
<1>1. cache \in Caches /\ wire \in Seq(Frames)
  BY DEF StreamInv, StreamShape
<1>2. cache.seq \in 0..MaxSeq
  BY <1>1, Zenon DEF Caches
<1>3. MaxSeq \in Nat /\ Watermark \in Nat /\ committed \in SUBSET Events
  BY PrunedAreOld, EventNumbers DEF JournalInv, JournalTypeOK
<1>4. cache.seq <= Watermark
  BY Zenon DEF StreamInv, CacheOrder
<1>5. handled \in Int /\ handled <= cache.seq /\ \A m \in seen : m \in Nat
  BY <1>3 DEF StreamInv, StreamShape, WireOrder, NoPosition
<1>6. Len(wire) \in Nat /\ \A i \in 1..Len(wire) : wire[i] \in Frames
  BY <1>1
<1>7. \A i \in 1..Len(wire) : wire[i].seq \in Int /\ wire[i].seq <= cache.seq
  BY <1>6 DEF Frames, StreamInv, WireOrder, FramesFit, Follows
<1>8. EndOf(handled, wire) <= cache.seq
  BY <1>5, <1>6, <1>7 DEF EndOf
<1> QED
  BY <1>2, <1>3, <1>4, <1>5, <1>6, <1>7, <1>8

\* What the client has and what is under way to it, while snapshots go on.
LEMMA WireStays ==
    ASSUME JournalInv, StreamInv, committed' = committed, UNCHANGED <<wire, view, handled, seen>>,
           cache'.seq \in 0..MaxSeq, cache.seq <= cache'.seq
    PROVE  WireOrder' /\ ViewIsConsistent'
<1>1. /\ cache.seq \in 0..MaxSeq /\ cache.seq \in Nat /\ cache'.seq \in Nat
      /\ handled \in Int /\ handled <= cache.seq
      /\ \A m \in seen : m \in Nat /\ m <= cache.seq
      /\ committed \in SUBSET Events /\ wire \in Seq(Frames)
  BY StreamNumbers, EventNumbers DEF StreamInv, StreamShape, WireOrder
<1>2. FramesFit(committed, cache'.seq, handled, wire)
  <2>1. FramesFit(committed, cache.seq, handled, wire)
    BY DEF StreamInv, WireOrder
  <2> QED
    BY <1>1, <2>1, FramesStay
<1>3. handled <= cache'.seq /\ \A m \in seen : m <= cache'.seq
  BY <1>1
<1>4. WireOrder'
  BY <1>2, <1>3 DEF StreamInv, WireOrder
<1>5. ViewIsConsistent'
  BY DEF StreamInv, ViewIsConsistent, HostileAt, KindAt
<1> QED
  BY <1>4, <1>5

\* While the journal goes on, what the stream has stays right.
LEMMA JournalLeavesStream ==
    ASSUME JournalInv, StreamInv, JournalNext, UNCHANGED stream,
           \A e \in kept \ kept' : /\ connected => e.seq <= position
                                   /\ cache.fresh => e.seq <= cache.seq
    PROVE  StreamInv'
<1>1. /\ JournalInv' /\ committed \subseteq committed' /\ Watermark' >= Watermark
      /\ \A e \in committed' \ committed : e.seq > Watermark
      /\ committed' \ kept' \subseteq (committed \ kept) \cup (kept \ kept')
  BY JournalKeeps, CommitsAreNew
<1>2. /\ committed \in SUBSET Events /\ committed' \in SUBSET Events /\ kept \subseteq Events
  BY <1>1 DEF JournalInv, JournalTypeOK
<1>3. /\ cache' = cache /\ connected' = connected /\ taken' = taken /\ position' = position
      /\ lastSent' = lastSent /\ wire' = wire /\ view' = view /\ handled' = handled
      /\ seen' = seen /\ breaks' = breaks
  BY DEF stream, server, client
<1>4. /\ cache.seq \in 0..MaxSeq /\ cache.seq \in Nat /\ cache.seq <= Watermark
      /\ Watermark \in Nat /\ Watermark' \in Nat /\ handled \in Int /\ handled <= cache.seq
  <2>1. Watermark' \in Nat
    BY <1>1, HighestNumber, EventNumbers DEF Watermark, JournalInv, JournalTypeOK
  <2> QED
    BY <2>1, StreamNumbers
<1>5. \A e \in committed' \ committed : e.seq > cache.seq /\ e.seq \in Nat
  BY <1>1, <1>2, <1>4, EventNumbers
<1>6. StreamShape' /\ connected' \in BOOLEAN
  BY <1>3, Zenon DEF StreamInv, StreamShape
<1>7. CacheOrder'
  <2>1. cache.seq <= Watermark'
    BY <1>1, <1>4
  <2>2. ASSUME cache.fresh
        PROVE  PrunedUpTo(cache.seq)'
    <3>1. PrunedUpTo(cache.seq)
      BY <2>2, Zenon DEF StreamInv, CacheOrder
    <3>2. \A e \in kept \ kept' : e.seq <= cache.seq
      BY <2>2, Zenon
    <3>3. \A e \in committed' \ kept' : e.seq <= cache.seq
      BY <1>1, <3>1, <3>2 DEF PrunedUpTo
    <3> QED
      BY <1>3, <3>3 DEF PrunedUpTo
  <2> QED
    BY <1>3, <2>1, <2>2, Zenon DEF CacheOrder, PrunedUpTo
<1>8. WireOrder'
  <2>1. FramesFit(committed, cache.seq, handled, wire) /\ wire \in Seq(Frames)
    BY DEF StreamInv, StreamShape, WireOrder
  <2>2. FramesFit(committed', cache.seq, handled, wire)
    BY <1>1, <1>2, <1>4, <1>5, <2>1, FramesStay
  <2> QED
    BY <1>3, <2>2 DEF StreamInv, WireOrder
<1>9. ConnectionOrder'
  <2> SUFFICES ASSUME connected
               PROVE  (/\ taken # NotReady => taken <= cache.seq
                       /\ position = NoPosition =>
                            wire = <<>> /\ (taken # NotReady => Baseline(taken))
                       /\ position # NoPosition =>
                            PrunedUpTo(position) /\ position = EndOf(handled, wire))'
    BY <1>3, Zenon DEF ConnectionOrder
  <2>1. \A e \in kept \ kept' : e.seq <= position
    BY Zenon
  <2>2. ConnectionOrder
    BY DEF StreamInv
  <2>3. CASE position = NoPosition
    <3>1. \A e \in kept : e.seq > position
      BY <1>2, <2>3, EventNumbers DEF NoPosition
    <3>2. kept \ kept' = {}
      BY <1>2, <2>1, <2>3, <3>1, EventNumbers DEF NoPosition
    <3>3. taken # NotReady => \A e \in committed' \ kept' : e.seq <= taken
      BY <1>1, <2>2, <2>3, <3>2 DEF ConnectionOrder, Baseline, PrunedUpTo
    <3> QED
      BY <1>3, <2>2, <2>3, <3>3 DEF ConnectionOrder, Baseline, PrunedUpTo
  <2>4. CASE position # NoPosition
    <3>1. \A e \in committed' \ kept' : e.seq <= position
      BY <1>1, <2>1, <2>2, <2>4 DEF ConnectionOrder, PrunedUpTo
    <3> QED
      BY <1>3, <2>2, <2>4, <3>1 DEF ConnectionOrder, PrunedUpTo
  <2> QED
    BY <2>3, <2>4
<1>10. ViewIsConsistent'
  <2> SUFFICES ASSUME handled # NoPosition
               PROVE  view = HostileAt(handled)'
    BY <1>3 DEF ViewIsConsistent
  <2>1. \A e \in committed' \ committed : e.seq > handled
    BY <1>4, <1>5
  <2>2. \A s \in Systems : KindIn(committed', s, handled) = KindIn(committed, s, handled)
    BY <1>1, <1>2, <1>4, <2>1, KindGrows
  <2>3. HostileAt(handled) = {s \in Systems : KindIn(committed, s, handled) = "hostile"}
    BY DEF HostileAt, KindAt, KindIn
  <2>4. HostileAt(handled)' = {s \in Systems : KindIn(committed', s, handled) = "hostile"}
    BY <1>3 DEF HostileAt, KindAt, KindIn
  <2>5. view = HostileAt(handled)
    BY DEF StreamInv, ViewIsConsistent
  <2> QED
    BY <2>2, <2>3, <2>4, <2>5
<1> QED
  BY <1>6, <1>7, <1>8, <1>9, <1>10 DEF StreamInv

\* A connection begins, or ends on the server's side.
LEMMA ConnectKeeps ==
    ASSUME JournalInv, StreamInv, Connect \/ EndStream, UNCHANGED journal
    PROVE  StreamInv'
<1>1. /\ cache' = cache /\ wire' = wire /\ view' = view /\ handled' = handled /\ seen' = seen
      /\ committed' = committed /\ kept' = kept
  BY DEF Connect, EndStream, journal, client
<1>2. \/ /\ wire = <<>> /\ connected' = TRUE /\ position' = NoPosition
         /\ lastSent' = NothingSent /\ taken' = NotReady /\ breaks' = breaks
      \/ /\ connected' = FALSE /\ position' = position /\ lastSent' = lastSent
         /\ taken' = taken /\ breaks < MaxBreaks /\ breaks' = breaks + 1
  BY Zenon DEF Connect, EndStream
<1>3. Watermark' = Watermark /\ PrunedUpTo(cache.seq)' = PrunedUpTo(cache.seq)
  BY <1>1 DEF Watermark, PrunedUpTo
<1>4. StreamShape'
  <2>1. lastSent' \subseteq 0..MaxSeq
    <3>1. lastSent' = NothingSent \/ lastSent' = lastSent
      BY <1>2
    <3>2. lastSent \subseteq 0..MaxSeq /\ 0 \in 0..MaxSeq
      BY EventNumbers DEF StreamInv, StreamShape
    <3> QED
      BY <3>1, <3>2 DEF NothingSent
  <2>2. breaks' \in 0..MaxBreaks
    BY <1>2, StreamAssumption DEF StreamInv, StreamShape
  <2>3. taken' \in {NotReady} \cup 0..MaxSeq /\ position' \in {NoPosition} \cup 0..MaxSeq
    BY <1>2 DEF StreamInv, StreamShape
  <2> QED
    BY <1>1, <2>1, <2>2, <2>3, Zenon DEF StreamInv, StreamShape
<1>5. connected' \in BOOLEAN
  BY <1>2
<1>6. CacheOrder'
  BY <1>1, <1>3, Zenon DEF StreamInv, CacheOrder, PrunedUpTo
<1>7. WireOrder' /\ ViewIsConsistent'
  <2>1. cache'.seq \in 0..MaxSeq /\ cache.seq <= cache'.seq
    BY <1>1, StreamNumbers
  <2> QED
    BY <1>1, <2>1, WireStays
<1>8. ConnectionOrder'
  BY <1>1, <1>2 DEF ConnectionOrder
<1> QED
  BY <1>4, <1>5, <1>6, <1>7, <1>8 DEF StreamInv

\* The snapshot grows old.
LEMMA CacheExpiryKeeps ==
    ASSUME JournalInv, StreamInv, CacheExpires, UNCHANGED journal
    PROVE  StreamInv'
<1>1. /\ connected' = connected /\ taken' = taken /\ position' = position
      /\ lastSent' = lastSent /\ wire' = wire /\ view' = view /\ handled' = handled
      /\ seen' = seen /\ breaks' = breaks /\ committed' = committed /\ kept' = kept
  BY DEF CacheExpires, journal, client
<1>2. cache' = [cache EXCEPT !.fresh = FALSE] /\ cache \in Caches /\ FALSE \in BOOLEAN
  BY Zenon DEF CacheExpires, StreamInv, StreamShape
<1>3. cache' \in Caches
  BY <1>2, Zenon DEF Caches
<1>4. cache'.seq = cache.seq
  BY <1>2, Zenon DEF Caches
<1>5. cache'.fresh = FALSE
  BY <1>2, Zenon DEF Caches
<1>6. StreamShape' /\ connected' \in BOOLEAN
  BY <1>1, <1>3, Zenon DEF StreamInv, StreamShape
<1>7. Watermark' = Watermark
  BY <1>1 DEF Watermark
<1>8. CacheOrder'
  <2>1. ~ cache'.fresh
    BY <1>5
  <2> QED
    BY <1>4, <1>7, <2>1, StreamNumbers, Zenon DEF CacheOrder
<1>9. WireOrder' /\ ViewIsConsistent'
  <2>1. cache'.seq \in 0..MaxSeq /\ cache.seq <= cache'.seq
    BY <1>4, StreamNumbers
  <2> QED
    BY <1>1, <2>1, WireStays
<1>10. ConnectionOrder'
  BY <1>1, <1>4 DEF StreamInv, ConnectionOrder, Baseline, PrunedUpTo
<1> QED
  BY <1>6, <1>8, <1>9, <1>10 DEF StreamInv

\* A pass begins with a snapshot, ahead of all that was ever sent.
LEMMA ReadSnapshotKeeps ==
    ASSUME JournalInv, StreamInv, ReadSnapshot, UNCHANGED journal
    PROVE  StreamInv'
<1>1. /\ connected' = connected /\ position' = position
      /\ lastSent' = lastSent /\ wire' = wire /\ view' = view /\ handled' = handled
      /\ seen' = seen /\ breaks' = breaks /\ committed' = committed /\ kept' = kept
      /\ taken' = cache'.seq
  BY DEF ReadSnapshot, journal, client
<1>2. cache' = Snapshot(0)
  BY DEF ReadSnapshot
<1>3. /\ cache' \in Caches /\ cache'.seq \in 0..MaxSeq
      /\ cache.seq <= cache'.seq /\ cache'.seq <= Watermark
      /\ PrunedUpTo(cache'.seq)
  <2>1. 0 \in Nat /\ 0 <= Watermark
    BY StreamNumbers
  <2> QED
    BY <1>2, <2>1, SnapshotServes, Zenon
<1>4. cache'.seq \in 0..MaxSeq
  BY <1>3, Zenon
<1>5. cache.seq <= cache'.seq
  BY <1>3, Zenon
<1>6. StreamShape' /\ connected' \in BOOLEAN
  <2>1. cache' \in Caches
    BY <1>3, Zenon
  <2>2. taken' \in {NotReady} \cup 0..MaxSeq
    BY <1>1, <1>4, Zenon
  <2> QED
    BY <1>1, <2>1, <2>2, Zenon DEF StreamInv, StreamShape
<1>7. Watermark' = Watermark
  BY <1>1 DEF Watermark
<1>8. PrunedUpTo(cache.seq)'
  <2>1. PrunedUpTo(cache'.seq)
    BY <1>3, Zenon
  <2> QED
    BY <1>1, <2>1 DEF PrunedUpTo
<1>9. CacheOrder'
  <2>1. cache'.seq <= Watermark
    BY <1>3, Zenon
  <2> QED
    BY <1>7, <1>8, <2>1, Zenon DEF CacheOrder
<1>10. WireOrder' /\ ViewIsConsistent'
  BY <1>1, <1>4, <1>5, WireStays
<1>11. ConnectionOrder'
  <2>1. handled <= cache'.seq /\ \A m \in seen : m <= cache'.seq
    BY <1>4, <1>5, StreamNumbers DEF StreamInv, WireOrder
  <2>2. Baseline(taken)'
    BY <1>1, <1>8, <2>1 DEF Baseline
  <2>3. taken' <= cache'.seq
    BY <1>1, <1>4
  <2>4. PrunedUpTo(position)' = PrunedUpTo(position)
    BY <1>1 DEF PrunedUpTo
  <2> QED
    BY <1>1, <2>2, <2>3, <2>4 DEF StreamInv, ConnectionOrder
<1> QED
  BY <1>6, <1>9, <1>10, <1>11 DEF StreamInv

\* The content of a bootstrap is made of numbers of events.
LEMMA ContentNumbers ==
    ASSUME JournalInv, NEW n \in Int
    PROVE  Content(n) \subseteq 0..MaxSeq
<1> SUFFICES ASSUME NEW c \in Content(n)
             PROVE  c \in 0..MaxSeq
  OBVIOUS
<1>1. PICK s \in HostileAt(n) : c = Newest({e \in committed : e.system = s /\ e.seq <= n}).seq
  BY DEF Content
<1> DEFINE past == {e \in committed : e.system = s /\ e.seq <= n}
<1>2. past # {}
  BY <1>1 DEF HostileAt, KindAt
<1>3. past \subseteq Events
  BY DEF JournalInv, JournalTypeOK
<1> HIDE DEF past
<1>4. Newest(past) \in Events
  BY <1>2, <1>3, NewestEvent
<1>5. Newest(past).seq \in 0..MaxSeq
  BY <1>4, EventNumbers
<1> QED
  BY <1>1, <1>5 DEF past

\* The server sends frames that follow what it has sent.
LEMMA SendKeeps ==
    ASSUME JournalInv, StreamInv, UNCHANGED <<committed, kept, client, connected, breaks>>, connected,
           cache' \in Caches, cache'.seq \in 0..MaxSeq, cache.seq <= cache'.seq, CacheOrder',
           taken' = NotReady, lastSent' \subseteq 0..MaxSeq,
           NEW frames \in Seq(Frames), wire' = wire \o frames, Len(frames) # 0,
           FramesFit(committed, cache'.seq, EndOf(handled, wire), frames),
           Len(wire) = 0 /\ handled = NoPosition => \A m \in seen : m <= frames[1].seq,
           position' = EndOf(EndOf(handled, wire), frames), position' \in 0..MaxSeq,
           PrunedUpTo(position')
    PROVE  StreamInv'
<1>1. /\ view' = view /\ handled' = handled /\ seen' = seen /\ connected' = connected
      /\ breaks' = breaks /\ committed' = committed /\ kept' = kept
  BY DEF client
<1>2. /\ committed \in SUBSET Events /\ cache.seq \in 0..MaxSeq /\ cache'.seq \in Nat
      /\ wire \in Seq(Frames) /\ Len(wire) \in Nat
      /\ handled \in Int /\ handled <= cache.seq /\ \A m \in seen : m \in Nat
  BY StreamNumbers, EventNumbers DEF StreamInv, StreamShape
<1>3. FramesFit(committed, cache'.seq, handled, wire)
  <2>1. FramesFit(committed, cache.seq, handled, wire)
    BY DEF StreamInv, WireOrder
  <2> QED
    BY <1>2, <2>1, FramesStay
<1>4. /\ wire' \in Seq(Frames)
      /\ FramesFit(committed, cache'.seq, handled, wire')
      /\ EndOf(handled, wire') = position'
  BY <1>2, <1>3, FramesJoin
<1>5. /\ Len(frames) \in Nat /\ Len(wire') = Len(wire) + Len(frames)
      /\ Len(wire) # 0 => wire'[1] = wire[1]
      /\ Len(wire) = 0 => wire'[1] = frames[1]
  BY <1>2, ConcatProperties, LenProperties
<1>6. StreamShape'
  <2>1. position' \in {NoPosition} \cup 0..MaxSeq /\ taken' \in {NotReady} \cup 0..MaxSeq
    OBVIOUS
  <2>2. wire' \in Seq(Frames)
    BY <1>4
  <2> QED
    BY <1>1, <2>1, <2>2, Zenon DEF StreamInv, StreamShape
<1>7. connected' \in BOOLEAN
  BY <1>1, Zenon DEF StreamInv
<1>8. WireOrder'
  <2>1. handled <= cache'.seq /\ \A m \in seen : m <= cache'.seq
    BY <1>2 DEF StreamInv, WireOrder
  <2>2. handled = NoPosition => \A m \in seen : m <= wire'[1].seq
    <3>1. CASE Len(wire) = 0
      BY <1>5, <3>1
    <3>2. CASE Len(wire) # 0
      <4>1. wire # <<>>
        BY <3>2
      <4>2. handled = NoPosition => \A m \in seen : m <= wire[1].seq
        BY <4>1 DEF StreamInv, WireOrder
      <4> QED
        BY <1>5, <3>2, <4>2
    <3> QED
      BY <3>1, <3>2
  <2>3. handled # NoPosition => \A m \in seen : m <= handled
    BY DEF StreamInv, WireOrder
  <2> QED
    BY <1>1, <1>4, <2>1, <2>2, <2>3, Zenon DEF WireOrder
<1>9. ConnectionOrder'
  <2>1. position' # NoPosition
    BY EventNumbers DEF NoPosition
  <2>2. PrunedUpTo(position)'
    BY <1>1 DEF PrunedUpTo
  <2> QED
    BY <1>1, <1>4, <2>1, <2>2 DEF ConnectionOrder
<1>10. ViewIsConsistent'
  BY <1>1 DEF StreamInv, ViewIsConsistent, HostileAt, KindAt
<1> QED
  BY <1>6, <1>7, <1>8, <1>9, <1>10 DEF StreamInv

\* The first pass.
LEMMA BaselineKeeps ==
    ASSUME JournalInv, StreamInv, SendBaseline, UNCHANGED journal
    PROVE  StreamInv'
<1> DEFINE frames == <<BootFrame(taken)>>
<1>1. /\ UNCHANGED <<committed, kept, client, connected, breaks>> /\ cache' = cache
      /\ taken # NotReady /\ position = NoPosition /\ position' = taken
      /\ lastSent' = Content(taken) /\ taken' = NotReady
      /\ wire' = Append(wire, BootFrame(taken))
  BY DEF SendBaseline, journal
<1>2. connected
  BY DEF SendBaseline
<1>3. ConnectionOrder
  BY DEF StreamInv
<1>4. /\ taken <= cache.seq /\ wire = <<>> /\ Baseline(taken)
  BY <1>1, <1>2, <1>3, Zenon DEF ConnectionOrder
<1>5. /\ taken \in 0..MaxSeq /\ MaxSeq \in Nat /\ cache.seq \in 0..MaxSeq /\ cache.seq \in Nat
      /\ cache \in Caches
  BY <1>1, StreamNumbers DEF StreamInv, StreamShape
<1>6. lastSent' \subseteq 0..MaxSeq
  BY <1>1, <1>5, ContentNumbers
<1>7. BootFrame(taken) \in Frames /\ BootFrame(taken).seq = taken
      /\ BootFrame(taken).kind = "bootstrap"
  BY <1>5 DEF BootFrame, Frames
<1>8. EndOf(handled, wire) = handled /\ Len(wire) = 0
  BY <1>4 DEF EndOf
<1>9. Follows(committed, cache.seq, handled, BootFrame(taken))
  BY <1>4, <1>7 DEF Follows, Baseline
<1>10. wire' = wire \o frames
  BY <1>1, <1>4
<1>11. /\ frames \in Seq(Frames) /\ FramesFit(committed, cache.seq, handled, frames)
       /\ EndOf(handled, frames) = taken /\ Len(frames) # 0 /\ frames[1].seq = taken
  BY <1>7, <1>9, OneFrame
<1> HIDE DEF frames
<1>12. CacheOrder'
  <2>1. Watermark' = Watermark
    BY <1>1 DEF Watermark
  <2> QED
    BY <1>1, <2>1, Zenon DEF StreamInv, CacheOrder, PrunedUpTo
<1>13. \A m \in seen : m <= frames[1].seq
  BY <1>4, <1>11 DEF Baseline
<1>14. PrunedUpTo(taken)
  BY <1>4 DEF Baseline
<1>15. cache' \in Caches /\ cache'.seq \in 0..MaxSeq /\ cache.seq <= cache'.seq
  BY <1>1, <1>5
<1>16. FramesFit(committed, cache'.seq, EndOf(handled, wire), frames)
  BY <1>1, <1>8, <1>11
<1>17. position' = EndOf(EndOf(handled, wire), frames) /\ position' \in 0..MaxSeq
       /\ PrunedUpTo(position')
  BY <1>1, <1>5, <1>8, <1>11, <1>14
<1>18. UNCHANGED <<committed, kept, client, connected, breaks>> /\ taken' = NotReady
  BY <1>1
<1> QED
  BY <1>2, <1>6, <1>10, <1>11, <1>12, <1>13, <1>15, <1>16, <1>17, <1>18, SendKeeps

\* A page of what a connection has not sent asks for no more than the journal has.
LEMMA PageAsks ==
    ASSUME JournalInv, position \in 0..MaxSeq, After(position) # {}
    PROVE  /\ Highest(Page(After(position))) \in Nat
           /\ position < Highest(Page(After(position)))
           /\ Highest(Page(After(position))) <= Watermark
<1> DEFINE unsent == After(position)
           page == Page(unsent)
           first == NextAfter(position)
<1>1. kept \subseteq Events /\ position \in Int /\ position \in Nat /\ MaxSeq \in Nat
  BY EventNumbers DEF JournalInv, JournalTypeOK
<1>2. /\ first \in unsent /\ first \in kept /\ first.seq > position
      /\ \A f \in unsent : first.seq <= f.seq
  BY <1>1, NextEvent DEF After
<1>3. unsent \subseteq kept /\ unsent \subseteq Events
  BY <1>1 DEF After
<1> HIDE DEF unsent, first
<1>4. {f \in unsent : f.seq < first.seq} = {}
  BY <1>2, <1>3, EventNumbers
<1>5. first \in page
  <2>1. Cardinality({f \in unsent : f.seq < first.seq}) = 0
    BY <1>4, FS_EmptySet
  <2>2. 0 < PageSize
    BY StreamAssumption
  <2> QED
    BY <1>2, <2>1, <2>2 DEF Page
<1>6. page \subseteq unsent
  BY DEF Page
<1> HIDE DEF page
<1>7. /\ Highest(page) \in 0..MaxSeq /\ first.seq <= Highest(page)
      /\ \E e \in page : e.seq = Highest(page)
  BY <1>3, <1>5, <1>6, HighestNumber
<1>8. \A e \in kept : e.seq <= Watermark
  BY <1>1, HighestNumber DEF Watermark
<1>9. Highest(page) <= Watermark
  BY <1>3, <1>6, <1>7, <1>8
<1>10. Highest(page) \in Nat /\ position < Highest(page)
  BY <1>1, <1>2, <1>3, <1>7, EventNumbers
<1> QED
  BY <1>9, <1>10 DEF page, unsent

\* The frames of a pass that goes up to a snapshot no older than the cache.
LEMMA PassKeeps ==
    ASSUME JournalInv, StreamInv, UNCHANGED <<committed, kept, client, connected, breaks>>,
           connected, position # NoPosition,
           cache' \in Caches, cache'.seq \in 0..MaxSeq, cache.seq <= cache'.seq, CacheOrder',
           taken' = NotReady,
           NEW n \in 0..MaxSeq, position < n, n <= cache'.seq, SendFrames(n, UpTo(n))
    PROVE  StreamInv'
<1> DEFINE frames == FramesUpTo(n, UpTo(n))
           sent == EndOf(handled, wire)
<1>1. position \in 0..MaxSeq /\ MaxSeq \in Nat /\ n \in Nat /\ n \in Int /\ position <= n
      /\ committed \in SUBSET Events
  BY StreamNumbers DEF StreamInv, StreamShape
<1>2. ConnectionOrder
  BY DEF StreamInv
<1>3. PrunedUpTo(position) /\ position = sent
  BY <1>2, Zenon DEF ConnectionOrder
<1>4. \A e \in committed \ kept : e.seq <= position
  BY <1>3 DEF PrunedUpTo
<1>5. frames \in Seq(Frames) /\ FramesFit(committed, n, position, frames)
      /\ EndOf(position, frames) = n
  BY <1>1, <1>4, PassFits
<1>6. /\ position' = n /\ wire' = wire \o frames /\ lastSent' = Content(n)
  BY DEF SendFrames
<1> HIDE DEF frames
<1>7. FramesFit(committed, cache'.seq, position, frames)
  BY <1>1, <1>5, FramesStay
<1>8. lastSent' \subseteq 0..MaxSeq
  BY <1>1, <1>6, ContentNumbers
<1>9. Len(frames) # 0
  BY <1>1, <1>5 DEF EndOf
<1>10. ~ (Len(wire) = 0 /\ handled = NoPosition)
  BY <1>3 DEF EndOf
<1>11. PrunedUpTo(n)
  BY <1>1, <1>4, EventNumbers DEF PrunedUpTo
<1>12. FramesFit(committed, cache'.seq, EndOf(handled, wire), frames)
       /\ position' = EndOf(EndOf(handled, wire), frames) /\ position' \in 0..MaxSeq
       /\ PrunedUpTo(position')
  BY <1>3, <1>5, <1>6, <1>7, <1>11
<1>13. wire' = wire \o frames
  BY <1>6
<1> HIDE DEF sent
<1> QED
  BY <1>5, <1>8, <1>9, <1>10, <1>12, <1>13, SendKeeps

\* A pass with events: the snapshot has them all.
LEMMA EventsKeep ==
    ASSUME JournalInv, StreamInv, SendEvents, UNCHANGED journal
    PROVE  StreamInv'
<1> DEFINE least == Highest(Page(After(position)))
           n == Snapshot(least).seq
<1>1. /\ UNCHANGED <<committed, kept, client, connected, breaks>> /\ connected
      /\ position # NoPosition /\ taken' = NotReady
  BY DEF SendEvents, journal
<1>2. After(position) # {} /\ cache' = Snapshot(least) /\ SendFrames(cache'.seq, UpTo(cache'.seq))
  BY DEF SendEvents
<1>3. position \in 0..MaxSeq
  BY <1>1 DEF StreamInv, StreamShape
<1>4. least \in Nat /\ position < least /\ least <= Watermark
  BY <1>2, <1>3, PageAsks
<1> HIDE DEF least
<1>5. /\ cache' \in Caches /\ cache'.seq \in 0..MaxSeq
      /\ least <= cache'.seq /\ cache.seq <= cache'.seq /\ cache'.seq <= Watermark
      /\ PrunedUpTo(cache'.seq)
  BY <1>2, <1>4, SnapshotServes, Zenon
<1>6. cache'.seq \in 0..MaxSeq
  BY <1>5, Zenon
<1>7. cache.seq <= cache'.seq
  BY <1>5, Zenon
<1>8. least <= cache'.seq
  BY <1>5, Zenon
<1>9. cache' \in Caches
  BY <1>5, Zenon
<1>10. position < cache'.seq
  BY <1>3, <1>4, <1>6, <1>8, StreamNumbers
<1>11. CacheOrder'
  <2>1. cache'.seq <= Watermark
    BY <1>5, Zenon
  <2>2. PrunedUpTo(cache'.seq)
    BY <1>5, Zenon
  <2>3. Watermark' = Watermark
    BY <1>1 DEF Watermark
  <2>4. PrunedUpTo(cache.seq)'
    BY <1>1, <2>2 DEF PrunedUpTo
  <2> QED
    BY <2>1, <2>3, <2>4, Zenon DEF CacheOrder
<1>12. cache'.seq <= cache'.seq
  BY <1>6, StreamNumbers
<1> QED
  BY <1>1, <1>2, <1>6, <1>7, <1>9, <1>10, <1>11, <1>12, PassKeeps

\* A pass without events.
LEMMA NoEventsKeep ==
    ASSUME JournalInv, StreamInv, SendNoEvents, UNCHANGED journal
    PROVE  StreamInv'
<1>1. /\ UNCHANGED <<committed, kept, client, connected, breaks>> /\ connected
      /\ position # NoPosition /\ taken' = NotReady /\ taken # NotReady /\ cache' = cache
      /\ After(position) = {} /\ taken >= position
  BY DEF SendNoEvents, journal
<1>2. IF taken > position THEN SendFrames(taken, {}) ELSE UNCHANGED <<position, wire, lastSent>>
  BY DEF SendNoEvents
<1>3. /\ position \in 0..MaxSeq /\ taken \in 0..MaxSeq /\ cache \in Caches
      /\ cache.seq \in 0..MaxSeq /\ MaxSeq \in Nat /\ cache.seq <= cache.seq
  BY <1>1, StreamNumbers DEF StreamInv, StreamShape
<1>4. ConnectionOrder /\ CacheOrder /\ WireOrder /\ ViewIsConsistent
  BY DEF StreamInv
<1>5. taken <= cache.seq
  BY <1>1, <1>4, Zenon DEF ConnectionOrder
<1>6. CacheOrder'
  <2>1. Watermark' = Watermark
    BY <1>1 DEF Watermark
  <2> QED
    BY <1>1, <1>4, <2>1, Zenon DEF CacheOrder, PrunedUpTo
<1>7. cache' \in Caches /\ cache'.seq \in 0..MaxSeq /\ cache.seq <= cache'.seq
  BY <1>1, <1>3
<1>8. CASE taken > position
  <2>1. UpTo(taken) = {}
    BY <1>1 DEF UpTo
  <2>2. SendFrames(taken, UpTo(taken)) /\ position < taken /\ taken <= cache'.seq
    BY <1>1, <1>2, <1>3, <1>5, <1>8, <2>1
  <2> QED
    BY <1>1, <1>3, <1>6, <1>7, <2>2, PassKeeps
<1>9. CASE ~ (taken > position)
  <2>1. /\ position' = position /\ wire' = wire /\ lastSent' = lastSent /\ connected' = connected
        /\ view' = view /\ handled' = handled /\ seen' = seen /\ breaks' = breaks
        /\ committed' = committed /\ kept' = kept
    BY <1>1, <1>2, <1>9 DEF client
  <2>2. StreamShape'
    <3>1. cache' \in Caches /\ taken' \in {NotReady} \cup 0..MaxSeq
      BY <1>1, <1>7
    <3> QED
      BY <2>1, <3>1, Zenon DEF StreamInv, StreamShape
  <2>3. connected' \in BOOLEAN
    BY <2>1, Zenon DEF StreamInv
  <2>4. WireOrder' /\ ViewIsConsistent'
    BY <1>7, <2>1, WireStays
  <2>5. ConnectionOrder'
    BY <1>1, <1>4, <2>1 DEF ConnectionOrder, PrunedUpTo
  <2> QED
    BY <1>6, <2>2, <2>3, <2>4, <2>5 DEF StreamInv
<1> QED
  BY <1>8, <1>9

\* The connection is lost, and the view with it.
LEMMA LossKeeps ==
    ASSUME JournalInv, StreamInv, LoseConnection, UNCHANGED journal
    PROVE  StreamInv'
<1>1. /\ cache' = cache /\ taken' = taken /\ position' = position /\ lastSent' = lastSent
      /\ seen' = seen /\ wire' = <<>> /\ view' = {} /\ handled' = NoPosition
      /\ connected' = FALSE /\ committed' = committed /\ kept' = kept
      /\ breaks < MaxBreaks /\ breaks' = breaks + 1
  BY DEF LoseConnection, ForgetView, journal
<1>2. breaks' \in 0..MaxBreaks
  BY <1>1, StreamAssumption DEF StreamInv, StreamShape
<1>3. StreamShape'
  <2>1. <<>> \in Seq(Frames) /\ {} \subseteq Systems /\ NoPosition \in {NoPosition} \cup 0..MaxSeq
    OBVIOUS
  <2> QED
    BY <1>1, <1>2, <2>1, Zenon DEF StreamInv, StreamShape
<1>4. connected' \in BOOLEAN
  BY <1>1
<1>5. CacheOrder'
  <2>1. Watermark' = Watermark
    BY <1>1 DEF Watermark
  <2> QED
    BY <1>1, <2>1, Zenon DEF StreamInv, CacheOrder, PrunedUpTo
<1>6. WireOrder'
  <2>1. Len(<<>>) = 0
    OBVIOUS
  <2>2. FramesFit(committed, cache.seq, NoPosition, <<>>)
    BY DEF FramesFit
  <2>3. NoPosition <= cache.seq
    BY StreamNumbers DEF NoPosition
  <2>4. \A m \in seen : m <= cache.seq
    BY DEF StreamInv, WireOrder
  <2> QED
    BY <1>1, <2>2, <2>3, <2>4 DEF WireOrder
<1>7. ConnectionOrder'
  BY <1>1 DEF ConnectionOrder
<1>8. ViewIsConsistent'
  BY <1>1 DEF ViewIsConsistent
<1> QED
  BY <1>3, <1>4, <1>5, <1>6, <1>7, <1>8 DEF StreamInv

\* The client handles a frame.
LEMMA HandleKeeps ==
    ASSUME JournalInv, StreamInv, HandleFrame, UNCHANGED journal
    PROVE  StreamInv' /\ handled' >= handled
<1> DEFINE f == Head(wire)
           rest == Tail(wire)
<1>1. /\ cache' = cache /\ taken' = taken /\ position' = position /\ lastSent' = lastSent
      /\ connected' = connected /\ breaks' = breaks /\ committed' = committed /\ kept' = kept
      /\ wire # <<>> /\ wire' = rest /\ handled' = f.seq
      /\ seen' = IF f.kind \in {"hostile", "unknown"} THEN seen \cup {f.seq} ELSE seen
  BY DEF HandleFrame, server, journal
<1>2. /\ f.kind = "bootstrap" => view' = HostileAt(f.seq)
      /\ f.kind = "clear" => view' = view \ {f.system}
      /\ f.kind = "hostile" /\ f.seq \notin seen => view' = view \cup {f.system}
      /\ f.kind = "unknown" /\ f.seq \notin seen => view' = view \ {f.system}
      /\ f.kind = "cursor" => view' = view
  BY DEF HandleFrame
<1>3. wire \in Seq(Frames) /\ FramesFit(committed, cache.seq, handled, wire)
  BY DEF StreamInv, StreamShape, WireOrder
<1>4. /\ f \in Frames /\ rest \in Seq(Frames) /\ f = wire[1]
      /\ Follows(committed, cache.seq, handled, f)
      /\ FramesFit(committed, cache.seq, f.seq, rest)
      /\ EndOf(f.seq, rest) = EndOf(handled, wire)
  BY <1>1, <1>3, FramesAfterHead
<1> HIDE DEF f, rest
<1>5. /\ f.kind \in {"bootstrap", "cursor"} \cup Kinds /\ f.seq \in 0..MaxSeq /\ f.seq \in Nat
      /\ MaxSeq \in Nat /\ cache.seq \in Nat /\ handled \in Int /\ \A m \in seen : m \in Nat
      /\ handled <= f.seq /\ f.seq <= cache.seq
  BY <1>4, StreamNumbers DEF Frames, Follows
<1>6. \A m \in seen : m <= f.seq
  <2>1. CASE handled = NoPosition
    BY <1>1, <1>4, <2>1 DEF StreamInv, WireOrder
  <2>2. CASE handled # NoPosition
    BY <1>5, <2>2 DEF StreamInv, WireOrder
  <2> QED
    BY <2>1, <2>2
<1>7. handled = NoPosition => f.kind = "bootstrap"
  BY <1>4 DEF Follows
<1>8. handled # NoPosition =>
          /\ handled \in 0..MaxSeq
          /\ f.kind = "cursor" => HostileAt(f.seq) = HostileAt(handled)
          /\ f.kind \in {"clear", "unknown"} =>
                HostileAt(f.seq) = HostileAt(handled) \ {f.system}
          /\ f.kind = "hostile" => HostileAt(f.seq) = HostileAt(handled) \cup {f.system}
          /\ f.kind \in Kinds => f.seq > handled
  <2> SUFFICES ASSUME handled # NoPosition
               PROVE  /\ handled \in 0..MaxSeq
                      /\ f.kind = "cursor" => HostileAt(f.seq) = HostileAt(handled)
                      /\ f.kind \in {"clear", "unknown"} =>
                            HostileAt(f.seq) = HostileAt(handled) \ {f.system}
                      /\ f.kind = "hostile" =>
                            HostileAt(f.seq) = HostileAt(handled) \cup {f.system}
                      /\ f.kind \in Kinds => f.seq > handled
    OBVIOUS
  <2>1. handled \in 0..MaxSeq
    BY DEF StreamInv, StreamShape
  <2> DEFINE Brings(p, g) ==
        /\ g.kind = "cursor" => HostileAt(g.seq) = HostileAt(p)
        /\ g.kind \in {"clear", "unknown"} => HostileAt(g.seq) = HostileAt(p) \ {g.system}
        /\ g.kind = "hostile" => HostileAt(g.seq) = HostileAt(p) \cup {g.system}
        /\ g.kind \in Kinds => g.seq > p
  <2>2. \A top, p, g : p \in 0..MaxSeq /\ g \in Frames /\ Follows(committed, top, p, g)
          => Brings(p, g)
    BY FrameMoves, Zenon
  <2> HIDE DEF Brings
  <2>3. Brings(handled, f)
    BY <1>4, <2>1, <2>2, Zenon
  <2> QED
    BY <2>1, <2>3, Zenon DEF Brings
<1>9. f.kind \in {"hostile", "unknown"} => f.seq \notin seen
  <2> SUFFICES ASSUME f.kind \in {"hostile", "unknown"}
               PROVE  f.seq \notin seen
    OBVIOUS
  <2>1. handled # NoPosition /\ f.seq > handled
    BY <1>7, <1>8 DEF Kinds
  <2>2. \A m \in seen : m <= handled
    BY <2>1 DEF StreamInv, WireOrder
  <2> QED
    BY <1>5, <2>1, <2>2
<1>10. view' = HostileAt(f.seq)
  <2>1. CASE f.kind = "bootstrap"
    BY <1>2, <2>1
  <2>2. CASE f.kind # "bootstrap"
    <3>1. handled # NoPosition
      BY <1>7, <2>2
    <3>2. view = HostileAt(handled)
      BY <3>1 DEF StreamInv, ViewIsConsistent
    <3> QED
      BY <1>2, <1>5, <1>8, <1>9, <2>2, <3>1, <3>2 DEF Kinds
  <2> QED
    BY <2>1, <2>2
<1>11. ViewIsConsistent'
  BY <1>1, <1>10 DEF ViewIsConsistent, HostileAt, KindAt
<1>12. /\ seen' \subseteq 1..MaxSeq
       /\ \A m \in seen' : m <= f.seq
  <2>1. seen \subseteq 1..MaxSeq
    BY DEF StreamInv, StreamShape
  <2>2. f.kind \in {"hostile", "unknown"} => f.seq \in 1..MaxSeq
    <3> SUFFICES ASSUME f.kind \in {"hostile", "unknown"}
                 PROVE  f.seq \in 1..MaxSeq
      OBVIOUS
    <3>1. handled \in 0..MaxSeq /\ f.seq > handled
      BY <1>7, <1>8 DEF Kinds
    <3> QED
      BY <1>5, <3>1
  <2>3. f.seq <= f.seq
    BY <1>5
  <2> QED
    BY <1>1, <1>6, <2>1, <2>2, <2>3
<1>13. StreamShape'
  <2>1. wire' \in Seq(Frames)
    BY <1>1, <1>4
  <2>2. view' \subseteq Systems
    BY <1>10 DEF HostileAt
  <2>3. handled' \in {NoPosition} \cup 0..MaxSeq
    BY <1>1, <1>5
  <2>4. seen' \subseteq 1..MaxSeq
    BY <1>12
  <2> QED
    BY <1>1, <2>1, <2>2, <2>3, <2>4, Zenon DEF StreamInv, StreamShape
<1>14. connected' \in BOOLEAN
  BY <1>1, Zenon DEF StreamInv
<1>15. CacheOrder'
  <2>1. Watermark' = Watermark
    BY <1>1 DEF Watermark
  <2> QED
    BY <1>1, <2>1, Zenon DEF StreamInv, CacheOrder, PrunedUpTo
<1>16. WireOrder'
  <2>1. FramesFit(committed, cache.seq, handled', wire')
    BY <1>1, <1>4
  <2>2. handled' <= cache.seq
    BY <1>1, <1>5
  <2>3. \A m \in seen' : m \in Nat
    BY <1>12
  <2>4. \A m \in seen' : m <= cache.seq
    BY <1>5, <1>12, <2>3
  <2>5. handled' # NoPosition /\ \A m \in seen' : m <= handled'
    BY <1>1, <1>5, <1>12 DEF NoPosition
  <2> QED
    BY <1>1, <2>1, <2>2, <2>4, <2>5, Zenon DEF WireOrder
<1>17. ConnectionOrder'
  <2>1. ConnectionOrder
    BY DEF StreamInv
  <2> QED
    BY <1>1, <1>4, <2>1 DEF ConnectionOrder, PrunedUpTo
<1>18. handled' >= handled
  BY <1>1, <1>5
<1> QED
  BY <1>11, <1>13, <1>14, <1>15, <1>16, <1>17, <1>18 DEF StreamInv

\* A stream that nobody has connected to, whatever the journal holds.
LEMMA IdleStreamIsRight ==
    ASSUME JournalInv, StreamInit
    PROVE  StreamInv
<1>1. /\ connected = FALSE /\ taken = NotReady /\ position = NoPosition
      /\ lastSent = NothingSent /\ wire = <<>> /\ view = {} /\ handled = NoPosition
      /\ seen = {} /\ breaks = 0 /\ cache = [seq |-> 0, fresh |-> FALSE]
  BY DEF StreamInit
<1>2. MaxSeq \in Nat /\ 0 \in 0..MaxSeq /\ 0 \in 0..MaxBreaks
  BY EventNumbers, StreamAssumption
<1>3. cache \in Caches /\ cache.seq = 0 /\ ~ cache.fresh
  BY <1>1, <1>2 DEF Caches
<1>4. 0 <= Watermark
  BY PrunedAreOld, EventNumbers
<1>5. StreamShape
  <2>1. lastSent \subseteq 0..MaxSeq
    BY <1>1, <1>2 DEF NothingSent
  <2>2. wire \in Seq(Frames) /\ view \subseteq Systems /\ seen \subseteq 1..MaxSeq
    BY <1>1
  <2>3. cache \in Caches /\ breaks \in 0..MaxBreaks
    BY <1>1, <1>2, <1>3, Zenon
  <2>4. /\ taken \in {NotReady} \cup 0..MaxSeq
        /\ position \in {NoPosition} \cup 0..MaxSeq
        /\ handled \in {NoPosition} \cup 0..MaxSeq
    BY <1>1
  <2> QED
    BY <2>1, <2>2, <2>3, <2>4, Zenon DEF StreamShape
<1>6. CacheOrder
  BY <1>3, <1>4, Zenon DEF CacheOrder
<1>7. WireOrder
  <2>1. FramesFit(committed, cache.seq, handled, wire)
    BY <1>1 DEF FramesFit
  <2>2. handled <= cache.seq
    <3>1. cache.seq = 0
      BY <1>3, Zenon
    <3> QED
      BY <1>1, <3>1 DEF NoPosition
  <2> QED
    BY <1>1, <2>1, <2>2, Zenon DEF WireOrder
<1>8. ConnectionOrder /\ ViewIsConsistent /\ connected \in BOOLEAN
  BY <1>1 DEF ConnectionOrder, ViewIsConsistent
<1> QED
  BY <1>5, <1>6, <1>7, <1>8, Zenon DEF StreamInv

\* Every step of the stream keeps its invariant, and the display goes on or is
\* dropped.
LEMMA StreamKeeps ==
    ASSUME JournalInv, StreamInv, StreamNext, UNCHANGED journal
    PROVE  StreamInv' /\ (handled' >= handled \/ handled' = NoPosition)
<1>1. CASE HandleFrame
  BY <1>1, HandleKeeps, Zenon
<1>2. CASE LoseConnection
  BY <1>2, LossKeeps DEF LoseConnection, ForgetView
<1>3. CASE ~ HandleFrame /\ ~ LoseConnection
  <2>1. handled' = handled
    BY <1>3 DEF StreamNext, Pass, Connect, EndStream, CacheExpires, ReadSnapshot,
                SendBaseline, SendEvents, SendNoEvents, client
  <2>2. handled' >= handled
    BY <2>1, StreamNumbers
  <2>3. StreamInv'
    BY <1>3, ConnectKeeps, CacheExpiryKeeps, ReadSnapshotKeeps, BaselineKeeps,
       EventsKeep, NoEventsKeep, Zenon DEF StreamNext, Pass
  <2> QED
    BY <2>2, <2>3
<1> QED
  BY <1>1, <1>2, <1>3

\* A stream that is used is right, and one that is not has never begun.
StreamRight ==
    /\ consumer = "stream" => StreamInv
    /\ consumer # "stream" => StreamInit

LEMMA StreamStepKeeps ==
    ASSUME JournalInv, StreamRight, [Next]_vars
    PROVE  StreamRight' /\ (stream' # stream => handled' >= handled \/ handled' = NoPosition)
<1>1. consumer' = consumer
  BY DEF Next, vars, JournalStep, ByBot, ByStream, ByReader, ByWorker, ByQuery, ByWatch
<1>2. CASE ByStream(StreamNext)
  <2>1. consumer = "stream" /\ StreamNext /\ UNCHANGED journal
    BY <1>2 DEF ByStream
  <2>2. StreamInv
    BY <2>1 DEF StreamRight
  <2>3. StreamInv' /\ (handled' >= handled \/ handled' = NoPosition)
    BY <2>1, <2>2, StreamKeeps
  <2> QED
    BY <1>1, <2>1, <2>3, Zenon DEF StreamRight
<1>3. CASE ~ ByStream(StreamNext)
  <2>1. UNCHANGED stream
    BY <1>3 DEF Next, vars, JournalStep, ByBot, ByReader, ByWorker, ByQuery, ByWatch
  <2>2. CASE consumer # "stream"
    <3>1. StreamInit'
      BY <2>1, <2>2 DEF StreamRight, StreamInit, stream, server, client
    <3> QED
      BY <1>1, <2>1, <2>2, <3>1, Zenon DEF StreamRight
  <2>3. CASE consumer = "stream"
    <3>1. StreamInv
      BY <2>3 DEF StreamRight
    <3>2. CASE JournalStep
      <4>1. JournalNext /\ PruneIsSlow
        BY <3>2 DEF JournalStep
      <4>2. \A e \in kept \ kept' : /\ connected => e.seq <= position
                                    /\ cache.fresh => e.seq <= cache.seq
        BY <2>3, <4>1, Zenon DEF PruneIsSlow
      <4>3. StreamInv'
        BY <2>1, <3>1, <4>1, <4>2, JournalLeavesStream, Zenon
      <4> QED
        BY <1>1, <2>1, <2>3, <4>3, Zenon DEF StreamRight
    <3>3. CASE ~ JournalStep
      <4>1. UNCHANGED journal
        BY <1>3, <2>3, <3>3 DEF Next, vars, ByBot, ByReader, ByWorker, ByQuery, ByWatch
      <4>2. /\ cache' = cache /\ connected' = connected /\ taken' = taken
            /\ position' = position /\ lastSent' = lastSent /\ wire' = wire
            /\ view' = view /\ handled' = handled /\ seen' = seen /\ breaks' = breaks
            /\ committed' = committed /\ kept' = kept
        BY <2>1, <4>1 DEF stream, server, client, journal
      <4>3. /\ cache.seq \in 0..MaxSeq /\ cache'.seq \in 0..MaxSeq /\ cache.seq <= cache'.seq
        BY <3>1, <4>2, StreamNumbers
      <4>4. WireOrder' /\ ViewIsConsistent'
        BY <3>1, <4>2, <4>3, WireStays
      <4>5. StreamShape' /\ connected' \in BOOLEAN
        BY <3>1, <4>2, Zenon DEF StreamInv, StreamShape
      <4>6. CacheOrder'
        <5>1. Watermark' = Watermark
          BY <4>2 DEF Watermark
        <5> QED
          BY <3>1, <4>2, <5>1, Zenon DEF StreamInv, CacheOrder, PrunedUpTo
      <4>7. ConnectionOrder'
        BY <3>1, <4>2 DEF StreamInv, ConnectionOrder, Baseline, PrunedUpTo
      <4>8. StreamInv'
        BY <4>4, <4>5, <4>6, <4>7, Zenon DEF StreamInv
      <4> QED
        BY <1>1, <2>1, <2>3, <4>8, Zenon DEF StreamRight
    <3> QED
      BY <3>2, <3>3
  <2> QED
    BY <2>2, <2>3
<1> QED
  BY <1>2, <1>3

\* With whichever consumer, all that was said of the stream stays so.
LEMMA StreamIsRight == Spec => []StreamRight
<1>1. Init => StreamRight
  <2> SUFFICES ASSUME Init
               PROVE  StreamRight
    OBVIOUS
  <2>1. JournalInv /\ StreamInit
    BY JournalInitKeeps DEF Init
  <2> QED
    BY <2>1, IdleStreamIsRight DEF StreamRight
<1>2. JournalInv /\ StreamRight /\ [Next]_vars => StreamRight'
  BY StreamStepKeeps
<1> QED
  BY <1>1, <1>2, JournalStaysOrdered, PTL DEF Spec

\* The cached snapshot is ahead of all that was sent, the frames under way
\* follow the display and each other without a gap, and what a connection has sent
\* leads to its position.
THEOREM StreamStaysRight == Spec => []StreamInv
<1>1. JournalInv /\ StreamRight => StreamInv
  BY IdleStreamIsRight DEF StreamRight
<1> QED
  BY <1>1, StreamIsRight, JournalStaysOrdered, PTL

\* The variables of the stream have their types.
THEOREM StreamTypesCorrect == Spec => []StreamTypeOK
<1>1. JournalInv /\ StreamInv => StreamTypeOK
  <2> SUFFICES ASSUME JournalInv, StreamInv
               PROVE  StreamTypeOK
    OBVIOUS
  <2>1. \A i \in DOMAIN wire : wire[i].seq \in 0..MaxSeq
    <3>1. wire \in Seq(Frames)
      BY DEF StreamInv, StreamShape
    <3>2. \A i \in DOMAIN wire : wire[i] \in Frames
      BY <3>1
    <3> QED
      BY <3>2 DEF Frames
  <2>2. cache \in [seq : 0..MaxSeq, fresh : BOOLEAN]
    BY Zenon DEF StreamInv, StreamShape, Caches
  <2> QED
    BY <2>1, <2>2, Zenon DEF StreamTypeOK, StreamInv, StreamShape
<1> QED
  BY <1>1, StreamStaysRight, JournalStaysOrdered, PTL

\* Whatever a client has on display is what was so at the moment of the last
\* frame handled, over lost connections, shared snapshots and rows that were pruned,
\* and the display never goes back to an earlier moment: it is dropped, or goes on
\* (http_server.py 4876, alert_client.py 2443).
THEOREM DisplayStaysTrue == Spec => DisplayIsTrue
<1>1. Spec => []ViewIsConsistent
  <2>1. StreamInv => ViewIsConsistent
    BY DEF StreamInv
  <2> QED
    BY <2>1, StreamStaysRight, PTL
<1>2. Spec => [][handled' >= handled \/ handled' = NoPosition]_stream
  <2>1. JournalInv /\ StreamRight /\ [Next]_vars
          => [handled' >= handled \/ handled' = NoPosition]_stream
    BY StreamStepKeeps
  <2> QED
    BY <2>1, StreamIsRight, JournalStaysOrdered, PTL DEF Spec
<1> QED
  BY <1>1, <1>2, PTL DEF DisplayIsTrue, DisplayNeverGoesBack
==============================================================================
