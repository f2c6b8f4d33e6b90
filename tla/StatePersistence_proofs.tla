----------------------- MODULE StatePersistence_proofs -----------------------
(***************************************************************************)
(* Proofs about the persistence of the monitoring state (module            *)
(* StatePersistence), for any systems and threads and any number of        *)
(* mutations, failed writes and restarts.                                  *)
(***************************************************************************)
EXTENDS StatePersistence, SequenceTheorems, TLAPS

-----------------------------------------------------------------------------
(* The inductive invariant.                                                *)

InQueue == {"waiting", "writing", "marking", "abandoning", "finishing"}
Holding == {"writing", "marking", "abandoning", "finishing"}
Written == {"marking", "abandoning", "finishing"}

\* The tickets not yet served are each held by one thread; the one served is of
\* the thread in its transaction.
Queued ==
    /\ serving <= next
    /\ \A t \in Threads : pc[t] \in InQueue =>
           /\ job[t].ticket \in serving..(next - 1)
           /\ pc[t] \in Holding => job[t].ticket = serving
    /\ \A t, u \in Threads : pc[t] \in InQueue /\ pc[u] \in InQueue
                             /\ job[t].ticket = job[u].ticket => t = u
    /\ \A k \in serving..(next - 1) : \E t \in Threads : pc[t] \in InQueue /\ job[t].ticket = k

\* Which steps of the maintenance thread belong to a repair.
RepairUnderWay ==
    \/ pc[Maintenance] \in {"copying", "completing"}
    \/ pc[Maintenance] \in InQueue /\ job[Maintenance].op = "repair"

\* Only what is marked is repaired, and a repair has read a new mark.
Marked ==
    /\ completed <= generation /\ repairing <= generation
    /\ RepairUnderWay => completed < repairing
    /\ \A t \in Threads : pc[t] \in {"copying", "completing"} => t = Maintenance
    /\ \A t \in Threads : pc[t] \in InQueue /\ job[t].op = "repair" => t = Maintenance
    /\ \A t \in Threads : pc[t] = "abandoning" => job[t].op = "repair"
    /\ \A t \in Threads : pc[t] = "marking" => job[t].op # "repair"

\* How many writes have come to their end, one way or another.
Applied == IF \E t \in Threads : pc[t] \in Written THEN serving + 1 ELSE serving

\* What a reserved write does to the memory images before and after it.
FitsDiff(w, before, after) ==
    /\ w.op = "diff"
    /\ DOMAIN w.image \subseteq Systems
    /\ \A s \in DOMAIN w.image : w.image[s] = after[s] /\ after[s].kind # "absent"
    /\ \A s \in Systems \ DOMAIN w.image : after[s] = before[s]
    /\ w.crewed = {s \in DOMAIN w.image : after[s].crew # before[s].crew}
    /\ w.events = [s \in Systems |-> DiffEvent(before[s], after[s])]

FitsEnrich(w, before, after) ==
    /\ w.op = "enrich"
    /\ w.system \in Systems /\ w.crew \in BOOLEAN
    /\ IsHostile(before[w.system])
    /\ after[w.system] = Hostile(before[w.system].n, w.crew)
    /\ \A s \in Systems \ {w.system} : after[s] = before[s]

FitsRepair(w, before, after) ==
    /\ w.op = "repair"
    /\ w.image = before /\ after = before

Fits(w, before, after) ==
    FitsDiff(w, before, after) \/ FitsEnrich(w, before, after) \/ FitsRepair(w, before, after)

\* A count that is stored has been in memory.
Remembered(s) ==
    IsHostile(rows[s]) =>
        \E i \in 1..Len(truth[s]) : truth[s][i].fresh = "fresh" /\ truth[s][i].n = rows[s].n

(* image[k] is memory as the ticket k was taken, at[k] how much was known   *)
(* then: the writes lead from one image to the next.                       *)

Images(image, at) ==
    /\ image \in [Nat -> [Systems -> Views]]
    /\ at \in [Nat -> [Systems -> Nat]]
    /\ image[next] = mem /\ at[next] = Versions

JobsFit(image, at) ==
    \A t \in Threads : pc[t] \in InQueue =>
        LET k == job[t].ticket
        IN  Fits(job[t], image[k], image[k + 1]) /\ job[t].version = at[k + 1]

KnownThen(image, at) ==
    \A k \in 0..next, s \in Systems :
        at[k][s] \in 1..Len(truth[s]) /\ truth[s][at[k][s]] = Knowledge(image[k][s])

Growing(image, at) ==
    \A j, k \in 0..next, s \in Systems :
        j <= k => at[j][s] <= at[k][s] /\ (image[k][s].kind = "absent" => image[j][s].kind = "absent")

\* What is shown of a system whose table row is missing or behind.
Committed(image, at) ==
    \A s \in Systems :
        /\ shown[s] \in 1..at[Applied][s]
        /\ image[Applied][s].kind = "absent" => rows[s].kind = "absent"
        /\ rows[s].kind = "absent" => proj[s].n = 0
        /\ Remembered(s)

\* As long as no failed write is yet to be made good, the rows are the image that
\* the writes have come to.
Faithful(image) ==
    Sound => rows = image[Applied] /\ \A s \in Systems : Agrees(rows[s], proj[s])

Replay(image, at) ==
    /\ Images(image, at) /\ JobsFit(image, at) /\ KnownThen(image, at)
    /\ Growing(image, at) /\ Committed(image, at) /\ Faithful(image)

Typed ==
    /\ TypeOK
    /\ truth \in [Systems -> Seq(Payloads)]
    /\ shown \in [Systems -> Nat]
    /\ DOMAIN job = Threads

IInv ==
    /\ Typed /\ Queued /\ Marked
    /\ \E image, at : Replay(image, at)

-----------------------------------------------------------------------------
(* Views, payloads and events.                                             *)

\* A view by its kind.
LEMMA ViewShape ==
    ASSUME NEW v \in Views
    PROVE  /\ v.kind \in {"absent", "zero", "lost", "hostile"}
           /\ v.n \in 0..MaxCount /\ v.crew \in BOOLEAN
           /\ v.kind = "absent" => v = Absent
           /\ v.kind = "zero" => v = Zero
           /\ v.kind = "lost" => v = Lost(v.n) /\ v.crew = FALSE
           /\ v.kind = "hostile" => v = Hostile(v.n, v.crew) /\ v.n \in 1..MaxCount
<1>1. CASE v = Absent
  BY <1>1, BoundsAssumption DEF Absent
<1>2. CASE v = Zero
  BY <1>2, BoundsAssumption DEF Zero
<1>3. ASSUME NEW n \in 0..MaxCount, v = Lost(n)
      PROVE  v.kind = "lost" /\ v.n = n /\ v.crew = FALSE
  BY <1>3 DEF Lost
<1>4. ASSUME NEW n \in 1..MaxCount, NEW crew \in BOOLEAN, v = Hostile(n, crew)
      PROVE  v.kind = "hostile" /\ v.n = n /\ v.crew = crew
  BY <1>4 DEF Hostile
<1>5. \/ v = Absent \/ v = Zero
      \/ \E n \in 0..MaxCount : v = Lost(n)
      \/ \E n \in 1..MaxCount, crew \in BOOLEAN : v = Hostile(n, crew)
  BY DEF Views, HostileViews
<1>6. ASSUME NEW n \in 1..MaxCount
      PROVE  n \in 0..MaxCount
  BY BoundsAssumption
<1>7. CASE \E n \in 0..MaxCount : v = Lost(n)
  BY <1>3, <1>7
<1>8. CASE \E n \in 1..MaxCount, crew \in BOOLEAN : v = Hostile(n, crew)
  BY <1>4, <1>6, <1>8
<1> QED
  BY <1>1, <1>2, <1>5, <1>7, <1>8

\* A view from its kind.
LEMMA ViewOf ==
    /\ Absent \in Views /\ Zero \in Views
    /\ \A n \in 0..MaxCount : Lost(n) \in Views
    /\ \A n \in 1..MaxCount, crew \in BOOLEAN : Hostile(n, crew) \in Views
    /\ \A n, crew : Hostile(n, crew).kind = "hostile" /\ Hostile(n, crew).n = n
                    /\ Hostile(n, crew).crew = crew
    /\ \A n : Lost(n).kind = "lost" /\ Lost(n).n = n
    /\ Absent.kind = "absent" /\ Zero.kind = "zero"
<1>1. Absent \in Views /\ Zero \in Views
  BY DEF Views
<1>2. \A n \in 0..MaxCount : Lost(n) \in Views
  BY DEF Views
<1>3. \A n \in 1..MaxCount, crew \in BOOLEAN : Hostile(n, crew) \in Views
  BY DEF Views, HostileViews
<1>4. \A n, crew : Hostile(n, crew).kind = "hostile" /\ Hostile(n, crew).n = n
                   /\ Hostile(n, crew).crew = crew
  BY DEF Hostile
<1>5. \A n : Lost(n).kind = "lost" /\ Lost(n).n = n
  BY DEF Lost
<1>6. Absent.kind = "absent" /\ Zero.kind = "zero"
  BY DEF Absent, Zero
<1> QED
  BY <1>1, <1>2, <1>3, <1>4, <1>5, <1>6

\* The payloads that an event can have.
LEMMA PayloadOf ==
    /\ NoPayload \in Payloads /\ ClearPayload \in Payloads
    /\ \A n \in 0..MaxCount, crew \in BOOLEAN : Unknown(n, crew) \in Payloads
    /\ \A v \in Views : Present(v) \in Payloads
    /\ \A v \in Views : Knowledge(v) \in Payloads
<1>1. 0 \in 0..MaxCount
  BY BoundsAssumption
<1>2. NoPayload \in Payloads /\ ClearPayload \in Payloads
  BY <1>1 DEF NoPayload, ClearPayload, Payloads
<1>3. ASSUME NEW n \in 0..MaxCount, NEW crew \in BOOLEAN
      PROVE  Unknown(n, crew) \in Payloads
  BY DEF Unknown, Payloads
<1>4. ASSUME NEW v \in Views
      PROVE  Present(v) \in Payloads
  BY ViewShape DEF Present, Payloads
<1>5. ASSUME NEW v \in Views
      PROVE  Knowledge(v) \in Payloads
  BY <1>1, <1>2, <1>3, <1>4 DEF Knowledge
<1> QED
  BY <1>2, <1>3, <1>4, <1>5

\* What tells the payloads apart.
LEMMA PayloadShape ==
    /\ NoPayload.fresh = "none" /\ NoPayload.n = 0
    /\ ClearPayload.fresh = "fresh" /\ ClearPayload.n = 0
    /\ \A n, crew : /\ Unknown(n, crew).fresh = "unknown" /\ Unknown(n, crew).n = n
                    /\ Visible(Unknown(n, crew)) = Unknown(0, FALSE)
    /\ \A v : /\ Present(v).fresh = "fresh" /\ Present(v).n = v.n /\ Present(v).crew = v.crew
              /\ Visible(Present(v)) = Present(v)
    /\ Visible(ClearPayload) = ClearPayload
    /\ Visible(NoPayload) = NoPayload
    /\ NoPayload # ClearPayload
    /\ \A n, crew : Unknown(n, crew) # NoPayload
    /\ \A v : Present(v) # NoPayload
BY DEF NoPayload, ClearPayload, Unknown, Present, Visible

\* An unknown state hides its count and crew.
LEMMA UnknownOf ==
    ASSUME NEW n \in 0..MaxCount, NEW crew \in BOOLEAN
    PROVE  /\ Unknown(n, crew) \in Payloads /\ Unknown(n, crew) # NoPayload
           /\ Unknown(n, crew).fresh = "unknown"
           /\ Visible(Unknown(n, crew)) = Unknown(0, FALSE)
BY PayloadOf, PayloadShape, Zenon

\* What is known of a system by the kind of its view.
LEMMA KnowledgeOf ==
    ASSUME NEW v \in Views
    PROVE  /\ v.kind = "absent" => Knowledge(v) = NoPayload
           /\ v.kind = "lost" => Knowledge(v) = Unknown(0, FALSE)
           /\ v.kind = "zero" => Knowledge(v) = ClearPayload
           /\ v.kind = "hostile" => Knowledge(v) = Present(v)
BY ViewShape DEF Knowledge

\* What an event that says what is known of a view makes of a projection.
Tells(e, a) == e # NoPayload => Visible(e) = Knowledge(a)

\* An event replaces what is projected.
LEMMA Projected ==
    ASSUME NEW p \in Payloads, NEW e \in Payloads
    PROVE  Project(p, e) \in Payloads /\ (e # NoPayload => Project(p, e) = e)
           /\ (e = NoPayload => Project(p, e) = p)
BY DEF Project

\* The event of a change: it tells what is known now; with it, the projection
\* agrees with the new view if it agreed with the old one; it is hostile only if
\* the view has changed.
LEMMA DiffTells ==
    ASSUME NEW b \in Views, NEW a \in Views, a.kind = "absent" => b.kind = "absent",
           NEW p \in Payloads
    PROVE  LET e == DiffEvent(b, a)
           IN  /\ e \in Payloads /\ Tells(e, a)
               /\ Agrees(b, p) => Agrees(a, Project(p, e))
               /\ a.kind = "absent" => e = NoPayload
               /\ a = b => e = NoPayload \/ e.n = 0
<1> DEFINE e == DiffEvent(b, a)
<1>1. CASE a.kind = "hostile" /\ a # b
  <2>1. e = Present(a)
    BY <1>1, ViewOf DEF DiffEvent, IsHostile, Sourceless
  <2> QED
    <3>1. e \in Payloads /\ e # NoPayload /\ Visible(e) = e
      BY <2>1, PayloadOf, PayloadShape, Zenon
    <3>2. Knowledge(a) = e
      BY <1>1, <2>1, KnowledgeOf
    <3> QED
      BY <1>1, <3>1, <3>2 DEF Tells, Agrees, Sourceless, Project
<1>2. CASE a.kind = "hostile" /\ a = b
  <2>1. e = NoPayload
    BY <1>2, ViewOf DEF DiffEvent, IsHostile, Sourceless
  <2> QED
    BY <1>2, <2>1, PayloadOf DEF Tells, Agrees, Sourceless, Project
<1>3. CASE a.kind = "zero"
  <2>1. a = Zero
    BY <1>3, ViewShape
  <2>2. e = ClearPayload
    BY <2>1, ViewOf DEF DiffEvent, IsHostile, Sourceless
  <2> QED
    BY <1>3, <2>2, PayloadOf, PayloadShape, KnowledgeOf DEF Tells, Agrees, Sourceless, Project
<1>4. CASE a.kind = "lost" /\ b.kind \in {"hostile", "zero"}
  <2>1. b.n \in 0..MaxCount /\ b.crew \in BOOLEAN /\ (b.kind = "zero" => b = Zero)
    BY ViewShape
  <2>2. a # Zero /\ a # b
    BY <1>4, ViewOf
  <2> DEFINE Told == e \in Payloads /\ e # NoPayload /\ Visible(e) = Unknown(0, FALSE)
                     /\ e.fresh = "unknown"
  <2>3. ASSUME b.kind = "hostile" PROVE Told
    <3>1. e = Unknown(b.n, b.crew)
      BY <1>4, <2>2, <2>3, ViewOf DEF DiffEvent, IsHostile, Sourceless
    <3>2. /\ Unknown(b.n, b.crew) \in Payloads /\ Unknown(b.n, b.crew) # NoPayload
          /\ Unknown(b.n, b.crew).fresh = "unknown"
          /\ Visible(Unknown(b.n, b.crew)) = Unknown(0, FALSE)
      BY <2>1, UnknownOf, Zenon
    <3> HIDE DEF e
    <3> QED
      BY <3>1, <3>2
  <2>4. ASSUME b.kind = "zero" PROVE Told
    <3>1. e = Unknown(0, FALSE)
      BY <1>4, <2>1, <2>2, <2>4, ViewOf DEF DiffEvent, IsHostile, Sourceless
    <3>2. 0 \in 0..MaxCount /\ FALSE \in BOOLEAN
      BY BoundsAssumption
    <3> QED
      BY <3>1, <3>2, UnknownOf, Zenon
  <2>5. Told
    BY <1>4, <2>3, <2>4
  <2> QED
    BY <1>4, <2>2, <2>5, KnowledgeOf DEF Tells, Agrees, Sourceless, Project
<1>5. CASE a.kind = "lost" /\ b.kind \in {"lost", "absent"}
  <2>1. e = NoPayload
    BY <1>5, ViewOf DEF DiffEvent, IsHostile, Sourceless
  <2> QED
    BY <1>5, <2>1, PayloadOf DEF Tells, Agrees, Sourceless, Project
<1>6. CASE a.kind = "absent"
  <2>1. b.kind = "absent"
    BY <1>6
  <2>2. e = NoPayload
    BY <1>6, <2>1, ViewOf DEF DiffEvent, IsHostile, Sourceless
  <2> QED
    BY <1>6, <2>1, <2>2, PayloadOf DEF Tells, Agrees, Sourceless, Project
<1> QED
  BY <1>1, <1>2, <1>3, <1>4, <1>5, <1>6, ViewShape

\* The event of a repair or a restart, from the projection alone.
LEMMA RepairTells ==
    ASSUME NEW a \in Views, NEW p \in Payloads, a.kind = "absent" => p.n = 0,
           NEW e \in {RestartEvent(p, a), RepairEvent(p, a)}
    PROVE  /\ e \in Payloads /\ Tells(e, a)
           /\ Agrees(a, Project(p, e))
           /\ a.kind = "absent" => e = NoPayload
<1>1. CASE a.kind = "hostile"
  <2>1. e = Present(a)
    BY <1>1, ViewOf DEF RestartEvent, RepairEvent, IsHostile, Sourceless
  <2> QED
    BY <1>1, <2>1, PayloadOf, PayloadShape, KnowledgeOf DEF Tells, Agrees, Sourceless, Project
<1>2. CASE a.kind = "zero"
  <2>1. a = Zero
    BY <1>2, ViewShape
  <2>2. e = ClearPayload
    BY <2>1, ViewOf DEF RestartEvent, RepairEvent, IsHostile, Sourceless
  <2> QED
    BY <1>2, <2>2, PayloadOf, PayloadShape, KnowledgeOf DEF Tells, Agrees, Sourceless, Project
<1>3. p.n \in 0..MaxCount /\ p.crew \in BOOLEAN
  BY DEF Payloads
<1>4. CASE a.kind = "lost"
  <2>1. a # Zero
    BY <1>4, ViewOf
  <2>2. \/ e = Unknown(p.n, p.crew)
        \/ e = Unknown(0, FALSE)
        \/ e = NoPayload /\ p.n = 0
    <3>1. CASE p.n > 0
      BY <1>4, <2>1, <3>1 DEF RestartEvent, RepairEvent, IsHostile, Sourceless
    <3>2. CASE p.n = 0
      BY <1>4, <2>1, <3>2 DEF RestartEvent, RepairEvent, IsHostile, Sourceless
    <3>3. p.n > 0 \/ p.n = 0
      BY <1>3, BoundsAssumption
    <3> QED
      BY <3>1, <3>2, <3>3, Zenon
  <2>3. 0 \in 0..MaxCount /\ FALSE \in BOOLEAN
    BY BoundsAssumption
  <2>4. CASE e = NoPayload /\ p.n = 0
    BY <1>4, <2>4, PayloadOf DEF Tells, Agrees, Sourceless, Project
  <2>5. CASE e = Unknown(p.n, p.crew) \/ e = Unknown(0, FALSE)
    <3>1. e \in Payloads /\ e # NoPayload /\ Visible(e) = Unknown(0, FALSE) /\ e.fresh = "unknown"
      BY <1>3, <2>3, <2>5, UnknownOf, Zenon
    <3> QED
      BY <1>4, <3>1, KnowledgeOf DEF Tells, Agrees, Sourceless, Project
  <2> QED
    BY <2>2, <2>4, <2>5
<1>5. CASE a.kind = "absent"
  <2>1. a # Zero /\ p.n = 0
    BY <1>5, ViewOf
  <2>2. e = NoPayload
    BY <1>5, <2>1 DEF RestartEvent, RepairEvent, IsHostile, Sourceless
  <2> QED
    BY <1>5, <2>1, <2>2, PayloadOf DEF Tells, Agrees, Sourceless, Project
<1> QED
  BY <1>1, <1>2, <1>4, <1>5, ViewShape

-----------------------------------------------------------------------------
(* What one transaction does to one system, if its write takes memory from *)
(* the view b of the system to the view a.                                 *)

\* The stored row and the event: the row is the new view, or an older hostile one
\* with the new crew; the event tells the new view or blends the two.
WellWritten(w, s, b, a) ==
    LET row == WrittenRows(w)[s]
        event == WrittenEvents(w)[s]
        p == Project(proj[s], event)
    IN  /\ row \in Views /\ event \in Payloads
        /\ a.kind = "absent" => row.kind = "absent"
        /\ row.kind = "absent" => p.n = 0
        /\ IsHostile(row) => \/ IsHostile(a) /\ row.n = a.n
                             \/ IsHostile(rows[s]) /\ row.n = rows[s].n
        /\ rows[s] = b /\ Agrees(b, proj[s]) => row = a /\ Agrees(a, p)
        /\ w.op = "repair" => row = a /\ Agrees(a, p)
        /\ \/ Tells(event, a)
           \/ /\ w.op = "enrich" /\ s = w.system /\ rows[s] # b
              /\ IsHostile(rows[s]) /\ IsHostile(a)
              /\ event = Present(Hostile(rows[s].n, a.crew))

\* What the invariant says of the system before the transaction.
Before(s, b, a) ==
    /\ rows[s] \in Views /\ proj[s] \in Payloads
    /\ b \in Views /\ a \in Views
    /\ a.kind = "absent" => b.kind = "absent"
    /\ b.kind = "absent" => rows[s].kind = "absent"
    /\ rows[s].kind = "absent" => proj[s].n = 0

\* A repair writes the view that memory has and projects it.
LEMMA RepairWrites ==
    ASSUME NEW w, NEW s \in Systems, NEW before \in [Systems -> Views], NEW after,
           FitsRepair(w, before, after), Before(s, before[s], after[s])
    PROVE  WellWritten(w, s, before[s], after[s])
<1> DEFINE row == WrittenRows(w)[s]
           event == WrittenEvents(w)[s]
           a == after[s]
<1>1. w.op = "repair" /\ w.image = before /\ after = before
  BY DEF FitsRepair
<1>2. row = a
  BY <1>1 DEF WrittenRows
<1>3. event = RepairEvent(proj[s], a)
  BY <1>1 DEF WrittenEvents
<1>4. a \in Views /\ proj[s] \in Payloads /\ (a.kind = "absent" => proj[s].n = 0)
  BY <1>1 DEF Before
<1>5. /\ event \in Payloads /\ Tells(event, a)
      /\ Agrees(a, Project(proj[s], event))
      /\ a.kind = "absent" => event = NoPayload
  BY <1>3, <1>4, RepairTells
<1>6. a.kind = "absent" => Project(proj[s], event).n = 0
  BY <1>4, <1>5 DEF Project
<1> HIDE DEF row, event, a
<1>7. IsHostile(row) => IsHostile(a) /\ row.n = a.n
  BY <1>2
<1> QED
  BY <1>1, <1>2, <1>4, <1>5, <1>6, <1>7 DEF WellWritten, row, event, a

\* An enrichment writes its crew to a hostile row.
LEMMA EnrichWrites ==
    ASSUME NEW w, NEW s \in Systems, NEW before \in [Systems -> Views], NEW after \in [Systems -> Views],
           FitsEnrich(w, before, after), Before(s, before[s], after[s]),
           rows \in [Systems -> Views]
    PROVE  WellWritten(w, s, before[s], after[s])
<1> DEFINE row == WrittenRows(w)[s]
           event == WrittenEvents(w)[s]
           a == after[s]
           b == before[s]
           v == rows[s]
<1>1. /\ w.op = "enrich" /\ w.system \in Systems /\ w.crew \in BOOLEAN
      /\ IsHostile(before[w.system])
      /\ after[w.system] = Hostile(before[w.system].n, w.crew)
      /\ \A z \in Systems \ {w.system} : after[z] = before[z]
  BY DEF FitsEnrich
<1>2. row = IF s = w.system /\ IsHostile(v) THEN [v EXCEPT !.crew = w.crew]
            ELSE IF s = w.system THEN [v EXCEPT !.crew = v.crew] ELSE v
  BY <1>1 DEF WrittenRows
<1>3. v \in Views /\ b \in Views /\ a \in Views /\ proj[s] \in Payloads
  BY DEF Before
<1>4. IsHostile(v) => [v EXCEPT !.crew = w.crew] = Hostile(v.n, w.crew)
  <2>1. IsHostile(v) => v = Hostile(v.n, v.crew)
    BY <1>3, ViewShape DEF IsHostile
  <2>2. \A n, c, d : [Hostile(n, c) EXCEPT !.crew = d] = Hostile(n, d)
    BY DEF Hostile
  <2>3. [Hostile(v.n, v.crew) EXCEPT !.crew = w.crew] = Hostile(v.n, w.crew)
    BY <2>2
  <2> HIDE DEF v
  <2> QED
    BY <2>1, <2>3
<1>5. [v EXCEPT !.crew = v.crew] = v
  <2>1. v = Absent \/ v = Zero \/ v = Lost(v.n) \/ v = Hostile(v.n, v.crew)
    BY <1>3, ViewShape
  <2> QED
    BY <2>1 DEF Absent, Zero, Lost, Hostile
<1>6. row = IF s = w.system /\ IsHostile(v) THEN Hostile(v.n, w.crew) ELSE v
  BY <1>2, <1>4, <1>5
<1>7. event = IF s = w.system THEN EnrichEvent(v, row) ELSE NoPayload
  BY <1>1 DEF WrittenEvents
<1>8. Before(s, b, a)
  OBVIOUS
<1> HIDE DEF row, event, v
<1>9. CASE s = w.system /\ IsHostile(v)
  <2>1. row = Hostile(v.n, w.crew) /\ IsHostile(row) /\ row.n = v.n
    BY <1>6, <1>9, ViewOf DEF IsHostile
  <2>2. row \in Views
    BY <1>1, <1>3, <1>9, <2>1, ViewShape, ViewOf DEF IsHostile
  <2>3. a = Hostile(b.n, w.crew) /\ IsHostile(a) /\ IsHostile(b) /\ a.crew = w.crew
    BY <1>1, <1>9, ViewOf DEF IsHostile
  <2>4. row = Hostile(v.n, a.crew)
    BY <2>1, <2>3
  <2>5. CASE row = v
    <3>1. event = NoPayload
      BY <1>7, <1>9, <2>5 DEF EnrichEvent
    <3>2. event \in Payloads /\ Tells(event, a) /\ Project(proj[s], event) = proj[s]
      BY <3>1, PayloadOf DEF Tells, Project
    <3>3. v = b => row = a
      BY <2>1, <2>3, <2>5
    <3>4. row.kind # "absent" /\ a.kind # "absent"
      BY <2>1, <2>3 DEF IsHostile
    <3> QED
      BY <1>1, <1>9, <2>1, <2>2, <2>5, <3>2, <3>3, <3>4 DEF WellWritten, row, event, v
  <2>6. CASE row # v
    <3>1. event = Present(row)
      BY <1>7, <1>9, <2>1, <2>6 DEF EnrichEvent
    <3>2. event \in Payloads /\ event # NoPayload /\ Visible(event) = event
      BY <2>2, <3>1, PayloadOf, PayloadShape, Zenon
    <3>3. v = b => row = a
      BY <2>1, <2>3
    <3>4. Knowledge(a) = Present(a)
      BY <1>3, <2>3, KnowledgeOf DEF IsHostile
    <3>5. v = b => Tells(event, a)
      BY <3>1, <3>2, <3>3, <3>4 DEF Tells
    <3>6. Project(proj[s], event) = event
      BY <3>2 DEF Project
    <3>7. v = b => Agrees(a, event)
      BY <2>3, <3>1, <3>3, <3>4 DEF Agrees, Sourceless, IsHostile
    <3>8. row.kind # "absent" /\ a.kind # "absent"
      BY <2>1, <2>3 DEF IsHostile
    <3> QED
      BY <1>1, <1>9, <2>1, <2>2, <2>3, <2>4, <3>1, <3>2, <3>3, <3>5, <3>6, <3>7, <3>8
         DEF WellWritten, row, event, v
  <2> QED
    BY <2>5, <2>6
<1>10. CASE ~(s = w.system /\ IsHostile(v))
  <2>1. row = v
    BY <1>6, <1>10
  <2>2. event = NoPayload
    BY <1>7, <1>10, <2>1 DEF EnrichEvent
  <2>3. event \in Payloads /\ Tells(event, a) /\ Project(proj[s], event) = proj[s]
    BY <2>2, PayloadOf DEF Tells, Project
  <2>4. v = b => b = a
    <3>1. ASSUME v = b PROVE s # w.system
      BY <1>1, <1>10, <3>1
    <3> QED
      BY <1>1, <3>1
  <2>5. (a.kind = "absent" => v.kind = "absent") /\ (v.kind = "absent" => proj[s].n = 0)
    BY <1>8 DEF Before, v
  <2> QED
    BY <1>1, <1>3, <2>1, <2>3, <2>4, <2>5 DEF WellWritten, row, event, v
<1> QED
  BY <1>9, <1>10

\* The write of a mutation: the rows it touched and the events of its change.
LEMMA DiffWrites ==
    ASSUME NEW w, NEW s \in Systems, NEW before \in [Systems -> Views], NEW after \in [Systems -> Views],
           FitsDiff(w, before, after), Before(s, before[s], after[s]),
           rows \in [Systems -> Views]
    PROVE  WellWritten(w, s, before[s], after[s])
<1> DEFINE row == WrittenRows(w)[s]
           event == WrittenEvents(w)[s]
           a == after[s]
           b == before[s]
           v == rows[s]
           p == Project(proj[s], event)
<1>1. /\ w.op = "diff" /\ DOMAIN w.image \subseteq Systems
      /\ \A z \in DOMAIN w.image : w.image[z] = after[z] /\ after[z].kind # "absent"
      /\ \A z \in Systems \ DOMAIN w.image : after[z] = before[z]
      /\ w.crewed = {z \in DOMAIN w.image : after[z].crew # before[z].crew}
      /\ w.events = [z \in Systems |-> DiffEvent(before[z], after[z])]
  BY DEF FitsDiff
<1>2. row = IF s \notin DOMAIN w.image THEN v
            ELSE IF s \in w.crewed THEN w.image[s]
            ELSE [w.image[s] EXCEPT !.crew = IsHostile(w.image[s]) /\ v.crew]
  BY <1>1 DEF WrittenRows
<1>3. event = DiffEvent(b, a)
  BY <1>1 DEF WrittenEvents
<1>4. /\ v \in Views /\ b \in Views /\ a \in Views /\ proj[s] \in Payloads
      /\ a.kind = "absent" => b.kind = "absent"
      /\ b.kind = "absent" => v.kind = "absent"
      /\ v.kind = "absent" => proj[s].n = 0
  BY DEF Before
<1>5. /\ event \in Payloads /\ Tells(event, a)
      /\ Agrees(b, proj[s]) => Agrees(a, p)
      /\ a.kind = "absent" => event = NoPayload
      /\ a = b => event = NoPayload \/ event.n = 0
  BY <1>3, <1>4, DiffTells
<1> HIDE DEF row, event, v
<1>6. CASE s \notin DOMAIN w.image
  <2>1. row = v /\ a = b
    BY <1>1, <1>2, <1>6
  <2>2. v.kind = "absent" => p.n = 0
    BY <1>4, <1>5, <2>1 DEF Project
  <2> QED
    BY <1>1, <1>4, <1>5, <2>1, <2>2 DEF WellWritten, row, event, v
<1>7. CASE s \in DOMAIN w.image
  <2> DEFINE c == IsHostile(a) /\ v.crew
  <2>1. w.image[s] = a /\ a.kind # "absent"
    BY <1>1, <1>7
  <2>2. v.crew \in BOOLEAN /\ a.crew \in BOOLEAN /\ c \in BOOLEAN
    BY <1>4, ViewShape, Zenon
  <2>3. row = a \/ (row = [a EXCEPT !.crew = c] /\ a.crew = b.crew)
    BY <1>1, <1>2, <1>7, <2>1
  <2>4. \/ a = Zero /\ a.kind = "zero"
        \/ a = Lost(a.n) /\ a.kind = "lost"
        \/ a = Hostile(a.n, a.crew) /\ a.kind = "hostile" /\ a.n \in 1..MaxCount
    BY <1>4, <2>1, ViewShape
  <2>5. a.kind \in {"zero", "lost"} => [a EXCEPT !.crew = c] = a
    <3>1. ASSUME a.kind \in {"zero", "lost"}
          PROVE  a.crew = FALSE /\ c = FALSE
      BY <2>4, <3>1 DEF Zero, Lost, IsHostile
    <3> QED
      BY <2>4, <3>1 DEF Zero, Lost
  <2>6. a.kind = "hostile" => [a EXCEPT !.crew = c] = Hostile(a.n, c)
    BY <2>4 DEF Hostile
  <2>7. row = a \/ (IsHostile(a) /\ row = Hostile(a.n, c) /\ a.crew = b.crew)
    BY <2>3, <2>4, <2>5, <2>6 DEF IsHostile
  <2>8. row \in Views /\ row.kind = a.kind /\ (IsHostile(a) => row.n = a.n)
    BY <1>4, <2>2, <2>4, <2>7, ViewOf DEF IsHostile
  <2>9. v = b => row = a
    <3>1. ASSUME v = b, IsHostile(a), row = Hostile(a.n, c), a.crew = b.crew
          PROVE  row = a
      <4>1. c = a.crew
        BY <2>2, <3>1
      <4>2. a = Hostile(a.n, a.crew)
        BY <2>4, <3>1 DEF IsHostile
      <4> QED
        BY <3>1, <4>1, <4>2
    <3> QED
      BY <2>7, <3>1
  <2>10. row.kind # "absent" /\ (IsHostile(row) => IsHostile(a) /\ row.n = a.n)
    BY <2>1, <2>8 DEF IsHostile
  <2> HIDE DEF c
  <2> QED
    BY <1>1, <1>5, <2>1, <2>8, <2>9, <2>10 DEF WellWritten, row, event, v
<1> QED
  BY <1>6, <1>7

-----------------------------------------------------------------------------
(* The transaction of a thread, as the invariant knows it.                 *)

\* The thread that writes holds the ticket served, and its write fits the images.
LEMMA Writing ==
    ASSUME Typed, Queued, NEW image, NEW at, Replay(image, at),
           NEW t \in Threads, pc[t] = "writing"
    PROVE  /\ serving \in Nat /\ serving + 1 \in 0..next /\ serving \in 0..next
           /\ job[t].ticket = serving /\ Applied = serving
           /\ Fits(job[t], image[serving], image[serving + 1])
           /\ job[t].version = at[serving + 1]
           /\ image[serving] \in [Systems -> Views] /\ image[serving + 1] \in [Systems -> Views]
           /\ at[serving] \in [Systems -> Nat] /\ at[serving + 1] \in [Systems -> Nat]
           /\ \A s \in Systems : /\ Before(s, image[serving][s], image[serving + 1][s])
                                 /\ WellWritten(job[t], s, image[serving][s], image[serving + 1][s])
<1>1. next \in Nat /\ serving \in Nat
  BY DEF Typed, TypeOK
<1>2. job[t].ticket = serving /\ serving \in serving..(next - 1)
  BY DEF Queued, InQueue, Holding
<1>3. serving + 1 \in 0..next /\ serving \in 0..next /\ serving <= serving + 1 /\ serving + 1 \in Nat
  BY <1>1, <1>2
<1>4. Applied = serving
  <2>1. ASSUME NEW u \in Threads, pc[u] \in Written
        PROVE  FALSE
    <3>1. job[u].ticket = serving
      BY <2>1 DEF Queued, InQueue, Holding, Written
    <3>2. u = t
      BY <1>2, <2>1, <3>1 DEF Queued, InQueue, Written
    <3> QED
      BY <2>1, <3>2 DEF Written
  <2> QED
    BY <2>1 DEF Applied
<1>5. Fits(job[t], image[serving], image[serving + 1]) /\ job[t].version = at[serving + 1]
  BY <1>2 DEF Replay, JobsFit, InQueue
<1>6. /\ image[serving] \in [Systems -> Views] /\ image[serving + 1] \in [Systems -> Views]
      /\ at[serving] \in [Systems -> Nat] /\ at[serving + 1] \in [Systems -> Nat]
  BY <1>1, <1>3 DEF Replay, Images
<1>7. ASSUME NEW s \in Systems
      PROVE  Before(s, image[serving][s], image[serving + 1][s])
  <2>1. rows[s] \in Views /\ proj[s] \in Payloads
    BY DEF Typed, TypeOK
  <2>2. image[serving + 1][s].kind = "absent" => image[serving][s].kind = "absent"
    BY <1>3 DEF Replay, Growing
  <2>3. /\ image[serving][s].kind = "absent" => rows[s].kind = "absent"
        /\ rows[s].kind = "absent" => proj[s].n = 0
    BY <1>4 DEF Replay, Committed
  <2> QED
    BY <1>6, <2>1, <2>2, <2>3 DEF Before
<1>8. ASSUME NEW s \in Systems
      PROVE  WellWritten(job[t], s, image[serving][s], image[serving + 1][s])
  <2>1. rows \in [Systems -> Views]
    BY DEF Typed, TypeOK
  <2> QED
    BY <1>5, <1>6, <1>7, <2>1, DiffWrites, EnrichWrites, RepairWrites DEF Fits
<1> QED
  BY <1>1, <1>2, <1>3, <1>4, <1>5, <1>6, <1>7, <1>8

\* What is stored and shown of a system after the transaction.
LEMMA Wrote ==
    ASSUME Typed, Queued, NEW image, NEW at, Replay(image, at),
           NEW t \in Threads, pc[t] = "writing", WriteDatabase(job[t]), UNCHANGED truth,
           NEW s \in Systems
    PROVE  LET b == image[serving][s]
               a == image[serving + 1][s]
               event == WrittenEvents(job[t])[s]
           IN  /\ rows'[s] \in Views /\ proj'[s] \in Payloads /\ shown'[s] \in Nat
               /\ shown'[s] \in 1..at[serving + 1][s]
               /\ a.kind = "absent" => rows'[s].kind = "absent"
               /\ rows'[s].kind = "absent" => proj'[s].n = 0
               /\ Remembered(s)'
               /\ rows[s] = b /\ Agrees(b, proj[s]) => rows'[s] = a /\ Agrees(a, proj'[s])
               /\ job[t].op = "repair" => rows'[s] = a /\ Agrees(a, proj'[s])
               /\ event = NoPayload => proj'[s] = proj[s] /\ shown'[s] = shown[s]
               /\ event # NoPayload => proj'[s] = event /\ shown'[s] = at[serving + 1][s]
<1> DEFINE w == job[t]
           b == image[serving][s]
           a == image[serving + 1][s]
           event == WrittenEvents(w)[s]
           k == at[serving + 1][s]
<1>1. /\ serving \in Nat /\ serving + 1 \in 0..next /\ serving \in 0..next
      /\ Applied = serving /\ w.version = at[serving + 1]
      /\ Before(s, b, a) /\ WellWritten(w, s, b, a)
  BY Writing
<1>2. /\ k \in 1..Len(truth[s]) /\ truth[s][k] = Knowledge(a)
      /\ shown[s] \in 1..at[serving][s] /\ at[serving][s] <= k
      /\ at[serving][s] \in Nat /\ k \in Nat
  <2>1. k \in 1..Len(truth[s]) /\ truth[s][k] = Knowledge(a)
    BY <1>1 DEF Replay, KnownThen
  <2>2. shown[s] \in 1..at[serving][s]
    BY <1>1 DEF Replay, Committed
  <2>3. at[serving][s] <= k
    BY <1>1 DEF Replay, Growing
  <2>4. at[serving][s] \in Nat /\ k \in Nat
    BY <1>1, Writing
  <2> QED
    BY <2>1, <2>2, <2>3, <2>4
<1>3. /\ rows' = WrittenRows(w)
      /\ proj'[s] = Project(proj[s], event)
      /\ shown'[s] = IF event = NoPayload THEN shown[s] ELSE k
  BY <1>1 DEF WriteDatabase
<1>4. shown[s] \in Nat /\ truth[s] \in Seq(Payloads)
  BY DEF Typed
<1> HIDE DEF event, w, k
<1>5. /\ rows'[s] \in Views /\ event \in Payloads
      /\ a.kind = "absent" => rows'[s].kind = "absent"
      /\ rows'[s].kind = "absent" => proj'[s].n = 0
      /\ rows[s] = b /\ Agrees(b, proj[s]) => rows'[s] = a /\ Agrees(a, proj'[s])
      /\ w.op = "repair" => rows'[s] = a /\ Agrees(a, proj'[s])
  BY <1>1, <1>3 DEF WellWritten, event
<1>6. IsHostile(rows'[s]) => \/ IsHostile(a) /\ rows'[s].n = a.n
                             \/ IsHostile(rows[s]) /\ rows'[s].n = rows[s].n
  BY <1>1, <1>3 DEF WellWritten
<1>7. proj[s] \in Payloads /\ a \in Views
  BY <1>1 DEF Before
<1>8. proj'[s] \in Payloads
  BY <1>3, <1>5, <1>7, Projected
<1>9. shown'[s] \in Nat /\ shown'[s] \in 1..k
  BY <1>2, <1>3, <1>4
<1>10. Remembered(s)'
  <2>1. CASE IsHostile(a) /\ rows'[s].n = a.n
    <3>1. truth[s][k].fresh = "fresh" /\ truth[s][k].n = a.n
      <4>1. Knowledge(a) = Present(a)
        BY <1>7, <2>1, KnowledgeOf DEF IsHostile
      <4>2. Present(a).fresh = "fresh" /\ Present(a).n = a.n
        BY DEF Present
      <4> HIDE DEF a
      <4> QED
        BY <1>2, <4>1, <4>2
    <3> QED
      BY <1>2, <2>1, <3>1 DEF Remembered
  <2>2. CASE IsHostile(rows[s]) /\ rows'[s].n = rows[s].n
    <3>1. Remembered(s)
      BY DEF Replay, Committed
    <3> QED
      BY <2>2, <3>1 DEF Remembered
  <2>3. CASE ~IsHostile(rows'[s])
    BY <2>3 DEF Remembered
  <2> QED
    BY <1>6, <2>1, <2>2, <2>3
<1>11. /\ event = NoPayload => proj'[s] = proj[s] /\ shown'[s] = shown[s]
       /\ event # NoPayload => proj'[s] = event /\ shown'[s] = k
  BY <1>3 DEF Project
<1> QED
  BY <1>5, <1>8, <1>9, <1>10, <1>11 DEF event, w, k

-----------------------------------------------------------------------------
(* The mutations of memory.                                                *)

\* The job of a mutation is what its change of memory calls for.
LEMMA DiffFits ==
    ASSUME NEW touched \in SUBSET Systems, NEW views \in [Systems -> Views],
           \A s \in touched : views[s].kind # "absent",
           \A s \in Systems \ touched : views[s] = mem[s]
    PROVE  /\ FitsDiff(DiffJob(touched, views), mem, views)
           /\ DiffJob(touched, views).ticket = next
           /\ DiffJob(touched, views).version = Versions'
           /\ DiffJob(touched, views).op = "diff"
<1> DEFINE w == DiffJob(touched, views)
<1>1. /\ w.op = "diff" /\ w.ticket = next /\ w.version = Versions'
      /\ w.image = [s \in touched |-> views[s]]
      /\ w.crewed = {s \in touched : views[s].crew # mem[s].crew}
      /\ w.events = [s \in Systems |-> DiffEvent(mem[s], views[s])]
  BY DEF DiffJob
<1>2. DOMAIN w.image = touched /\ \A s \in touched : w.image[s] = views[s]
  BY <1>1
<1> HIDE DEF w
<1>3. FitsDiff(w, mem, views)
  BY <1>1, <1>2 DEF FitsDiff
<1> QED
  BY <1>1, <1>3 DEF w

\* A new mutation of memory: memory goes to views, and write is its job.
Reserved(t, from, views, write) ==
    /\ Reserve(t, from, views, write)
    /\ write.ticket = next /\ write.version = Versions'
    /\ FitsDiff(write, mem, views) \/ FitsEnrich(write, mem, views)
    /\ \A s \in Systems : views[s].kind = "absent" => mem[s].kind = "absent"

\* An upload, an enrichment and an expiry each make one.
LEMMA Mutations ==
    ASSUME TypeOK,
           (\E t \in Uploaders : Mutate(t)) \/ (\E t \in Enrichers, s \in Systems : Enrich(t, s)) \/ Expire
    PROVE  \E t \in Threads, from \in {"idle", "expiring"}, views \in [Systems -> Views] :
               /\ \E write : Reserved(t, from, views, write)
               /\ from = "expiring" => t = Maintenance
<1> USE DEF TypeOK
<1>1. ASSUME NEW t \in Uploaders, Mutate(t)
      PROVE  \E views \in [Systems -> Views] : \E write : Reserved(t, "idle", views, write)
  <2>1. PICK touched \in SUBSET Systems : \E changed \in [touched -> Views] :
            /\ \A s \in touched : changed[s] \in NextViews(mem[s])
            /\ LET views == [s \in Systems |-> IF s \in touched THEN changed[s] ELSE mem[s]]
               IN  Reserve(t, "idle", views, DiffJob(touched, views))
    BY <1>1 DEF Mutate
  <2>0. PICK changed \in [touched -> Views] :
            /\ \A s \in touched : changed[s] \in NextViews(mem[s])
            /\ LET views == [s \in Systems |-> IF s \in touched THEN changed[s] ELSE mem[s]]
               IN  Reserve(t, "idle", views, DiffJob(touched, views))
    BY <2>1
  <2> DEFINE views == [s \in Systems |-> IF s \in touched THEN changed[s] ELSE mem[s]]
  <2>2. views \in [Systems -> Views] /\ \A s \in Systems \ touched : views[s] = mem[s]
    OBVIOUS
  <2>3. ASSUME NEW s \in touched
        PROVE  views[s].kind # "absent"
    <3>1. views[s] = changed[s]
      OBVIOUS
    <3>2. changed[s] = Zero \/ changed[s] \in HostileViews \/ (\E n : changed[s] = Lost(n))
      BY <2>0 DEF NextViews
    <3>3. changed[s].kind # "absent"
      BY <3>2, ViewOf DEF HostileViews
    <3> QED
      BY <3>1, <3>3
  <2>4. /\ FitsDiff(DiffJob(touched, views), mem, views)
        /\ DiffJob(touched, views).ticket = next
        /\ DiffJob(touched, views).version = Versions'
    BY <2>2, <2>3, DiffFits
  <2>5. Reserve(t, "idle", views, DiffJob(touched, views))
    BY <2>0
  <2>6. \A s \in Systems : views[s].kind = "absent" => mem[s].kind = "absent"
    BY <2>2, <2>3
  <2> HIDE DEF views
  <2>7. Reserved(t, "idle", views, DiffJob(touched, views))
    BY <2>4, <2>5, <2>6 DEF Reserved
  <2> QED
    BY <2>2, <2>7
<1>2. ASSUME NEW t \in Enrichers, NEW s \in Systems, Enrich(t, s)
      PROVE  \E views \in [Systems -> Views] : \E write : Reserved(t, "idle", views, write)
  <2>1. PICK crew \in BOOLEAN :
            Reserve(t, "idle", [mem EXCEPT ![s].crew = crew],
                    [op |-> "enrich", ticket |-> next, system |-> s,
                     crew |-> crew, version |-> Versions'])
    BY <1>2 DEF Enrich
  <2> DEFINE views == [mem EXCEPT ![s].crew = crew]
             v == mem[s]
             w == [op |-> "enrich", ticket |-> next, system |-> s,
                   crew |-> crew, version |-> Versions']
  <2>2. v \in Views /\ IsHostile(v)
    BY <1>2 DEF Enrich
  <2>3. v = Hostile(v.n, v.crew) /\ v.n \in 1..MaxCount
    BY <2>2, ViewShape DEF IsHostile
  <2>4. views[s] = [v EXCEPT !.crew = crew] /\ \A z \in Systems \ {s} : views[z] = mem[z]
    OBVIOUS
  <2>5. \A n, c, d : [Hostile(n, c) EXCEPT !.crew = d] = Hostile(n, d)
    BY DEF Hostile
  <2>6. [Hostile(v.n, v.crew) EXCEPT !.crew = crew] = Hostile(v.n, crew)
    BY <2>5
  <2>7. views[s] = Hostile(v.n, crew)
    <3> HIDE DEF v, views
    <3> QED
      BY <2>3, <2>4, <2>6
  <2>8. DOMAIN views = Systems /\ views = [z \in Systems |-> views[z]]
    OBVIOUS
  <2>9. views[s] \in Views /\ views[s].kind = "hostile"
    <3>1. \A n \in 1..MaxCount, c \in BOOLEAN : Hostile(n, c) \in Views /\ Hostile(n, c).kind = "hostile"
      BY ViewOf
    <3>2. v.n \in 1..MaxCount
      BY <2>3
    <3>3. Hostile(v.n, crew) \in Views /\ Hostile(v.n, crew).kind = "hostile"
      BY <3>1, <3>2, Zenon
    <3> HIDE DEF v, views
    <3> QED
      BY <2>7, <3>3
  <2> HIDE DEF views
  <2>10. views \in [Systems -> Views]
    BY <2>4, <2>8, <2>9
  <2>11. /\ w.op = "enrich" /\ w.system = s /\ w.ticket = next /\ w.version = Versions'
         /\ w.crew = crew
    OBVIOUS
  <2>12. Reserve(t, "idle", views, w)
    BY <2>1 DEF views
  <2> HIDE DEF w
  <2>13. w.crew \in BOOLEAN
    BY <2>11, Zenon
  <2>14. FitsEnrich(w, mem, views)
    BY <2>2, <2>4, <2>7, <2>11, <2>13 DEF FitsEnrich
  <2>15. \A z \in Systems : views[z].kind = "absent" => mem[z].kind = "absent"
    BY <2>4, <2>9
  <2> QED
    BY <2>10, <2>11, <2>12, <2>14, <2>15 DEF Reserved
<1>3. ASSUME Expire
      PROVE  \E views \in [Systems -> Views] : \E write : Reserved(Maintenance, "expiring", views, write)
  <2>1. PICK gone \in SUBSET {s \in Systems : mem[s].kind \in {"zero", "hostile"}} :
            LET views == [s \in Systems |-> IF s \in gone THEN Lost(mem[s].n) ELSE mem[s]]
            IN  Reserve(Maintenance, "expiring", views, DiffJob(gone, views))
    BY <1>3 DEF Expire
  <2> DEFINE views == [s \in Systems |-> IF s \in gone THEN Lost(mem[s].n) ELSE mem[s]]
  <2>2. ASSUME NEW s \in Systems
        PROVE  Lost(mem[s].n) \in Views
    BY ViewShape, ViewOf
  <2>3. gone \in SUBSET Systems
    OBVIOUS
  <2>4. views \in [Systems -> Views] /\ \A s \in Systems \ gone : views[s] = mem[s]
    BY <2>2
  <2>5. \A s \in gone : views[s].kind # "absent"
    BY <2>3, ViewOf
  <2>6. Reserve(Maintenance, "expiring", views, DiffJob(gone, views))
    BY <2>1
  <2> HIDE DEF views
  <2>7. /\ FitsDiff(DiffJob(gone, views), mem, views)
        /\ DiffJob(gone, views).ticket = next
        /\ DiffJob(gone, views).version = Versions'
    BY <2>3, <2>4, <2>5, DiffFits
  <2>8. \A s \in Systems : views[s].kind = "absent" => mem[s].kind = "absent"
    BY <2>4, <2>5
  <2> QED
    BY <2>4, <2>6, <2>7, <2>8 DEF Reserved
<1>4. \A t \in Uploaders \cup Enrichers : t \in Threads
  BY DEF Threads
<1>5. Maintenance \in Threads
  BY DEF Threads
<1> QED
  <2>1. CASE \E t \in Uploaders : Mutate(t)
    BY <1>1, <1>4, <2>1, Zenon
  <2>2. CASE \E t \in Enrichers, s \in Systems : Enrich(t, s)
    BY <1>2, <1>4, <2>2, Zenon
  <2>3. CASE Expire
    BY <1>3, <1>5, <2>3, Zenon
  <2> QED
    BY <2>1, <2>2, <2>3

-----------------------------------------------------------------------------
(* Types, the queue and the marks are preserved.                           *)

\* A history keeps what it has and ends with what is known of the view.
LEMMA LearnedOf ==
    ASSUME NEW h \in Seq(Payloads), Len(h) >= 1, NEW v \in Views
    PROVE  LET l == Learned(h, v)
           IN  /\ l \in Seq(Payloads) /\ Len(l) \in Nat /\ Len(h) \in Nat
               /\ Len(l) >= Len(h)
               /\ \A i \in 1..Len(h) : l[i] = h[i]
               /\ l[Len(l)] = Knowledge(v)
               /\ l = h \/ l = Append(h, Knowledge(v))
<1>1. Knowledge(v) \in Payloads
  BY PayloadOf
<1>2. Len(h) \in Nat
  BY LenProperties
<1>3. CASE Knowledge(v) = h[Len(h)]
  BY <1>2, <1>3 DEF Learned
<1>4. CASE Knowledge(v) # h[Len(h)]
  <2>1. Learned(h, v) = Append(h, Knowledge(v))
    BY <1>4 DEF Learned
  <2> QED
    BY <1>1, <1>2, <2>1, AppendProperties
<1> QED
  BY <1>3, <1>4

\* Every history has something in it.
LEMMA Begun ==
    ASSUME Typed, NEW image, NEW at, Replay(image, at), NEW s \in Systems
    PROVE  /\ truth[s] \in Seq(Payloads) /\ Len(truth[s]) \in Nat /\ Len(truth[s]) >= 1
           /\ rows[s] \in Views /\ mem[s] \in Views /\ proj[s] \in Payloads
           /\ rows[s].kind = "absent" => proj[s].n = 0
<1>1. truth[s] \in Seq(Payloads) /\ Len(truth[s]) \in Nat
  BY LenProperties DEF Typed
<1>2. next \in Nat /\ rows[s] \in Views /\ mem[s] \in Views /\ proj[s] \in Payloads
  BY DEF Typed, TypeOK
<1>3. at[next][s] \in 1..Len(truth[s])
  BY <1>2 DEF Replay, KnownThen
<1>4. rows[s].kind = "absent" => proj[s].n = 0
  BY DEF Replay, Committed
<1> QED
  BY <1>1, <1>2, <1>3, <1>4

\* The steps that leave memory, database and tickets alone, or only hand on a turn.
Quiet ==
    \/ \E t \in Threads : Begin(t) \/ Mark(t) \/ Finish(t)
    \/ ReadGeneration \/ Complete \/ NothingExpired

Mutation ==
    (\E t \in Uploaders : Mutate(t)) \/ (\E t \in Enrichers, s \in Systems : Enrich(t, s)) \/ Expire

\* Every step is one of these kinds.
LEMMA NextCases ==
    ASSUME Next
    PROVE  \/ Mutation \/ Quiet \/ CopyMemory \/ Restart
           \/ \E t \in Threads : Commit(t) \/ Fail(t)
BY Zenon DEF Next, Write, Mutation, Quiet

\* A restart starts from the rows.
LEMMA Restarted ==
    ASSUME Typed, NEW image, NEW at, Replay(image, at), Restart, NEW s \in Systems
    PROVE  LET e == RestartEvent(proj[s], rows[s])
           IN  /\ mem'[s] = rows[s] /\ rows'[s] = rows[s]
               /\ truth'[s] = Learned(truth[s], rows[s]) /\ truth'[s] \in Seq(Payloads)
               /\ Len(truth'[s]) \in Nat /\ Len(truth'[s]) >= Len(truth[s]) /\ Len(truth[s]) >= 1
               /\ \A i \in 1..Len(truth[s]) : truth'[s][i] = truth[s][i]
               /\ truth'[s][Len(truth'[s])] = Knowledge(rows[s])
               /\ e \in Payloads /\ Tells(e, rows[s])
               /\ proj'[s] = Project(proj[s], e) /\ proj'[s] \in Payloads
               /\ Agrees(rows[s], proj'[s])
               /\ rows[s].kind = "absent" => e = NoPayload
               /\ shown'[s] = IF e = NoPayload THEN shown[s] ELSE Len(truth'[s])
               /\ shown'[s] \in Nat
<1> DEFINE e == RestartEvent(proj[s], rows[s])
<1>1. /\ mem'[s] = rows[s] /\ rows'[s] = rows[s]
      /\ truth'[s] = Learned(truth[s], rows[s])
      /\ proj'[s] = Project(proj[s], e)
      /\ shown'[s] = IF e = NoPayload THEN shown[s] ELSE Len(truth'[s])
  BY DEF Restart
<1>2. /\ truth[s] \in Seq(Payloads) /\ Len(truth[s]) >= 1 /\ rows[s] \in Views /\ proj[s] \in Payloads
      /\ rows[s].kind = "absent" => proj[s].n = 0
  BY Begun
<1>3. /\ truth'[s] \in Seq(Payloads)
      /\ Len(truth'[s]) \in Nat /\ Len(truth'[s]) >= Len(truth[s])
      /\ \A i \in 1..Len(truth[s]) : truth'[s][i] = truth[s][i]
      /\ truth'[s][Len(truth'[s])] = Knowledge(rows[s])
  BY <1>1, <1>2, LearnedOf
<1>4. /\ e \in Payloads /\ Tells(e, rows[s])
      /\ Agrees(rows[s], Project(proj[s], e))
      /\ rows[s].kind = "absent" => e = NoPayload
  BY <1>2, RepairTells
<1> HIDE DEF e
<1>5. proj'[s] \in Payloads
  BY <1>1, <1>2, <1>4, Projected
<1>6. shown[s] \in Nat
  BY DEF Typed
<1> QED
  BY <1>1, <1>2, <1>3, <1>4, <1>5, <1>6 DEF e

\* Types are kept.
LEMMA TypedStep ==
    ASSUME Typed, Queued, NEW image, NEW at, Replay(image, at), Next
    PROVE  Typed'
<1> DEFINE Places == {"idle", "waiting", "writing", "marking", "abandoning", "finishing",
                      "completing", "copying", "expiring"}
<1>1. /\ mem \in [Systems -> Views] /\ rows \in [Systems -> Views] /\ proj \in [Systems -> Payloads]
      /\ next \in Nat /\ serving \in Nat /\ generation \in Nat /\ completed \in Nat
      /\ repairing \in Nat /\ mutations \in Nat /\ failures \in Nat /\ crashes \in Nat
      /\ pc \in [Threads -> Places] /\ DOMAIN job = Threads
      /\ truth \in [Systems -> Seq(Payloads)] /\ shown \in [Systems -> Nat]
  BY DEF Typed, TypeOK
<1>2. Maintenance \in Threads
  BY DEF Threads
<1>3. CASE Mutation
  <2>1. PICK t \in Threads, from \in {"idle", "expiring"}, views \in [Systems -> Views] :
            \E write : Reserved(t, from, views, write)
    BY <1>3, Mutations DEF Mutation, Typed
  <2>2. PICK write : Reserved(t, from, views, write)
    BY <2>1
  <2>3. Reserve(t, from, views, write)
    BY <2>2 DEF Reserved
  <2>4. \A s \in Systems : Learned(truth[s], views[s]) \in Seq(Payloads)
    BY <1>1, LearnedOf, Begun
  <2>5. truth' \in [Systems -> Seq(Payloads)]
    BY <2>3, <2>4 DEF Reserve
  <2>6. mem' = views /\ pc' \in [Threads -> Places] /\ DOMAIN job' = Threads
    BY <1>1, <2>3 DEF Reserve, Transition
  <2>7. next' \in Nat /\ mutations' \in Nat
    BY <1>1, <2>3 DEF Reserve
  <2>8. UNCHANGED <<rows, proj, shown, serving, generation, completed, repairing, failures, crashes>>
    BY <2>3 DEF Reserve, database, repair
  <2> QED
    BY <1>1, <2>5, <2>6, <2>7, <2>8 DEF Typed, TypeOK
<1>4. CASE Quiet
  <2>1. UNCHANGED <<mem, truth, mutations, rows, proj, shown, next, failures, crashes>>
    BY <1>4 DEF Quiet, Begin, Mark, Finish, ReadGeneration, Complete, NothingExpired,
       memory, database, tickets, repair
  <2>2. pc' \in [Threads -> Places] /\ DOMAIN job' = Threads
    BY <1>1, <1>2, <1>4 DEF Quiet, Begin, Mark, Finish, ReadGeneration, Complete, NothingExpired,
       Transition
  <2>3. generation' \in Nat /\ completed' \in Nat /\ repairing' \in Nat
    BY <1>1, <1>4 DEF Quiet, Begin, Mark, Finish, ReadGeneration, Complete, NothingExpired, repair
  <2>4. serving' \in Nat
    <3>1. ASSUME NEW t \in Threads, Finish(t)
          PROVE  serving' \in Nat
      <4>1. pc[t] \in InQueue
        BY <3>1 DEF Finish, Transition, InQueue
      <4>2. job[t].ticket \in serving..(next - 1)
        BY <4>1 DEF Queued
      <4> QED
        BY <1>1, <3>1, <4>2 DEF Finish
    <3> QED
      BY <1>1, <1>4, <3>1 DEF Quiet, Begin, Mark, ReadGeneration, Complete, NothingExpired, tickets
  <2> QED
    BY <1>1, <2>1, <2>2, <2>3, <2>4 DEF Typed, TypeOK
<1>5. CASE CopyMemory
  <2>1. pc' \in [Threads -> Places] /\ DOMAIN job' = Threads /\ next' \in Nat
    BY <1>1, <1>2, <1>5 DEF CopyMemory, Transition
  <2>2. UNCHANGED <<memory, database, serving, repair, failures, crashes>>
    BY <1>5 DEF CopyMemory
  <2> QED
    BY <1>1, <2>1, <2>2 DEF Typed, TypeOK, memory, database, repair
<1>6. CASE Restart
  <2>1. \A s \in Systems : /\ truth'[s] \in Seq(Payloads)
                           /\ proj'[s] \in Payloads /\ shown'[s] \in Nat
    BY <1>6, Restarted
  <2>2. truth' \in [Systems -> Seq(Payloads)]
    BY <1>6, <2>1 DEF Restart
  <2>3. proj' \in [Systems -> Payloads] /\ shown' \in [Systems -> Nat]
    BY <1>6, <2>1 DEF Restart
  <2>4. mem' = rows /\ rows' = rows /\ pc' \in [Threads -> Places] /\ DOMAIN job' = Threads
    BY <1>6 DEF Restart
  <2>5. /\ next' \in Nat /\ serving' \in Nat /\ generation' \in Nat /\ completed' \in Nat
        /\ repairing' \in Nat /\ mutations' \in Nat /\ failures' \in Nat /\ crashes' \in Nat
    BY <1>1, <1>6 DEF Restart
  <2> QED
    BY <1>1, <2>2, <2>3, <2>4, <2>5 DEF Typed, TypeOK
<1>7. ASSUME NEW t \in Threads, Commit(t) \/ Fail(t)
      PROVE  Typed'
  <2>1. pc[t] = "writing" /\ pc' \in [Threads -> Places]
    BY <1>1, <1>7 DEF Commit, Fail, Transition
  <2>2. UNCHANGED <<mem, truth, mutations, next, serving, generation, completed, repairing, job, crashes>>
    BY <1>7 DEF Commit, Fail, memory, tickets, repair
  <2>3. failures' \in Nat
    BY <1>1, <1>7 DEF Commit, Fail
  <2>4. WriteDatabase(job[t]) \/ UNCHANGED <<rows, proj, shown>>
    BY <1>7 DEF Commit, Fail, database
  <2>5. CASE WriteDatabase(job[t])
    <3>1. \A s \in Systems : rows'[s] \in Views /\ proj'[s] \in Payloads /\ shown'[s] \in Nat
      BY <2>1, <2>2, <2>5, Wrote
    <3>2. /\ proj' = [s \in Systems |-> proj'[s]] /\ shown' = [s \in Systems |-> shown'[s]]
      BY <2>5 DEF WriteDatabase
    <3>3. rows' = WrittenRows(job[t])
      BY <2>5 DEF WriteDatabase
    <3>4. rows' = [s \in Systems |-> rows'[s]]
      <4>1. /\ Fits(job[t], image[serving], image[serving + 1])
            /\ image[serving] \in [Systems -> Views]
        BY <2>1, Writing
      <4> QED
        BY <1>1, <3>3, <4>1 DEF Fits, FitsDiff, FitsEnrich, FitsRepair, WrittenRows
    <3>5. rows' \in [Systems -> Views]
      BY <3>1, <3>4
    <3>6. proj' \in [Systems -> Payloads] /\ shown' \in [Systems -> Nat]
      BY <3>1, <3>2
    <3> QED
      BY <1>1, <2>1, <2>2, <2>3, <3>5, <3>6 DEF Typed, TypeOK
  <2>6. CASE UNCHANGED <<rows, proj, shown>>
    BY <1>1, <2>1, <2>2, <2>3, <2>6 DEF Typed, TypeOK
  <2> QED
    BY <2>4, <2>5, <2>6
<1> QED
  BY <1>3, <1>4, <1>5, <1>6, <1>7, NextCases

\* The queue is handed on.
LEMMA QueuedStep ==
    ASSUME Typed, Queued, Next
    PROVE  Queued'
<1>1. next \in Nat /\ serving \in Nat /\ DOMAIN pc = Threads /\ DOMAIN job = Threads /\ serving <= next
  BY DEF Typed, TypeOK, Queued
<1>2. /\ \A t \in Threads : pc[t] \in InQueue =>
             /\ job[t].ticket \in serving..(next - 1)
             /\ pc[t] \in Holding => job[t].ticket = serving
      /\ \A t, u \in Threads : pc[t] \in InQueue /\ pc[u] \in InQueue
                               /\ job[t].ticket = job[u].ticket => t = u
      /\ \A k \in serving..(next - 1) : \E t \in Threads : pc[t] \in InQueue /\ job[t].ticket = k
  BY DEF Queued
\* A thread takes the next ticket.
<1>3. ASSUME NEW t \in Threads, pc' = [pc EXCEPT ![t] = "waiting"],
             pc[t] \notin InQueue, NEW w, job' = [job EXCEPT ![t] = w], w.ticket = next,
             next' = next + 1, serving' = serving
      PROVE  Queued'
  <2>1. pc'[t] = "waiting" /\ job'[t].ticket = next
    BY <1>1, <1>3
  <2>2. \A u \in Threads \ {t} : pc'[u] = pc[u] /\ job'[u] = job[u]
    BY <1>1, <1>3
  <2>3. ASSUME NEW u \in Threads, pc'[u] \in InQueue
        PROVE  /\ job'[u].ticket \in serving'..(next' - 1)
               /\ pc'[u] \in Holding => job'[u].ticket = serving'
    BY <1>1, <1>2, <1>3, <2>1, <2>2, <2>3 DEF InQueue, Holding
  <2>4. ASSUME NEW u \in Threads, NEW v \in Threads, pc'[u] \in InQueue, pc'[v] \in InQueue,
               job'[u].ticket = job'[v].ticket
        PROVE  u = v
    <3>1. \A z \in Threads \ {t} : pc'[z] \in InQueue => job'[z].ticket < next
      BY <1>1, <1>2, <2>2
    <3> QED
      BY <1>1, <1>2, <2>1, <2>2, <2>4, <3>1
  <2>5. ASSUME NEW k \in serving'..(next' - 1)
        PROVE  \E u \in Threads : pc'[u] \in InQueue /\ job'[u].ticket = k
    <3>1. CASE k = next
      BY <2>1, <3>1 DEF InQueue
    <3>2. CASE k # next
      <4>1. k \in serving..(next - 1)
        BY <1>1, <1>3, <3>2
      <4>2. PICK u \in Threads : pc[u] \in InQueue /\ job[u].ticket = k
        BY <1>2, <4>1
      <4>3. CASE u = t
        BY <1>3, <4>2, <4>3
      <4> QED
        BY <2>2, <4>2, <4>3
    <3> QED
      BY <3>1, <3>2
  <2> QED
    BY <1>1, <1>3, <2>3, <2>4, <2>5 DEF Queued
\* A thread moves on in the queue or stays out of it.
<1>4. ASSUME NEW t \in Threads, NEW to, pc' = [pc EXCEPT ![t] = to], UNCHANGED <<next, serving, job>>,
             to \in InQueue <=> pc[t] \in InQueue,
             to \in Holding => pc[t] \in Holding \/ job[t].ticket = serving
      PROVE  Queued'
  <2>1. pc'[t] = to /\ \A u \in Threads \ {t} : pc'[u] = pc[u]
    BY <1>1, <1>4
  <2>2. \A u \in Threads : pc'[u] \in InQueue <=> pc[u] \in InQueue
    BY <1>4, <2>1
  <2>3. \A u \in Threads : pc'[u] \in Holding => pc[u] \in Holding \/ job[u].ticket = serving
    BY <1>4, <2>1
  <2> QED
    BY <1>1, <1>2, <1>4, <2>2, <2>3 DEF Queued
<1>5. CASE Mutation
  <2>1. PICK t \in Threads, from \in {"idle", "expiring"}, views \in [Systems -> Views] :
            \E write : Reserved(t, from, views, write)
    BY <1>5, Mutations DEF Mutation, Typed
  <2>2. PICK write : Reserved(t, from, views, write)
    BY <2>1
  <2> QED
    BY <1>3, <2>2 DEF Reserved, Reserve, Transition, InQueue
<1>6. CASE CopyMemory
  <2>1. Maintenance \in Threads
    BY DEF Threads
  <2> DEFINE w == [op |-> "repair", ticket |-> next, image |-> mem, version |-> Versions]
  <2>2. /\ pc' = [pc EXCEPT ![Maintenance] = "waiting"] /\ job' = [job EXCEPT ![Maintenance] = w]
        /\ next' = next + 1 /\ serving' = serving /\ pc[Maintenance] \notin InQueue
    BY <1>6 DEF CopyMemory, Transition, InQueue
  <2>3. w.ticket = next
    OBVIOUS
  <2> HIDE DEF w
  <2> QED
    BY <1>3, <2>1, <2>2, <2>3
<1>7. CASE \E t \in Threads : Commit(t) \/ Fail(t)
  <2>1. PICK t \in Threads : Commit(t) \/ Fail(t)
    BY <1>7
  <2>2. pc[t] = "writing" /\ UNCHANGED <<next, serving, job>>
    BY <2>1 DEF Commit, Fail, Transition, tickets
  <2>3. PICK to \in Written : pc' = [pc EXCEPT ![t] = to]
    BY <2>1 DEF Commit, Fail, Transition, Written
  <2> QED
    BY <1>4, <2>2, <2>3 DEF InQueue, Holding, Written
<1>8. CASE Quiet
  <2>1. ASSUME NEW t \in Threads, Begin(t)
        PROVE  Queued'
    <3>1. /\ pc[t] = "waiting" /\ pc' = [pc EXCEPT ![t] = "writing"]
          /\ job[t].ticket = serving /\ UNCHANGED <<next, serving, job>>
      BY <2>1 DEF Begin, Transition, tickets
    <3> QED
      BY <1>4, <3>1 DEF InQueue
  <2>2. ASSUME NEW t \in Threads, Mark(t)
        PROVE  Queued'
    <3>1. /\ pc[t] = "marking" /\ pc' = [pc EXCEPT ![t] = "finishing"]
          /\ UNCHANGED <<next, serving, job>>
      BY <2>2 DEF Mark, Transition, tickets
    <3> QED
      BY <1>4, <3>1 DEF InQueue, Holding
  <2>3. CASE ReadGeneration \/ Complete \/ NothingExpired
    <3>1. Maintenance \in Threads /\ UNCHANGED <<next, serving, job>>
      BY <2>3 DEF ReadGeneration, Complete, NothingExpired, tickets, Threads
    <3>2. PICK to \in {"idle", "expiring", "copying"} :
              pc' = [pc EXCEPT ![Maintenance] = to] /\ pc[Maintenance] \notin InQueue
      BY <2>3 DEF ReadGeneration, Complete, NothingExpired, Transition, InQueue
    <3> QED
      BY <1>4, <3>1, <3>2 DEF InQueue, Holding
  <2>4. ASSUME NEW t \in Threads, Finish(t)
        PROVE  Queued'
    <3>1. /\ pc[t] \in {"finishing", "abandoning"} /\ pc'[t] \in {"idle", "completing"}
          /\ \A u \in Threads \ {t} : pc'[u] = pc[u] /\ job'[u] = job[u]
          /\ serving' = IF serving <= job[t].ticket THEN job[t].ticket + 1 ELSE serving
          /\ next' = next
      BY <1>1, <2>4 DEF Finish, Transition
    <3>2. job[t].ticket = serving /\ serving' = serving + 1 /\ serving + 1 <= next
      BY <1>1, <1>2, <3>1 DEF InQueue, Holding
    <3>3. ASSUME NEW u \in Threads, pc'[u] \in InQueue
          PROVE  /\ u # t /\ pc[u] \in InQueue /\ job'[u] = job[u]
                 /\ job[u].ticket # serving /\ job[u].ticket \in serving..(next - 1)
                 /\ pc[u] \notin Holding
      BY <1>2, <3>1, <3>2, <3>3 DEF InQueue, Holding
    <3>4. ASSUME NEW u \in Threads, pc'[u] \in InQueue
          PROVE  /\ job'[u].ticket \in serving'..(next' - 1)
                 /\ pc'[u] \notin Holding
      BY <1>1, <3>1, <3>2, <3>3, <3>4
    <3>5. ASSUME NEW u \in Threads, NEW v \in Threads, pc'[u] \in InQueue, pc'[v] \in InQueue,
                 job'[u].ticket = job'[v].ticket
          PROVE  u = v
      BY <1>2, <3>3, <3>5
    <3>6. ASSUME NEW k \in serving'..(next' - 1)
          PROVE  \E u \in Threads : pc'[u] \in InQueue /\ job'[u].ticket = k
      <4>1. k \in serving..(next - 1) /\ k # serving
        BY <1>1, <3>1, <3>2
      <4>2. PICK u \in Threads : pc[u] \in InQueue /\ job[u].ticket = k
        BY <1>2, <4>1
      <4> QED
        BY <3>1, <3>2, <4>1, <4>2
    <3> QED
      BY <3>1, <3>2, <3>4, <3>5, <3>6 DEF Queued
  <2> QED
    BY <1>8, <2>1, <2>2, <2>3, <2>4 DEF Quiet
<1>9. CASE Restart
  <2>1. next' = 0 /\ serving' = 0 /\ \A t \in Threads : pc'[t] = "idle"
    BY <1>9 DEF Restart
  <2> QED
    BY <2>1 DEF Queued, InQueue
<1> QED
  BY <1>5, <1>6, <1>7, <1>8, <1>9, NextCases

\* Marks are read, repaired and made good in turn.
LEMMA MarkedStep ==
    ASSUME Typed, Marked, Next
    PROVE  Marked'
<1>1. /\ generation \in Nat /\ completed \in Nat /\ repairing \in Nat
      /\ DOMAIN pc = Threads /\ DOMAIN job = Threads
  BY DEF Typed, TypeOK
<1>2. /\ completed <= generation /\ repairing <= generation
      /\ RepairUnderWay => completed < repairing
      /\ \A t \in Threads : pc[t] \in {"copying", "completing"} => t = Maintenance
      /\ \A t \in Threads : pc[t] \in InQueue /\ job[t].op = "repair" => t = Maintenance
      /\ \A t \in Threads : pc[t] = "abandoning" => job[t].op = "repair"
      /\ \A t \in Threads : pc[t] = "marking" => job[t].op # "repair"
  BY DEF Marked
<1>3. Maintenance \in Threads
  BY DEF Threads
<1>4. CASE Mutation
  <2>1. PICK t \in Threads, from \in {"idle", "expiring"}, views \in [Systems -> Views] :
            \E write : Reserved(t, from, views, write)
    BY <1>4, Mutations DEF Mutation, Typed
  <2>2. PICK write : Reserved(t, from, views, write)
    BY <2>1
  <2>3. /\ pc'[t] = "waiting" /\ job'[t] = write /\ UNCHANGED <<generation, completed, repairing>>
        /\ \A u \in Threads \ {t} : pc'[u] = pc[u] /\ job'[u] = job[u]
    BY <1>1, <2>2 DEF Reserved, Reserve, Transition, repair
  <2>4. write.op # "repair"
    BY <2>2 DEF Reserved, FitsDiff, FitsEnrich
  <2>5. RepairUnderWay' => RepairUnderWay
    BY <1>3, <2>3, <2>4 DEF RepairUnderWay
  <2> QED
    BY <1>2, <2>3, <2>4, <2>5 DEF Marked
<1>5. CASE CopyMemory
  <2>1. /\ pc[Maintenance] = "copying" /\ pc'[Maintenance] = "waiting"
        /\ job'[Maintenance].op = "repair" /\ UNCHANGED <<generation, completed, repairing>>
        /\ \A u \in Threads \ {Maintenance} : pc'[u] = pc[u] /\ job'[u] = job[u]
    BY <1>1, <1>3, <1>5 DEF CopyMemory, Transition, repair
  <2>2. RepairUnderWay
    BY <2>1 DEF RepairUnderWay
  <2> QED
    BY <1>2, <2>1, <2>2 DEF Marked, InQueue
<1>6. ASSUME NEW t \in Threads, Commit(t) \/ Fail(t)
      PROVE  Marked'
  <2>1. /\ pc[t] = "writing" /\ UNCHANGED <<generation, completed, repairing, job>>
        /\ \A u \in Threads \ {t} : pc'[u] = pc[u]
        /\ \/ pc'[t] = "finishing"
           \/ pc'[t] = IF job[t].op = "repair" THEN "abandoning" ELSE "marking"
    BY <1>1, <1>6 DEF Commit, Fail, Transition, repair
  <2>2. RepairUnderWay' => RepairUnderWay
    BY <1>3, <2>1 DEF RepairUnderWay, InQueue
  <2> QED
    BY <1>2, <2>1, <2>2 DEF Marked, InQueue
<1>7. ASSUME NEW t \in Threads, Begin(t)
      PROVE  Marked'
  <2>1. /\ pc[t] = "waiting" /\ UNCHANGED <<generation, completed, repairing, job>>
        /\ \A u \in Threads \ {t} : pc'[u] = pc[u]
        /\ pc'[t] = "writing"
    BY <1>1, <1>7 DEF Begin, Transition, repair
  <2>2. RepairUnderWay' => RepairUnderWay
    BY <1>3, <2>1 DEF RepairUnderWay, InQueue
  <2> QED
    BY <1>2, <2>1, <2>2 DEF Marked, InQueue
<1>8. ASSUME NEW t \in Threads, Mark(t)
      PROVE  Marked'
  <2>1. /\ pc[t] = "marking" /\ UNCHANGED <<completed, repairing, job>>
        /\ generation' = generation + 1
        /\ \A u \in Threads \ {t} : pc'[u] = pc[u]
        /\ pc'[t] = "finishing"
    BY <1>1, <1>8 DEF Mark, Transition
  <2>2. RepairUnderWay' => RepairUnderWay
    BY <1>3, <2>1 DEF RepairUnderWay, InQueue
  <2>3. completed <= generation + 1 /\ repairing <= generation + 1
    BY <1>1, <1>2
  <2> QED
    BY <1>2, <2>1, <2>2, <2>3 DEF Marked, InQueue
<1>9. ASSUME NEW t \in Threads, Finish(t)
      PROVE  Marked'
  <2>1. /\ pc[t] \in {"finishing", "abandoning"} /\ UNCHANGED <<generation, completed, repairing>>
        /\ \A u \in Threads \ {t} : pc'[u] = pc[u] /\ job'[u] = job[u]
        /\ \/ pc'[t] = "idle"
           \/ pc'[t] = "completing" /\ job[t].op = "repair" /\ pc[t] = "finishing"
    BY <1>1, <1>9 DEF Finish, Transition, repair
  <2>2. RepairUnderWay' => RepairUnderWay
    BY <1>3, <2>1 DEF RepairUnderWay, InQueue
  <2>3. pc'[t] = "completing" => t = Maintenance
    BY <1>2, <2>1 DEF InQueue
  <2> QED
    BY <1>2, <2>1, <2>2, <2>3 DEF Marked, InQueue
<1>10. CASE ReadGeneration
  <2>1. /\ pc'[Maintenance] = IF generation = completed THEN "expiring" ELSE "copying"
        /\ repairing' = generation /\ UNCHANGED <<generation, completed, job>>
        /\ \A u \in Threads \ {Maintenance} : pc'[u] = pc[u]
    BY <1>1, <1>3, <1>10 DEF ReadGeneration, Transition
  <2>2. RepairUnderWay' => completed < generation
    BY <1>1, <1>2, <2>1 DEF RepairUnderWay, InQueue
  <2>3. generation <= generation
    BY <1>1
  <2> QED
    BY <1>2, <2>1, <2>2, <2>3 DEF Marked, InQueue
<1>11. CASE Complete
  <2>1. /\ pc[Maintenance] = "completing" /\ pc'[Maintenance] = "expiring"
        /\ completed' = repairing /\ UNCHANGED <<generation, repairing, job>>
        /\ \A u \in Threads \ {Maintenance} : pc'[u] = pc[u]
    BY <1>1, <1>3, <1>11 DEF Complete, Transition
  <2>2. ~RepairUnderWay'
    BY <2>1 DEF RepairUnderWay, InQueue
  <2> QED
    BY <1>2, <2>1, <2>2 DEF Marked, InQueue
<1>12. CASE NothingExpired
  <2>1. /\ pc'[Maintenance] = "idle"
        /\ UNCHANGED <<generation, completed, repairing, job>>
        /\ \A u \in Threads \ {Maintenance} : pc'[u] = pc[u]
    BY <1>1, <1>3, <1>12 DEF NothingExpired, Transition, repair
  <2>2. ~RepairUnderWay'
    BY <2>1 DEF RepairUnderWay, InQueue
  <2> QED
    BY <1>2, <2>1, <2>2 DEF Marked, InQueue
<1>13. CASE Restart
  <2>1. /\ generation' = 0 /\ completed' = 0 /\ repairing' = 0
        /\ \A t \in Threads : pc'[t] = "idle"
    BY <1>13 DEF Restart
  <2>2. ~RepairUnderWay'
    BY <1>3, <2>1 DEF RepairUnderWay, InQueue
  <2> QED
    BY <2>1, <2>2 DEF Marked, InQueue
<1> QED
  BY <1>4, <1>5, <1>6, <1>7, <1>8, <1>9, <1>10, <1>11, <1>12, <1>13, NextCases DEF Quiet

-----------------------------------------------------------------------------
(* The images go on to explain what is stored and shown.                   *)

\* Steps that only move threads about.
LEMMA ReplayKept ==
    ASSUME Typed, NEW image, NEW at, Replay(image, at),
           UNCHANGED <<mem, truth, rows, proj, shown, next>>,
           Applied' = Applied, Sound' => Sound,
           \A t \in Threads : pc'[t] \in InQueue => pc[t] \in InQueue /\ job'[t] = job[t]
    PROVE  Replay(image, at)'
<1>1. Images(image, at)'
  BY DEF Replay, Images, Versions
<1>2. JobsFit(image, at)'
  <2>1. JobsFit(image, at)
    BY DEF Replay
  <2>2. ASSUME NEW t \in Threads, pc'[t] \in InQueue
        PROVE  LET k == job'[t].ticket
               IN  Fits(job'[t], image[k], image[k + 1]) /\ job'[t].version = at[k + 1]
    BY <2>1, <2>2 DEF JobsFit
  <2>3. \A w, b, a : Fits(w, b, a)' <=> Fits(w, b, a)
    BY DEF Fits, FitsDiff, FitsEnrich, FitsRepair
  <2> QED
    BY <2>2 DEF JobsFit
<1>3. KnownThen(image, at)'
  BY DEF Replay, KnownThen
<1>4. Growing(image, at)'
  BY DEF Replay, Growing
<1>5. Committed(image, at)'
  BY DEF Replay, Committed, Remembered
<1>6. Faithful(image)'
  BY DEF Replay, Faithful
<1> QED
  BY <1>1, <1>2, <1>3, <1>4, <1>5, <1>6 DEF Replay

\* A ticket is taken for a write that leads on from what memory was.
LEMMA ReplayGrown ==
    ASSUME Typed, Queued, NEW image, NEW at, Replay(image, at),
           NEW image2, NEW at2,
           image2 = [image EXCEPT ![next + 1] = mem'], at2 = [at EXCEPT ![next + 1] = Versions'],
           mem' \in [Systems -> Views], truth' \in [Systems -> Seq(Payloads)],
           next' = next + 1, UNCHANGED <<rows, proj, shown>>,
           Applied \in 0..next, Applied' = Applied, Sound' => Sound,
           NEW t \in Threads, Fits(job'[t], mem, mem'), job'[t].ticket = next,
           job'[t].version = Versions',
           \A u \in Threads \ {t} : pc'[u] \in InQueue => pc[u] \in InQueue /\ job'[u] = job[u],
           \A s \in Systems :
               /\ Len(truth'[s]) >= Len(truth[s])
               /\ \A i \in 1..Len(truth[s]) : truth'[s][i] = truth[s][i]
               /\ truth'[s][Len(truth'[s])] = Knowledge(mem'[s])
               /\ mem'[s].kind = "absent" => mem[s].kind = "absent"
    PROVE  Replay(image2, at2)'
<1>1. /\ next \in Nat /\ next + 1 \in Nat /\ next + 1 # next
      /\ image \in [Nat -> [Systems -> Views]] /\ at \in [Nat -> [Systems -> Nat]]
      /\ image[next] = mem /\ at[next] = Versions
  <2>1. next \in Nat
    BY DEF Typed, TypeOK
  <2>2. next + 1 \in Nat /\ next + 1 # next
    BY <2>1
  <2>3. /\ image \in [Nat -> [Systems -> Views]] /\ at \in [Nat -> [Systems -> Nat]]
        /\ image[next] = mem /\ at[next] = Versions
    BY DEF Replay, Images
  <2> QED
    BY <2>1, <2>2, <2>3
<1>2. \A s \in Systems : /\ truth[s] \in Seq(Payloads) /\ truth'[s] \in Seq(Payloads)
                         /\ Len(truth[s]) \in Nat /\ Len(truth'[s]) \in Nat /\ Len(truth[s]) >= 1
  BY Begun, LenProperties DEF Typed
<1>3. Versions' \in [Systems -> Nat] /\ \A s \in Systems : Versions'[s] = Len(truth'[s])
  BY <1>2 DEF Versions
<1>4. /\ image2 \in [Nat -> [Systems -> Views]] /\ at2 \in [Nat -> [Systems -> Nat]]
      /\ image2[next + 1] = mem' /\ at2[next + 1] = Versions'
      /\ \A k \in Nat \ {next + 1} : image2[k] = image[k] /\ at2[k] = at[k]
  BY <1>1, <1>3
<1>5. Images(image2, at2)'
  BY <1>4 DEF Images
<1>6. JobsFit(image2, at2)'
  <2>1. ASSUME NEW u \in Threads, pc'[u] \in InQueue
        PROVE  LET k == job'[u].ticket
               IN  Fits(job'[u], image2[k], image2[k + 1]) /\ job'[u].version = at2[k + 1]
    <3>1. CASE u = t
      <4>1. image2[next] = mem /\ image2[next + 1] = mem' /\ at2[next + 1] = Versions'
        BY <1>1, <1>4
      <4> QED
        BY <3>1, <4>1
    <3>2. CASE u # t
      <4>1. pc[u] \in InQueue /\ job'[u] = job[u]
        BY <2>1, <3>2
      <4>2. job[u].ticket \in serving..(next - 1)
        BY <4>1 DEF Queued
      <4>3. /\ job[u].ticket \in Nat \ {next + 1} /\ job[u].ticket + 1 \in Nat \ {next + 1}
        BY <1>1, <4>2 DEF Typed, TypeOK
      <4>4. LET k == job[u].ticket
            IN  Fits(job[u], image[k], image[k + 1]) /\ job[u].version = at[k + 1]
        BY <4>1 DEF Replay, JobsFit
      <4> QED
        BY <1>4, <4>1, <4>3, <4>4
    <3> QED
      BY <3>1, <3>2
  <2> QED
    BY <2>1 DEF JobsFit
<1>7. \A k \in 0..next : k \in Nat \ {next + 1}
  BY <1>1
<1>8. \A k \in 0..(next + 1) : k \in 0..next \/ k = next + 1
  BY <1>1
<1>9. KnownThen(image2, at2)'
  <2>1. ASSUME NEW k \in 0..(next + 1), NEW s \in Systems
        PROVE  at2[k][s] \in 1..Len(truth'[s]) /\ truth'[s][at2[k][s]] = Knowledge(image2[k][s])
    <3>1. CASE k \in 0..next
      <4>1. at2[k] = at[k] /\ image2[k] = image[k]
        BY <1>4, <1>7, <3>1
      <4>2. at[k][s] \in 1..Len(truth[s]) /\ truth[s][at[k][s]] = Knowledge(image[k][s])
        BY <3>1 DEF Replay, KnownThen
      <4> QED
        BY <1>2, <4>1, <4>2
    <3>2. CASE k = next + 1
      <4>1. at2[k][s] = Len(truth'[s]) /\ image2[k][s] = mem'[s]
        BY <1>3, <1>4, <3>2
      <4> QED
        BY <1>2, <4>1
    <3> QED
      BY <1>8, <3>1, <3>2
  <2> QED
    BY <2>1 DEF KnownThen
<1>10. Growing(image2, at2)'
  <2>1. ASSUME NEW j \in 0..(next + 1), NEW k \in 0..(next + 1), NEW s \in Systems, j <= k
        PROVE  /\ at2[j][s] <= at2[k][s]
               /\ image2[k][s].kind = "absent" => image2[j][s].kind = "absent"
    <3>1. CASE j \in 0..next /\ k \in 0..next
      <4>1. at2[k] = at[k] /\ image2[k] = image[k] /\ at2[j] = at[j] /\ image2[j] = image[j]
        BY <1>4, <1>7, <3>1
      <4> QED
        BY <2>1, <3>1, <4>1 DEF Replay, Growing
    <3>2. CASE j \in 0..next /\ k = next + 1
      <4>1. at2[j] = at[j] /\ image2[j] = image[j]
        BY <1>4, <1>7, <3>2
      <4>2. at[j][s] \in 1..Len(truth[s])
        BY <3>2 DEF Replay, KnownThen
      <4>3. at2[k][s] = Len(truth'[s]) /\ image2[k][s] = mem'[s]
        BY <1>3, <1>4, <3>2
      <4>4. image[next][s].kind = "absent" => image[j][s].kind = "absent"
        <5>1. next \in 0..next /\ j \in 0..next /\ j <= next
          BY <1>1, <3>2
        <5>2. Growing(image, at)
          BY DEF Replay
        <5> QED
          BY <5>1, <5>2 DEF Growing
      <4>5. Len(truth'[s]) >= Len(truth[s]) /\ (mem'[s].kind = "absent" => mem[s].kind = "absent")
        OBVIOUS
      <4>6. at2[j][s] <= at2[k][s]
        BY <1>2, <4>1, <4>2, <4>3, <4>5
      <4>7. image2[k][s].kind = "absent" => image2[j][s].kind = "absent"
        BY <1>1, <4>1, <4>3, <4>4, <4>5
      <4> QED
        BY <4>6, <4>7
    <3>3. CASE j = next + 1
      <4>1. k = j
        BY <1>1, <2>1, <3>3
      <4>2. at2[j][s] \in Nat
        BY <1>1, <1>4, <3>3
      <4> QED
        BY <4>1, <4>2
    <3> QED
      BY <1>8, <3>1, <3>2, <3>3
  <2> QED
    BY <2>1 DEF Growing
<1>11. image2[Applied] = image[Applied] /\ at2[Applied] = at[Applied]
  BY <1>4, <1>7
<1>12. Committed(image2, at2)'
  <2>1. ASSUME NEW s \in Systems
        PROVE  Remembered(s)'
    <3>1. Remembered(s)
      BY DEF Replay, Committed
    <3>2. \A i \in 1..Len(truth[s]) : i \in 1..Len(truth'[s]) /\ truth'[s][i] = truth[s][i]
      BY <1>2
    <3> QED
      BY <3>1, <3>2 DEF Remembered
  <2>2. Committed(image, at)
    BY DEF Replay
  <2> QED
    BY <1>11, <2>1, <2>2 DEF Committed
<1>13. Faithful(image2)'
  <2>1. Faithful(image)
    BY DEF Replay
  <2> QED
    BY <1>11, <2>1 DEF Faithful
<1> QED
  BY <1>5, <1>6, <1>9, <1>10, <1>12, <1>13 DEF Replay

\* A write comes to its end, committed or not.
LEMMA ReplayWritten ==
    ASSUME Typed, Queued, Marked, NEW image, NEW at, Replay(image, at),
           NEW t \in Threads, Commit(t) \/ Fail(t), Typed'
    PROVE  Replay(image, at)'
<1> DEFINE w == job[t]
<1>1. /\ pc[t] = "writing" /\ UNCHANGED <<mem, truth, next, serving, generation, completed, repairing, job>>
      /\ pc'[t] \in Written /\ \A u \in Threads \ {t} : pc'[u] = pc[u]
      /\ \/ Commit(t) /\ pc'[t] = "finishing"
         \/ Fail(t) /\ pc'[t] = IF w.op = "repair" THEN "abandoning" ELSE "marking"
  BY DEF Commit, Fail, Transition, memory, tickets, repair, Typed, TypeOK, Written
<1>2. /\ serving \in Nat /\ serving + 1 \in 0..next /\ serving \in 0..next /\ serving + 1 \in Nat
      /\ Applied = serving
      /\ image[serving] \in [Systems -> Views] /\ image[serving + 1] \in [Systems -> Views]
      /\ at[serving] \in [Systems -> Nat] /\ at[serving + 1] \in [Systems -> Nat]
      /\ \A s \in Systems : Before(s, image[serving][s], image[serving + 1][s])
  BY <1>1, Writing
<1>3. Applied' = serving + 1
  BY <1>1 DEF Applied
<1>4. Images(image, at)' /\ KnownThen(image, at)' /\ Growing(image, at)'
  BY <1>1 DEF Replay, Images, Versions, KnownThen, Growing
<1>5. JobsFit(image, at)'
  <2>1. \A u \in Threads : pc'[u] \in InQueue => pc[u] \in InQueue
    BY <1>1 DEF InQueue
  <2>2. JobsFit(image, at)
    BY DEF Replay
  <2>3. \A v, b, a : Fits(v, b, a)' <=> Fits(v, b, a)
    BY DEF Fits, FitsDiff, FitsEnrich, FitsRepair
  <2> QED
    BY <1>1, <2>1, <2>2 DEF JobsFit
<1>6. WriteDatabase(w) \/ (Fail(t) /\ UNCHANGED <<rows, proj, shown>>)
  BY <1>1 DEF Commit, Fail, database
<1>7. Committed(image, at)'
  <2>1. CASE WriteDatabase(w)
    <3>1. ASSUME NEW s \in Systems
          PROVE  /\ shown'[s] \in 1..at[serving + 1][s]
                 /\ image[serving + 1][s].kind = "absent" => rows'[s].kind = "absent"
                 /\ rows'[s].kind = "absent" => proj'[s].n = 0
                 /\ Remembered(s)'
      BY <1>1, <2>1, Wrote
    <3> QED
      BY <1>3, <3>1 DEF Committed
  <2>2. CASE UNCHANGED <<rows, proj, shown>>
    <3>1. ASSUME NEW s \in Systems
          PROVE  /\ shown[s] \in 1..at[serving + 1][s]
                 /\ image[serving + 1][s].kind = "absent" => rows[s].kind = "absent"
                 /\ rows[s].kind = "absent" => proj[s].n = 0
                 /\ Remembered(s)'
      <4>1. shown[s] \in 1..at[serving][s] /\ Remembered(s)
        BY <1>2 DEF Replay, Committed
      <4>2. at[serving][s] <= at[serving + 1][s]
        BY <1>2 DEF Replay, Growing
      <4>3. at[serving][s] \in Nat /\ at[serving + 1][s] \in Nat
        BY <1>2
      <4>4. Before(s, image[serving][s], image[serving + 1][s])
        BY <1>2
      <4>5. Remembered(s)'
        BY <1>1, <2>2, <4>1 DEF Remembered
      <4>6. shown[s] \in 1..at[serving + 1][s]
        BY <4>1, <4>2, <4>3
      <4> QED
        BY <4>4, <4>5, <4>6 DEF Before
    <3> QED
      BY <1>3, <2>2, <3>1 DEF Committed
  <2> QED
    BY <1>6, <2>1, <2>2
<1>8. Faithful(image)'
  <2>1. CASE Fail(t)
    <3>1. CASE w.op = "repair"
      <4>1. t = Maintenance
        BY <1>1, <3>1 DEF Marked, InQueue
      <4>2. completed < repairing /\ repairing <= generation
        BY <1>1, <3>1, <4>1 DEF Marked, RepairUnderWay, InQueue
      <4>3. pc'[Maintenance] = "abandoning"
        BY <1>1, <2>1, <3>1, <4>1 DEF Commit, Fail, Transition, Typed, TypeOK
      <4>4. MadeGood' = completed
        BY <1>1, <4>3 DEF MadeGood
      <4>5. generation' # MadeGood'
        BY <1>1, <4>2, <4>4 DEF Typed, TypeOK
      <4> QED
        BY <4>5 DEF Faithful, Sound
    <3>2. CASE w.op # "repair"
      <4>1. pc'[t] = "marking"
        BY <1>1, <2>1, <3>2 DEF Commit, Fail, Transition, Typed, TypeOK
      <4>2. ~Sound'
        BY <4>1 DEF Sound
      <4> QED
        BY <4>2 DEF Faithful
    <3> QED
      BY <3>1, <3>2
  <2>2. CASE Commit(t)
    <3>1. WriteDatabase(w)
      BY <2>2 DEF Commit
    <3>2. rows' = [s \in Systems |-> rows'[s]] /\ image[serving + 1] = [s \in Systems |-> image[serving + 1][s]]
      BY <1>2 DEF Typed, TypeOK
    <3>3. CASE w.op = "repair"
      <4>1. \A s \in Systems : rows'[s] = image[serving + 1][s] /\ Agrees(image[serving + 1][s], proj'[s])
        BY <1>1, <3>1, <3>3, Wrote
      <4>2. rows' = image[serving + 1]
        BY <3>2, <4>1
      <4> QED
        BY <1>3, <4>1, <4>2 DEF Faithful
    <3>4. CASE w.op # "repair" /\ Sound'
      <4>1. MadeGood' = MadeGood
        <5>1. CASE t = Maintenance
          BY <1>1, <2>2, <3>4, <5>1 DEF MadeGood
        <5>2. CASE t # Maintenance
          <6>1. Maintenance \in Threads
            BY DEF Threads
          <6> QED
            BY <1>1, <5>2, <6>1 DEF MadeGood
        <5> QED
          BY <5>1, <5>2
      <4>2. Sound
        BY <1>1, <3>4, <4>1 DEF Sound
      <4>3. rows = image[serving] /\ \A s \in Systems : Agrees(rows[s], proj[s])
        BY <1>2, <4>2 DEF Replay, Faithful
      <4>4. \A s \in Systems : rows'[s] = image[serving + 1][s] /\ Agrees(image[serving + 1][s], proj'[s])
        BY <1>1, <3>1, <4>3, Wrote
      <4>5. rows' = image[serving + 1]
        BY <3>2, <4>4
      <4> QED
        BY <1>3, <4>4, <4>5 DEF Faithful
    <3>5. CASE ~Sound'
      BY <3>5 DEF Faithful
    <3> QED
      BY <3>3, <3>4, <3>5
  <2> QED
    BY <2>1, <2>2
<1> QED
  BY <1>4, <1>5, <1>7, <1>8 DEF Replay

\* What writes have come to their end is at most what was taken.
LEMMA AppliedOf ==
    ASSUME Typed, Queued
    PROVE  Applied \in 0..next
<1>1. serving \in Nat /\ next \in Nat /\ serving <= next
  BY DEF Typed, TypeOK, Queued
<1>2. ASSUME NEW t \in Threads, pc[t] \in Written
      PROVE  serving + 1 <= next
  BY <1>1, <1>2 DEF Queued, InQueue, Written
<1> QED
  BY <1>1, <1>2 DEF Applied

\* A restart explains everything anew from the rows.
LEMMA ReplayRestarted ==
    ASSUME Typed, Queued, NEW image, NEW at, Replay(image, at), Restart, Typed'
    PROVE  \E image2, at2 : Replay(image2, at2)'
<1>1. PICK image2 : image2 = [k \in Nat |-> rows]
  OBVIOUS
<1>2. PICK at2 : at2 = [k \in Nat |-> Versions']
  OBVIOUS
<1>3. /\ next' = 0 /\ mem' = rows /\ rows' = rows /\ rows \in [Systems -> Views]
      /\ \A t \in Threads : pc'[t] = "idle"
  BY DEF Restart, Typed, TypeOK
<1>4. Applied' = 0
  BY <1>3 DEF Applied, Written, Restart
<1>5. Versions' \in [Systems -> Nat] /\ \A s \in Systems : Versions'[s] = Len(truth'[s])
  BY Restarted DEF Versions
<1>6. Images(image2, at2)'
  BY <1>1, <1>2, <1>3, <1>5 DEF Images
<1>7. JobsFit(image2, at2)'
  BY <1>3 DEF JobsFit, InQueue
<1>8. \A k \in 0..0 : k = 0
  OBVIOUS
<1>9. image2[0] = rows /\ at2[0] = Versions'
  BY <1>1, <1>2
<1>10. KnownThen(image2, at2)'
  <2>1. ASSUME NEW s \in Systems
        PROVE  at2[0][s] \in 1..Len(truth'[s]) /\ truth'[s][at2[0][s]] = Knowledge(image2[0][s])
    <3>1. at2[0][s] = Len(truth'[s]) /\ image2[0][s] = rows[s]
      BY <1>5, <1>9
    <3>2. /\ Len(truth'[s]) \in Nat /\ Len(truth'[s]) >= Len(truth[s]) /\ Len(truth[s]) >= 1
          /\ truth'[s][Len(truth'[s])] = Knowledge(rows[s])
      BY Restarted
    <3>3. Len(truth[s]) \in Nat
      BY LenProperties DEF Typed
    <3> QED
      BY <3>1, <3>2, <3>3
  <2> QED
    BY <1>3, <1>8, <2>1 DEF KnownThen
<1>11. Growing(image2, at2)'
  <2>1. \A s \in Systems : at2[0][s] \in Nat
    BY <1>5, <1>9
  <2> QED
    BY <1>3, <1>8, <2>1 DEF Growing
<1>12. Committed(image2, at2)'
  <2>1. ASSUME NEW s \in Systems
        PROVE  /\ shown'[s] \in 1..at2[0][s]
               /\ rows'[s].kind = "absent" => proj'[s].n = 0
               /\ Remembered(s)'
    <3>1. /\ Len(truth'[s]) \in Nat /\ Len(truth'[s]) >= Len(truth[s]) /\ Len(truth[s]) >= 1
          /\ \A i \in 1..Len(truth[s]) : truth'[s][i] = truth[s][i]
          /\ LET e == RestartEvent(proj[s], rows[s])
             IN  /\ proj'[s] = Project(proj[s], e)
                 /\ shown'[s] = IF e = NoPayload THEN shown[s] ELSE Len(truth'[s])
                 /\ rows[s].kind = "absent" => e = NoPayload
      BY Restarted
    <3>2. Len(truth[s]) \in Nat /\ shown[s] \in Nat
      BY LenProperties DEF Typed
    <3>3. /\ next \in Nat /\ Applied \in 0..next /\ shown[s] \in 1..at[Applied][s]
          /\ rows[s].kind = "absent" => proj[s].n = 0
          /\ Remembered(s)
      BY AppliedOf DEF Replay, Committed, Typed, TypeOK
    <3>4. at[Applied][s] \in 1..Len(truth[s])
      BY <3>3 DEF Replay, KnownThen
    <3>5. shown'[s] \in 1..Len(truth'[s])
      BY <3>1, <3>2, <3>3, <3>4
    <3>6. rows[s].kind = "absent" => proj'[s].n = 0
      BY <3>1, <3>3 DEF Project
    <3>7. Remembered(s)'
      <4>1. \A i \in 1..Len(truth[s]) : i \in 1..Len(truth'[s]) /\ truth'[s][i] = truth[s][i]
        BY <3>1, <3>2
      <4> QED
        BY <1>3, <3>3, <4>1 DEF Remembered
    <3> QED
      BY <1>3, <1>5, <1>9, <3>5, <3>6, <3>7
  <2> QED
    BY <1>3, <1>4, <1>9, <2>1 DEF Committed
<1>13. Faithful(image2)'
  BY <1>3, <1>4, <1>9, Restarted DEF Faithful
<1> QED
  BY <1>6, <1>7, <1>10, <1>11, <1>12, <1>13 DEF Replay

\* Whatever is done, some images go on to explain it.
LEMMA ReplayStep ==
    ASSUME Typed, Queued, Marked, NEW image, NEW at, Replay(image, at), Next, Typed'
    PROVE  \E image2, at2 : Replay(image2, at2)'
<1>1. /\ next \in Nat /\ serving \in Nat /\ DOMAIN pc = Threads /\ DOMAIN job = Threads
      /\ generation \in Nat /\ completed \in Nat /\ repairing \in Nat
      /\ mem \in [Systems -> Views] /\ truth \in [Systems -> Seq(Payloads)]
  BY DEF Typed, TypeOK
<1>2. Maintenance \in Threads
  BY DEF Threads
<1>3. PICK image2 : image2 = [image EXCEPT ![next + 1] = mem']
  OBVIOUS
<1>4. PICK at2 : at2 = [at EXCEPT ![next + 1] = Versions']
  OBVIOUS
<1>5. CASE Mutation
  <2>1. PICK t \in Threads, from \in {"idle", "expiring"}, views \in [Systems -> Views] :
            \E write : Reserved(t, from, views, write)
    BY <1>5, Mutations DEF Mutation, Typed
  <2>2. PICK write : Reserved(t, from, views, write)
    BY <2>1
  <2>3. /\ mem' = views /\ truth' = [s \in Systems |-> Learned(truth[s], views[s])]
        /\ next' = next + 1 /\ UNCHANGED <<rows, proj, shown, serving, generation, completed, repairing>>
        /\ pc[t] = from /\ pc'[t] = "waiting" /\ job'[t] = write
        /\ \A u \in Threads \ {t} : pc'[u] = pc[u] /\ job'[u] = job[u]
    BY <1>1, <2>2 DEF Reserved, Reserve, Transition, database, repair
  <2>4. /\ write.ticket = next /\ write.version = Versions' /\ Fits(write, mem, views)
        /\ write.op # "repair"
        /\ \A s \in Systems : views[s].kind = "absent" => mem[s].kind = "absent"
    BY <2>2 DEF Reserved, Fits, FitsDiff, FitsEnrich
  <2>5. truth' \in [Systems -> Seq(Payloads)]
    BY DEF Typed
  <2>6. Applied' = Applied
    BY <2>3 DEF Applied, Written
  <2>7. MadeGood' = MadeGood
    BY <1>2, <2>3, <2>4 DEF MadeGood
  <2>8. Sound' => Sound
    BY <2>3, <2>7 DEF Sound
  <2>9. ASSUME NEW s \in Systems
        PROVE  /\ Len(truth'[s]) >= Len(truth[s])
               /\ \A i \in 1..Len(truth[s]) : truth'[s][i] = truth[s][i]
               /\ truth'[s][Len(truth'[s])] = Knowledge(mem'[s])
               /\ mem'[s].kind = "absent" => mem[s].kind = "absent"
    <3>1. truth[s] \in Seq(Payloads) /\ Len(truth[s]) >= 1 /\ views[s] \in Views
      BY Begun
    <3>2. truth'[s] = Learned(truth[s], views[s]) /\ mem'[s] = views[s]
      BY <2>3
    <3> QED
      BY <2>4, <3>1, <3>2, LearnedOf
  <2>10. Fits(job'[t], mem, mem') /\ job'[t].ticket = next /\ job'[t].version = Versions'
    BY <2>3, <2>4
  <2>11. \A u \in Threads \ {t} : pc'[u] \in InQueue => pc[u] \in InQueue /\ job'[u] = job[u]
    BY <2>3
  <2>12. Replay(image2, at2)'
    BY <1>3, <1>4, <2>3, <2>5, <2>6, <2>8, <2>9, <2>10, <2>11, AppliedOf, ReplayGrown
  <2> QED
    BY <2>12
<1>6. CASE CopyMemory
  <2>1. /\ mem' = mem /\ truth' = truth /\ next' = next + 1
        /\ UNCHANGED <<rows, proj, shown, serving, generation, completed, repairing>>
        /\ pc[Maintenance] = "copying" /\ pc'[Maintenance] = "waiting"
        /\ job'[Maintenance] = [op |-> "repair", ticket |-> next, image |-> mem, version |-> Versions]
        /\ \A u \in Threads \ {Maintenance} : pc'[u] = pc[u] /\ job'[u] = job[u]
    BY <1>1, <1>2, <1>6 DEF CopyMemory, Transition, database, repair, memory
  <2>2. Versions' = Versions
    BY <2>1 DEF Versions
  <2>3. /\ job'[Maintenance].ticket = next /\ job'[Maintenance].version = Versions'
        /\ FitsRepair(job'[Maintenance], mem, mem')
    BY <2>1, <2>2 DEF FitsRepair
  <2>4. Applied' = Applied
    BY <2>1 DEF Applied, Written
  <2>5. MadeGood' = MadeGood
    BY <1>2, <2>1 DEF MadeGood
  <2>6. Sound' => Sound
    BY <2>1, <2>5 DEF Sound
  <2>7. ASSUME NEW s \in Systems
        PROVE  /\ Len(truth'[s]) >= Len(truth[s])
               /\ \A i \in 1..Len(truth[s]) : truth'[s][i] = truth[s][i]
               /\ truth'[s][Len(truth'[s])] = Knowledge(mem'[s])
               /\ mem'[s].kind = "absent" => mem[s].kind = "absent"
    <3>1. Len(truth[s]) \in Nat
      BY Begun
    <3>2. next \in 0..next
      BY <1>1
    <3>3. truth[s][at[next][s]] = Knowledge(image[next][s])
      BY <3>2 DEF Replay, KnownThen
    <3>4. image[next] = mem /\ at[next][s] = Len(truth[s])
      BY DEF Replay, Images, Versions
    <3> QED
      BY <2>1, <3>1, <3>3, <3>4
  <2>8. \A u \in Threads \ {Maintenance} : pc'[u] \in InQueue => pc[u] \in InQueue /\ job'[u] = job[u]
    BY <2>1
  <2>9. mem' \in [Systems -> Views] /\ truth' \in [Systems -> Seq(Payloads)]
    BY <1>1, <2>1
  <2>10. Replay(image2, at2)'
    BY <1>2, <1>3, <1>4, <2>1, <2>3, <2>4, <2>6, <2>7, <2>8, <2>9, AppliedOf, ReplayGrown DEF Fits
  <2> QED
    BY <2>10
<1>7. CASE \E t \in Threads : Commit(t) \/ Fail(t)
  BY <1>7, ReplayWritten
<1>8. CASE Restart
  BY <1>8, ReplayRestarted
<1>9. CASE Quiet
  <2>1. UNCHANGED <<mem, truth, rows, proj, shown, next>>
    BY <1>9 DEF Quiet, Begin, Mark, Finish, ReadGeneration, Complete, NothingExpired,
       memory, database, tickets
  <2>2. ASSUME NEW t \in Threads, Begin(t)
        PROVE  /\ Applied' = Applied /\ (Sound' => Sound)
               /\ \A u \in Threads : pc'[u] \in InQueue => pc[u] \in InQueue /\ job'[u] = job[u]
    <3>1. /\ UNCHANGED <<serving, generation, completed, repairing, job>>
          /\ pc[t] = "waiting" /\ pc'[t] = "writing" /\ \A u \in Threads \ {t} : pc'[u] = pc[u]
      BY <1>1, <2>2 DEF Begin, Transition, tickets, repair
    <3>2. Applied' = Applied
      BY <3>1 DEF Applied, Written
    <3>3. MadeGood' = MadeGood
      BY <1>2, <3>1 DEF MadeGood
    <3>4. Sound' => Sound
      BY <3>1, <3>3 DEF Sound
    <3> QED
      BY <3>1, <3>2, <3>4 DEF InQueue
  <2>3. ASSUME NEW t \in Threads, Mark(t)
        PROVE  /\ Applied' = Applied /\ (Sound' => Sound)
               /\ \A u \in Threads : pc'[u] \in InQueue => pc[u] \in InQueue /\ job'[u] = job[u]
    <3>1. /\ UNCHANGED <<serving, completed, repairing, job>> /\ generation' = generation + 1
          /\ pc[t] = "marking" /\ pc'[t] = "finishing" /\ \A u \in Threads \ {t} : pc'[u] = pc[u]
      BY <1>1, <2>3 DEF Mark, Transition, tickets
    <3>2. Applied' = Applied
      BY <3>1 DEF Applied, Written
    <3>3. MadeGood' \in {completed, repairing}
      BY <3>1 DEF MadeGood
    <3>4. generation' # MadeGood'
      BY <1>1, <3>1, <3>3 DEF Marked
    <3> QED
      BY <3>1, <3>2, <3>4 DEF InQueue, Sound
  <2>4. ASSUME NEW t \in Threads, Finish(t)
        PROVE  /\ Applied' = Applied /\ (Sound' => Sound)
               /\ \A u \in Threads : pc'[u] \in InQueue => pc[u] \in InQueue /\ job'[u] = job[u]
    <3>1. /\ UNCHANGED <<generation, completed, repairing>>
          /\ \A u \in Threads \ {t} : pc'[u] = pc[u] /\ job'[u] = job[u]
          /\ \/ pc[t] = "finishing" /\ job[t].op # "repair" /\ pc'[t] = "idle"
             \/ pc[t] = "finishing" /\ job[t].op = "repair" /\ pc'[t] = "completing"
             \/ pc[t] = "abandoning" /\ pc'[t] = "idle"
          /\ serving' = IF serving <= job[t].ticket THEN job[t].ticket + 1 ELSE serving
      BY <1>1, <2>4 DEF Finish, Transition, repair
    <3>2. job[t].ticket = serving /\ serving' = serving + 1
      BY <1>1, <3>1 DEF Queued, InQueue, Holding
    <3>3. ASSUME NEW u \in Threads \ {t}
          PROVE  pc[u] \notin Written
      BY <3>1, <3>2 DEF Queued, InQueue, Holding, Written
    <3>4. Applied = serving + 1
      BY <3>1 DEF Applied, Written
    <3>5. \A u \in Threads : pc'[u] \notin Written
      BY <3>1, <3>3 DEF Written
    <3>6. Applied' = serving + 1
      BY <3>2, <3>5 DEF Applied
    <3>7. MadeGood' = MadeGood
      BY <1>2, <3>1 DEF MadeGood, Marked
    <3>8. Sound' => Sound
      <4>1. \A u \in Threads : pc[u] = "marking" => pc'[u] = "marking"
        BY <3>1
      <4> QED
        BY <3>1, <3>7, <4>1 DEF Sound
    <3>9. \A u \in Threads : pc'[u] \in InQueue => pc[u] \in InQueue /\ job'[u] = job[u]
      BY <3>1 DEF InQueue
    <3> QED
      BY <3>4, <3>6, <3>8, <3>9
  <2>5. ASSUME ReadGeneration \/ Complete \/ NothingExpired
        PROVE  /\ Applied' = Applied /\ (Sound' => Sound)
               /\ \A u \in Threads : pc'[u] \in InQueue => pc[u] \in InQueue /\ job'[u] = job[u]
    <3>1. /\ UNCHANGED <<serving, generation, job>>
          /\ pc[Maintenance] \in {"idle", "completing", "expiring"}
          /\ pc'[Maintenance] \in {"idle", "copying", "expiring"}
          /\ \A u \in Threads \ {Maintenance} : pc'[u] = pc[u]
          /\ \/ pc[Maintenance] = "completing" /\ completed' = repairing
             \/ pc[Maintenance] # "completing" /\ completed' = completed
      BY <1>1, <1>2, <2>5 DEF ReadGeneration, Complete, NothingExpired, Transition, tickets, repair
    <3>2. Applied' = Applied
      BY <3>1 DEF Applied, Written
    <3>3. MadeGood' = MadeGood
      BY <3>1 DEF MadeGood
    <3>4. Sound' => Sound
      BY <3>1, <3>3 DEF Sound
    <3> QED
      BY <3>1, <3>2, <3>4 DEF InQueue
  <2>6. /\ Applied' = Applied /\ (Sound' => Sound)
        /\ \A u \in Threads : pc'[u] \in InQueue => pc[u] \in InQueue /\ job'[u] = job[u]
    BY <1>9, <2>2, <2>3, <2>4, <2>5 DEF Quiet
  <2>7. Replay(image, at)'
    BY <2>1, <2>6, ReplayKept
  <2> QED
    BY <2>7
<1> QED
  BY <1>5, <1>6, <1>7, <1>8, <1>9, NextCases

-----------------------------------------------------------------------------
(* The invariant.                                                          *)

\* It holds at first.
LEMMA InitInvariant ==
    ASSUME Init
    PROVE  IInv
<1>1. /\ mem = [s \in Systems |-> Absent] /\ rows = mem /\ proj = [s \in Systems |-> NoPayload]
      /\ next = 0 /\ serving = 0 /\ pc = [t \in Threads |-> "idle"]
      /\ job = [t \in Threads |-> NoJob]
      /\ generation = 0 /\ completed = 0 /\ repairing = 0
      /\ truth = [s \in Systems |-> <<NoPayload>>] /\ shown = [s \in Systems |-> 1]
      /\ mutations = 0 /\ failures = 0 /\ crashes = 0
  BY DEF Init
<1>2. mem \in [Systems -> Views] /\ proj \in [Systems -> Payloads]
  BY <1>1, ViewOf, PayloadOf
<1>3. <<NoPayload>> \in Seq(Payloads) /\ Len(<<NoPayload>>) = 1 /\ <<NoPayload>>[1] = NoPayload
  BY PayloadOf
<1>4. truth \in [Systems -> Seq(Payloads)] /\ shown \in [Systems -> Nat]
  BY <1>1, <1>3
<1>5. TypeOK
  BY <1>1, <1>2 DEF TypeOK
<1>6. Typed
  BY <1>1, <1>4, <1>5 DEF Typed
<1>7. Queued
  BY <1>1 DEF Queued, InQueue
<1>8. Marked
  <2>1. Maintenance \in Threads
    BY DEF Threads
  <2> QED
    BY <1>1, <2>1 DEF Marked, RepairUnderWay, InQueue
<1>9. PICK image : image = [k \in Nat |-> mem]
  OBVIOUS
<1>10. PICK at : at = [k \in Nat |-> Versions]
  OBVIOUS
<1>11. image[0] = mem /\ at[0] = Versions /\ Versions = [s \in Systems |-> 1] /\ Applied = 0
  BY <1>1, <1>3, <1>9, <1>10 DEF Versions, Applied, Written
<1>12. Knowledge(Absent) = NoPayload
  BY ViewOf, KnowledgeOf
<1>13. \A k \in 0..0 : k = 0
  OBVIOUS
<1>14. Images(image, at)
  BY <1>1, <1>2, <1>9, <1>10, <1>11 DEF Images
<1>15. JobsFit(image, at)
  BY <1>1 DEF JobsFit, InQueue
<1>16. KnownThen(image, at) /\ Growing(image, at)
  BY <1>1, <1>3, <1>11, <1>12, <1>13 DEF KnownThen, Growing
<1>17. Absent.kind = "absent" /\ NoPayload.n = 0 /\ ~IsHostile(Absent) /\ Agrees(Absent, NoPayload)
  BY DEF Absent, NoPayload, IsHostile, Agrees, Sourceless
<1>18. Committed(image, at)
  BY <1>1, <1>11, <1>17 DEF Committed, Remembered
<1>19. Faithful(image)
  BY <1>1, <1>11, <1>17 DEF Faithful
<1> QED
  BY <1>6, <1>7, <1>8, <1>14, <1>15, <1>16, <1>18, <1>19 DEF IInv, Replay

\* Every step keeps it.
LEMMA NextInvariant ==
    ASSUME IInv, [Next]_vars
    PROVE  IInv'
<1>1. PICK image, at : Replay(image, at)
  BY DEF IInv
<1>2. CASE Next
  <2>1. Typed'
    BY <1>1, <1>2, TypedStep DEF IInv
  <2>2. Queued' /\ Marked'
    BY <1>2, QueuedStep, MarkedStep DEF IInv
  <2>3. \E image2, at2 : Replay(image2, at2)'
    BY <1>1, <1>2, <2>1, ReplayStep DEF IInv
  <2> QED
    BY <2>1, <2>2, <2>3 DEF IInv
<1>3. CASE UNCHANGED vars
  <2>1. /\ UNCHANGED <<mem, truth, mutations, rows, proj, shown, next, serving, pc, job>>
        /\ UNCHANGED <<generation, completed, repairing, failures, crashes>>
    BY <1>3 DEF vars, memory, database, tickets, repair
  <2>2. Typed' /\ Queued' /\ Marked'
    BY <2>1 DEF IInv, Typed, TypeOK, Queued, Marked, RepairUnderWay
  <2>3. Applied' = Applied /\ Sound' = Sound
    BY <2>1 DEF Applied, Sound, MadeGood
  <2>4. Replay(image, at)'
    BY <1>1, <2>1, <2>3, ReplayKept DEF IInv
  <2> QED
    BY <2>2, <2>4 DEF IInv
<1> QED
  BY <1>2, <1>3

\* Once settled, the images leave nothing to be written.
LEMMA SettledAgrees ==
    ASSUME IInv
    PROVE  StorageMatchesMemory
<1>1. PICK image, at : Replay(image, at)
  BY DEF IInv
<1>2. ASSUME Settled
      PROVE  rows = mem /\ \A s \in Systems : Agrees(mem[s], proj[s])
  <2>1. \A t \in Threads : pc[t] \in {"idle", "expiring"}
    BY <1>2 DEF Settled
  <2>2. Maintenance \in Threads
    BY DEF Threads
  <2>3. MadeGood = completed /\ Sound
    BY <1>2, <2>1, <2>2 DEF MadeGood, Sound, Settled
  <2>4. Applied = serving
    BY <2>1 DEF Applied, Written
  <2>5. serving = next
    <3>1. \A k \in serving..(next - 1) : FALSE
      BY <2>1 DEF IInv, Queued, InQueue
    <3>2. serving \in Nat /\ next \in Nat /\ serving <= next
      BY DEF IInv, Queued, Typed, TypeOK
    <3> QED
      BY <3>1, <3>2
  <2> QED
    BY <1>1, <2>3, <2>4, <2>5 DEF Replay, Faithful, Images
<1> QED
  BY <1>2 DEF StorageMatchesMemory

\* The types, of every state the store can reach.
THEOREM PersistenceTypesCorrect == Spec => []TypeOK
<1>1. Init => IInv
  BY InitInvariant
<1>2. IInv /\ [Next]_vars => IInv'
  BY NextInvariant
<1>3. IInv => TypeOK
  BY DEF IInv, Typed
<1> QED
  BY <1>1, <1>2, <1>3, PTL DEF Spec

\* Whenever nothing is on its way and no failed write is yet to be made good, the
\* stored rows are the memory, and no committed state contradicts it.
THEOREM StorageIsMemory == Spec => []StorageMatchesMemory
<1>1. Init => IInv
  BY InitInvariant
<1>2. IInv /\ [Next]_vars => IInv'
  BY NextInvariant
<1>3. IInv => StorageMatchesMemory
  BY SettledAgrees
<1> QED
  BY <1>1, <1>2, <1>3, PTL DEF Spec

-----------------------------------------------------------------------------
(* What the consumers see.                                                 *)

\* A transaction publishes what memory was as its ticket was taken, or blends.
LEMMA WritePublishes ==
    ASSUME IInv, NEW t \in Threads, Commit(t) \/ Fail(t)
    PROVE  \/ UNCHANGED Consumers!vars
           \/ Consumers!Publish
           \/ ~Sound /\ Consumers!Blend
<1> DEFINE w == job[t]
           current == [s \in Systems |-> Visible(proj[s])]
<1>1. PICK image, at : Replay(image, at)
  BY DEF IInv
<1>2. Typed /\ Queued /\ Marked
  BY DEF IInv
<1>3. pc[t] = "writing" /\ UNCHANGED <<truth, serving, job>>
  BY DEF Commit, Fail, Transition, memory, tickets
<1>4. CASE UNCHANGED database
  <2>1. UNCHANGED <<truth, shown, current>>
    BY <1>3, <1>4 DEF database
  <2> QED
    BY <2>1 DEF Consumers!vars
<1>5. CASE WriteDatabase(w)
  <2> DEFINE e(s) == WrittenEvents(w)[s]
             k(s) == at[serving + 1][s]
             a(s) == image[serving + 1][s]
  <2>1. ASSUME NEW s \in Systems
        PROVE  /\ e(s) = NoPayload => proj'[s] = proj[s] /\ shown'[s] = shown[s]
               /\ e(s) # NoPayload => proj'[s] = e(s) /\ shown'[s] = k(s)
               /\ k(s) \in shown[s]..Len(truth[s]) /\ shown[s] \in 1..k(s)
               /\ truth[s][k(s)] = Knowledge(a(s)) /\ a(s) \in Views
               /\ WellWritten(w, s, image[serving][s], a(s))
               /\ truth[s] \in Seq(Payloads)
    <3>1. /\ serving \in 0..next /\ serving + 1 \in 0..next /\ Applied = serving
          /\ WellWritten(w, s, image[serving][s], a(s))
          /\ serving <= serving + 1 /\ a(s) \in Views
          /\ at[serving][s] \in Nat /\ k(s) \in Nat
      BY <1>1, <1>2, <1>3, Writing DEF Typed, TypeOK
    <3>2. k(s) \in 1..Len(truth[s]) /\ truth[s][k(s)] = Knowledge(a(s))
      BY <1>1, <3>1 DEF Replay, KnownThen
    <3>3. shown[s] \in 1..at[serving][s] /\ at[serving][s] <= k(s)
      BY <1>1, <3>1 DEF Replay, Committed, Growing
    <3>4. /\ e(s) = NoPayload => proj'[s] = proj[s] /\ shown'[s] = shown[s]
          /\ e(s) # NoPayload => proj'[s] = e(s) /\ shown'[s] = k(s)
      BY <1>1, <1>2, <1>3, <1>5, Wrote
    <3>5. truth[s] \in Seq(Payloads) /\ Len(truth[s]) \in Nat
      BY <1>2, LenProperties DEF Typed
    <3> QED
      BY <3>1, <3>2, <3>3, <3>4, <3>5
  <2>2. current' = [s \in Systems |-> Visible(proj'[s])]
    OBVIOUS
  <2>3. CASE \A s \in Systems : Tells(e(s), a(s))
    <3>1. ASSUME NEW s \in Systems
          PROVE  \/ shown'[s] = shown[s] /\ current'[s] = current[s]
                 \/ \E i \in shown[s]..Len(truth'[s]) :
                        shown'[s] = i /\ current'[s] = truth'[s][i]
      <4>1. CASE e(s) = NoPayload
        BY <2>1, <2>2, <4>1
      <4>2. CASE e(s) # NoPayload
        <5>1. current'[s] = truth[s][k(s)]
          BY <2>1, <2>2, <2>3, <4>2 DEF Tells
        <5> QED
          BY <1>3, <2>1, <4>2, <5>1
      <4> QED
        BY <4>1, <4>2
    <3> HIDE DEF current
    <3>2. Consumers!Advance
      BY <3>1 DEF Consumers!Advance, current
    <3> QED
      BY <1>3, <3>2 DEF Consumers!Publish
  <2>4. ASSUME NEW s \in Systems, ~Tells(e(s), a(s))
        PROVE  ~Sound /\ Consumers!Blend
    <3> DEFINE b == image[serving][s]
    <3>1. /\ w.op = "enrich" /\ s = w.system /\ rows[s] # b
          /\ IsHostile(rows[s]) /\ IsHostile(a(s))
          /\ e(s) = Present(Hostile(rows[s].n, a(s).crew))
      BY <2>1, <2>4 DEF WellWritten
    <3>2. ~Sound
      BY <1>1, <1>2, <1>3, <3>1, Writing DEF Replay, Faithful
    <3>3. PICK i \in 1..Len(truth[s]) : truth[s][i].fresh = "fresh" /\ truth[s][i].n = rows[s].n
      BY <1>1, <3>1 DEF Replay, Committed, Remembered
    <3>4. truth[s][i] \in Payloads
      BY <2>1, <3>3, ElementOfSeq
    <3>5. e(s) = [truth[s][i] EXCEPT !.crew = a(s).crew]
      BY <3>1, <3>3, <3>4 DEF Present, Hostile, Payloads
    <3>6. truth[s][k(s)].crew = a(s).crew
      <4>1. Knowledge(a(s)) = Present(a(s))
        BY <2>1, <3>1, KnowledgeOf DEF IsHostile
      <4>2. Present(a(s)).crew = a(s).crew
        BY DEF Present
      <4> QED
        BY <2>1, <4>1, <4>2
    <3>7. e(s) # NoPayload /\ Visible(e(s)) = e(s)
      BY <3>1, PayloadShape
    <3>8. ASSUME NEW z \in Systems \ {s}
          PROVE  shown'[z] = shown[z] /\ proj'[z] = proj[z]
      <4>1. e(z) = NoPayload
        BY <3>1 DEF WrittenEvents
      <4> QED
        BY <2>1, <4>1
    <3>9. shown'[s] = k(s) /\ proj'[s] = e(s)
      BY <2>1, <3>7
    <3>10. shown' = [shown EXCEPT ![s] = k(s)]
      <4>1. shown = [z \in Systems |-> shown[z]] /\ shown' = [z \in Systems |-> shown'[z]]
        BY <1>2, <1>5 DEF Typed, WriteDatabase
      <4> QED
        BY <3>8, <3>9, <4>1
    <3>11. current' = [current EXCEPT ![s] = [truth[s][i] EXCEPT !.crew = truth[s][k(s)].crew]]
      <4>1. Visible(proj'[s]) = [truth[s][i] EXCEPT !.crew = truth[s][k(s)].crew]
        BY <3>5, <3>6, <3>7, <3>9
      <4> QED
        BY <2>2, <3>8, <4>1
    <3>12. k(s) \in shown[s]..Len(truth[s])
      BY <2>1
    <3> HIDE DEF current, k
    <3>13. \E j \in shown[s]..Len(truth[s]) :
               /\ shown' = [shown EXCEPT ![s] = j]
               /\ current' = [current EXCEPT ![s] = [truth[s][i] EXCEPT !.crew = truth[s][j].crew]]
      BY <3>10, <3>11, <3>12
    <3>14. Consumers!Blend
      BY <1>3, <3>3, <3>13 DEF Consumers!Blend, current
    <3> QED
      BY <3>2, <3>14
  <2> QED
    BY <2>3, <2>4
<1> QED
  BY <1>4, <1>5 DEF Commit, Fail

\* Every other step only lets memory learn, or republishes what the rows know.
LEMMA NextPublishes ==
    ASSUME IInv, Next
    PROVE  \/ UNCHANGED Consumers!vars
           \/ Consumers!Next
           \/ ~Sound /\ Consumers!Blend
<1> DEFINE current == [s \in Systems |-> Visible(proj[s])]
<1>1. PICK image, at : Replay(image, at)
  BY DEF IInv
<1>2. Typed
  BY DEF IInv
<1>3. CASE Mutation
  <2>1. PICK t \in Threads, from \in {"idle", "expiring"}, views \in [Systems -> Views] :
            \E write : Reserved(t, from, views, write)
    BY <1>2, <1>3, Mutations DEF Mutation, Typed
  <2>2. PICK write : Reserved(t, from, views, write)
    BY <2>1
  <2>3. /\ truth' = [s \in Systems |-> Learned(truth[s], views[s])]
        /\ shown' = shown /\ proj' = proj
    BY <2>2 DEF Reserved, Reserve, database
  <2>4. ASSUME NEW s \in Systems
        PROVE  truth'[s] = truth[s] \/ \E p \in Payloads : truth'[s] = Append(truth[s], p)
    <3>1. truth[s] \in Seq(Payloads) /\ Len(truth[s]) >= 1 /\ views[s] \in Views
      BY <1>1, <1>2, Begun
    <3>2. truth'[s] = Learned(truth[s], views[s]) /\ Knowledge(views[s]) \in Payloads
      BY <2>3, <3>1, PayloadOf
    <3> QED
      BY <3>1, <3>2, LearnedOf
  <2>5. Consumers!Learn
    BY <2>4 DEF Consumers!Learn
  <2>6. shown' = shown /\ current' = current
    BY <2>3
  <2> QED
    BY <2>5, <2>6 DEF Consumers!Next, Consumers!Observe
<1>4. CASE Quiet \/ CopyMemory
  <2>1. UNCHANGED <<truth, shown, proj>>
    BY <1>4 DEF Quiet, Begin, Mark, Finish, ReadGeneration, Complete, NothingExpired, CopyMemory,
       memory, database
  <2>2. UNCHANGED <<truth, shown, current>>
    BY <2>1
  <2> QED
    BY <2>2 DEF Consumers!vars
<1>5. CASE \E t \in Threads : Commit(t) \/ Fail(t)
  BY <1>5, WritePublishes DEF Consumers!Next
<1>6. CASE Restart
  <2> DEFINE e(s) == RestartEvent(proj[s], rows[s])
  <2>1. ASSUME NEW s \in Systems
        PROVE  /\ truth'[s] = Learned(truth[s], rows[s]) /\ rows[s] \in Views
               /\ truth[s] \in Seq(Payloads) /\ Len(truth[s]) >= 1
               /\ Len(truth'[s]) \in Nat /\ Len(truth'[s]) >= Len(truth[s])
               /\ truth'[s][Len(truth'[s])] = Knowledge(rows[s])
               /\ Tells(e(s), rows[s])
               /\ proj'[s] = Project(proj[s], e(s))
               /\ shown'[s] = IF e(s) = NoPayload THEN shown[s] ELSE Len(truth'[s])
    BY <1>1, <1>2, <1>6, Restarted, Begun
  <2>2. ASSUME NEW s \in Systems
        PROVE  truth'[s] = truth[s] \/ \E p \in Payloads : truth'[s] = Append(truth[s], p)
    <3>1. Knowledge(rows[s]) \in Payloads
      BY <2>1, PayloadOf
    <3> QED
      BY <2>1, <3>1, LearnedOf
  <2>3. ASSUME NEW s \in Systems
        PROVE  \/ shown'[s] = shown[s] /\ current'[s] = current[s]
               \/ \E i \in shown[s]..Len(truth'[s]) :
                      shown'[s] = i /\ current'[s] = truth'[s][i]
    <3>1. CASE e(s) = NoPayload
      BY <2>1, <3>1 DEF Project
    <3>2. CASE e(s) # NoPayload
      <4>1. proj'[s] = e(s) /\ shown'[s] = Len(truth'[s])
        BY <2>1, <3>2 DEF Project
      <4>2. current'[s] = truth'[s][Len(truth'[s])]
        BY <2>1, <3>2, <4>1 DEF Tells
      <4>3. shown[s] \in Nat /\ shown[s] <= Len(truth[s]) /\ Len(truth[s]) \in Nat
        <5>1. shown[s] \in 1..at[Applied][s] /\ Applied \in 0..next
          BY <1>1, <1>2, AppliedOf DEF IInv, Replay, Committed
        <5>2. at[Applied][s] \in 1..Len(truth[s])
          BY <1>1, <5>1 DEF Replay, KnownThen
        <5>3. Len(truth[s]) \in Nat
          BY <2>1, LenProperties
        <5> QED
          BY <5>1, <5>2, <5>3
      <4>4. Len(truth'[s]) \in shown[s]..Len(truth'[s])
        BY <2>1, <4>3
      <4> QED
        BY <4>1, <4>2, <4>4
    <3> QED
      BY <3>1, <3>2
  <2>4. Consumers!Learn
    BY <2>2 DEF Consumers!Learn
  <2> HIDE DEF current
  <2>5. Consumers!Advance
    BY <2>3 DEF Consumers!Advance, current
  <2> QED
    BY <2>4, <2>5 DEF Consumers!Next, Consumers!Recover
<1> QED
  BY <1>3, <1>4, <1>5, <1>6, NextCases

\* Consumers never see a system go back, nor, but for a blend after a failed write,
\* anything that memory was not.
THEOREM ConsumersGoForward == Spec => NeverGoesBack
<1>1. Init => IInv
  BY InitInvariant
<1>2. IInv /\ [Next]_vars => IInv'
  BY NextInvariant
<1>3. Init => Consumers!Init
  <2> SUFFICES ASSUME Init PROVE Consumers!Init
    OBVIOUS
  <2>1. truth = [s \in Systems |-> <<NoPayload>>] /\ shown = [s \in Systems |-> 1]
        /\ proj = [s \in Systems |-> NoPayload]
    BY DEF Init
  <2>2. NoPayload \in Payloads /\ Visible(NoPayload) = NoPayload
    BY PayloadOf, PayloadShape
  <2>3. <<NoPayload>> \in [1..1 -> Payloads] /\ <<NoPayload>>[1] = NoPayload
    BY <2>2
  <2> QED
    BY <2>1, <2>2, <2>3 DEF Consumers!Init
<1>4. IInv /\ [Next]_vars =>
          [Consumers!Next \/ (~Sound /\ Consumers!Blend)]_(Consumers!vars)
  <2> SUFFICES ASSUME IInv, [Next]_vars
               PROVE  [Consumers!Next \/ (~Sound /\ Consumers!Blend)]_(Consumers!vars)
    OBVIOUS
  <2>1. CASE Next
    BY <2>1, NextPublishes
  <2>2. CASE UNCHANGED vars
    <3>1. UNCHANGED <<truth, shown, proj>>
      BY <2>2 DEF vars, memory, database
    <3> QED
      BY <3>1 DEF Consumers!vars
  <2> QED
    BY <2>1, <2>2
<1> QED
  BY <1>1, <1>2, <1>3, <1>4, PTL DEF Spec, NeverGoesBack

-----------------------------------------------------------------------------
(* The ticket FIFO.                                                        *)

\* Each ticket is paid for by a mutation or by a failure that was not yet made
\* good: the queue never needs more than that.
MarkingNow == IF \E t \in Threads : pc[t] = "marking" THEN 1 ELSE 0

RepairNow ==
    IF \/ pc[Maintenance] = "completing"
       \/ pc[Maintenance] \in {"waiting", "writing", "finishing"} /\ job[Maintenance].op = "repair"
    THEN 1 ELSE 0

Budgeted ==
    /\ mutations <= MaxMutations /\ failures <= MaxFailures
    /\ next + generation + MarkingNow <= mutations + failures + completed + RepairNow

\* It stays so.
LEMMA BudgetedStep ==
    ASSUME IInv, Budgeted, Next
    PROVE  Budgeted'
<1>1. /\ next \in Nat /\ generation \in Nat /\ completed \in Nat /\ repairing \in Nat
      /\ mutations \in Nat /\ failures \in Nat
      /\ DOMAIN pc = Threads /\ DOMAIN job = Threads /\ Maintenance \in Threads
  BY DEF IInv, Typed, TypeOK, Threads
<1>2. Typed /\ Queued /\ Marked
  BY DEF IInv
<1>3. MaxMutations \in Nat /\ MaxFailures \in Nat
  BY BoundsAssumption
<1>4. MarkingNow \in {0, 1} /\ RepairNow \in {0, 1} /\ MarkingNow' \in {0, 1} /\ RepairNow' \in {0, 1}
  BY DEF MarkingNow, RepairNow
<1>5. CASE Mutation
  <2>1. PICK t \in Threads, from \in {"idle", "expiring"}, views \in [Systems -> Views] :
            \E write : Reserved(t, from, views, write)
    BY <1>2, <1>5, Mutations DEF Mutation, Typed
  <2>2. PICK write : Reserved(t, from, views, write)
    BY <2>1
  <2>3. /\ mutations < MaxMutations /\ mutations' = mutations + 1 /\ next' = next + 1
        /\ UNCHANGED <<generation, completed, failures>>
        /\ pc[t] = from /\ pc'[t] = "waiting" /\ job'[t] = write
        /\ \A u \in Threads \ {t} : pc'[u] = pc[u] /\ job'[u] = job[u]
    BY <1>1, <2>2 DEF Reserved, Reserve, Transition, repair
  <2>4. write.op # "repair"
    BY <2>2 DEF Reserved, FitsDiff, FitsEnrich
  <2>5. MarkingNow' = MarkingNow
    BY <2>3 DEF MarkingNow
  <2>6. RepairNow' = RepairNow
    BY <1>1, <2>3, <2>4 DEF RepairNow
  <2> QED
    BY <1>1, <1>3, <1>4, <2>3, <2>5, <2>6 DEF Budgeted
<1>6. CASE CopyMemory
  <2>1. /\ next' = next + 1 /\ UNCHANGED <<generation, completed, failures, mutations>>
        /\ pc[Maintenance] = "copying" /\ pc'[Maintenance] = "waiting"
        /\ job'[Maintenance].op = "repair"
        /\ \A u \in Threads \ {Maintenance} : pc'[u] = pc[u]
    BY <1>1, <1>6 DEF CopyMemory, Transition, repair, memory
  <2>2. MarkingNow' = MarkingNow
    BY <2>1 DEF MarkingNow
  <2>3. RepairNow = 0 /\ RepairNow' = 1
    BY <2>1 DEF RepairNow
  <2> QED
    BY <1>1, <1>3, <1>4, <2>1, <2>2, <2>3 DEF Budgeted
<1>7. ASSUME NEW t \in Threads, Commit(t) \/ Fail(t)
      PROVE  Budgeted'
  <2>1. /\ pc[t] = "writing" /\ UNCHANGED <<next, generation, completed, mutations, job>>
        /\ \A u \in Threads \ {t} : pc'[u] = pc[u]
    BY <1>1, <1>7 DEF Commit, Fail, Transition, memory, tickets, repair
  <2>2. CASE Commit(t)
    <3>1. pc'[t] = "finishing" /\ failures' = failures
      BY <1>1, <2>2 DEF Commit, Transition
    <3>2. MarkingNow' = MarkingNow
      BY <2>1, <3>1 DEF MarkingNow
    <3>3. RepairNow' = RepairNow
      BY <1>1, <2>1, <3>1 DEF RepairNow
    <3> QED
      BY <1>1, <1>3, <1>4, <2>1, <3>1, <3>2, <3>3 DEF Budgeted
  <2>3. CASE Fail(t) /\ job[t].op = "repair"
    <3>1. /\ pc'[t] = "abandoning" /\ failures < MaxFailures /\ failures' = failures + 1
      BY <1>1, <2>3 DEF Fail, Transition
    <3>2. t = Maintenance
      BY <1>2, <2>1, <2>3 DEF Marked, InQueue
    <3>3. MarkingNow' = MarkingNow
      BY <2>1, <3>1 DEF MarkingNow
    <3>4. RepairNow = 1 /\ RepairNow' = 0
      BY <2>1, <2>3, <3>1, <3>2 DEF RepairNow
    <3> QED
      BY <1>1, <1>3, <1>4, <2>1, <3>1, <3>3, <3>4 DEF Budgeted
  <2>4. CASE Fail(t) /\ job[t].op # "repair"
    <3>1. /\ pc'[t] = "marking" /\ failures < MaxFailures /\ failures' = failures + 1
      BY <1>1, <2>4 DEF Fail, Transition
    <3>2. ASSUME NEW u \in Threads, pc[u] = "marking"
          PROVE  FALSE
      <4>1. job[u].ticket = serving /\ job[t].ticket = serving
        BY <1>2, <2>1, <3>2 DEF Queued, InQueue, Holding
      <4>2. u = t
        BY <1>2, <2>1, <3>2, <4>1 DEF Queued, InQueue
      <4> QED
        BY <2>1, <3>2, <4>2
    <3>3. MarkingNow = 0
      BY <3>2 DEF MarkingNow
    <3>4. RepairNow' = RepairNow
      BY <1>1, <2>1, <2>4, <3>1 DEF RepairNow
    <3> QED
      BY <1>1, <1>3, <1>4, <2>1, <3>1, <3>3, <3>4 DEF Budgeted
  <2> QED
    BY <1>7, <2>2, <2>3, <2>4
<1>8. ASSUME NEW t \in Threads, Begin(t)
      PROVE  Budgeted'
  <2>1. /\ pc[t] = "waiting" /\ pc'[t] = "writing"
        /\ UNCHANGED <<next, generation, completed, mutations, failures, job>>
        /\ \A u \in Threads \ {t} : pc'[u] = pc[u]
    BY <1>1, <1>8 DEF Begin, Transition, memory, tickets, repair
  <2>2. MarkingNow' = MarkingNow
    BY <2>1 DEF MarkingNow
  <2>3. RepairNow' = RepairNow
    BY <1>1, <2>1 DEF RepairNow
  <2> QED
    BY <2>1, <2>2, <2>3 DEF Budgeted
<1>9. ASSUME NEW t \in Threads, Mark(t)
      PROVE  Budgeted'
  <2>1. /\ pc[t] = "marking" /\ pc'[t] = "finishing" /\ generation' = generation + 1
        /\ UNCHANGED <<next, completed, mutations, failures, job>>
        /\ \A u \in Threads \ {t} : pc'[u] = pc[u]
    BY <1>1, <1>9 DEF Mark, Transition, memory, tickets
  <2>2. MarkingNow = 1
    BY <2>1 DEF MarkingNow
  <2>3. ASSUME NEW u \in Threads, pc'[u] = "marking"
        PROVE  FALSE
    <3>1. u # t /\ pc[u] = "marking"
      BY <2>1, <2>3
    <3>2. job[u].ticket = serving /\ job[t].ticket = serving
      BY <1>2, <2>1, <3>1 DEF Queued, InQueue, Holding
    <3> QED
      BY <1>2, <2>1, <3>1, <3>2 DEF Queued, InQueue
  <2>4. MarkingNow' = 0
    BY <2>3 DEF MarkingNow
  <2>5. RepairNow' = RepairNow
    BY <1>1, <1>2, <2>1 DEF RepairNow, Marked
  <2> QED
    BY <1>1, <1>3, <1>4, <2>1, <2>2, <2>4, <2>5 DEF Budgeted
<1>10. ASSUME NEW t \in Threads, Finish(t)
       PROVE  Budgeted'
  <2>1. /\ UNCHANGED <<next, generation, completed, mutations, failures>>
        /\ \A u \in Threads \ {t} : pc'[u] = pc[u] /\ job'[u] = job[u]
        /\ \/ pc[t] = "finishing" /\ job[t].op # "repair" /\ pc'[t] = "idle"
           \/ pc[t] = "finishing" /\ job[t].op = "repair" /\ pc'[t] = "completing"
           \/ pc[t] = "abandoning" /\ pc'[t] = "idle"
    BY <1>1, <1>10 DEF Finish, Transition, repair, memory
  <2>2. MarkingNow' = MarkingNow
    BY <2>1 DEF MarkingNow
  <2>3. RepairNow' = RepairNow
    BY <1>1, <2>1 DEF RepairNow
  <2> QED
    BY <2>1, <2>2, <2>3 DEF Budgeted
<1>11. CASE ReadGeneration \/ NothingExpired
  <2>1. /\ UNCHANGED <<next, generation, completed, mutations, failures>>
        /\ pc[Maintenance] \in {"idle", "expiring"}
        /\ pc'[Maintenance] \in {"idle", "expiring", "copying"}
        /\ \A u \in Threads \ {Maintenance} : pc'[u] = pc[u]
    BY <1>1, <1>11 DEF ReadGeneration, NothingExpired, Transition, repair, memory, tickets
  <2>2. MarkingNow' = MarkingNow
    BY <2>1 DEF MarkingNow
  <2>3. RepairNow' = RepairNow
    BY <2>1 DEF RepairNow
  <2> QED
    BY <2>1, <2>2, <2>3 DEF Budgeted
<1>12. CASE Complete
  <2>1. /\ UNCHANGED <<next, generation, mutations, failures>> /\ completed' = repairing
        /\ pc[Maintenance] = "completing" /\ pc'[Maintenance] = "expiring"
        /\ \A u \in Threads \ {Maintenance} : pc'[u] = pc[u]
    BY <1>1, <1>12 DEF Complete, Transition, memory, tickets
  <2>2. completed < repairing
    BY <1>2, <2>1 DEF Marked, RepairUnderWay
  <2>3. MarkingNow' = MarkingNow
    BY <2>1 DEF MarkingNow
  <2>4. RepairNow = 1 /\ RepairNow' = 0
    BY <2>1 DEF RepairNow
  <2> QED
    BY <1>1, <1>3, <1>4, <2>1, <2>2, <2>3, <2>4 DEF Budgeted
<1>13. CASE Restart
  <2>1. /\ next' = 0 /\ generation' = 0 /\ completed' = 0 /\ UNCHANGED <<mutations, failures>>
        /\ \A t \in Threads : pc'[t] = "idle"
    BY <1>13 DEF Restart
  <2>2. MarkingNow' = 0
    BY <2>1 DEF MarkingNow
  <2>3. RepairNow' = 0
    BY <1>1, <2>1 DEF RepairNow
  <2>4. /\ next' = 0 /\ generation' = 0 /\ completed' = 0
        /\ mutations' = mutations /\ failures' = failures
    BY <2>1
  <2> QED
    BY <1>1, <2>2, <2>3, <2>4 DEF Budgeted
<1> QED
  BY <1>5, <1>6, <1>7, <1>8, <1>9, <1>10, <1>11, <1>12, <1>13, NextCases DEF Quiet

\* So there is always room for the ticket of a mutation or a repair.
LEMMA RoomLeft ==
    ASSUME IInv, Budgeted
    PROVE  /\ mutations < MaxMutations => next < MaxMutations + 2 * MaxFailures
           /\ pc[Maintenance] = "copying" => next < MaxMutations + 2 * MaxFailures
<1>1. /\ next \in Nat /\ generation \in Nat /\ completed \in Nat /\ repairing \in Nat
      /\ mutations \in Nat /\ failures \in Nat /\ MaxMutations \in Nat /\ MaxFailures \in Nat
  BY BoundsAssumption DEF IInv, Typed, TypeOK
<1>2. MarkingNow \in {0, 1}
  BY DEF MarkingNow
<1>3. completed <= generation /\ repairing <= generation /\ (RepairUnderWay => completed < repairing)
  BY DEF IInv, Marked
<1>4. CASE RepairUnderWay
  <2>1. RepairNow \in {0, 1} /\ (pc[Maintenance] = "copying" => RepairNow = 0)
    BY DEF RepairNow
  <2> QED
    BY <1>1, <1>2, <1>3, <1>4, <2>1 DEF Budgeted
<1>5. CASE ~RepairUnderWay
  <2>1. RepairNow = 0 /\ pc[Maintenance] # "copying"
    BY <1>5 DEF RepairNow, RepairUnderWay, InQueue
  <2> QED
    BY <1>1, <1>2, <1>3, <2>1 DEF Budgeted
<1> QED
  BY <1>4, <1>5

\* Each step of the store takes, serves or hands on a ticket, leaves the queue
\* alone, or starts with a new one.
LEMMA NextObeys ==
    ASSUME IInv, Budgeted, Next
    PROVE  \/ UNCHANGED Queue!vars
           \/ Queue!Next
           \/ crashes' # crashes /\ Queue!Init'
<1> DEFINE place(c) == CASE c = "waiting" -> "waiting"
                         [] c \in {"writing", "marking", "abandoning", "finishing"} -> "writing"
                         [] OTHER -> "idle"
           where == [t \in Threads |->
                       CASE pc[t] = "waiting" -> "waiting"
                         [] pc[t] \in {"writing", "marking", "abandoning", "finishing"} -> "writing"
                         [] OTHER -> "idle"]
           held == [t \in Threads |-> job[t].ticket]
<1>1. /\ DOMAIN pc = Threads /\ DOMAIN job = Threads /\ Maintenance \in Threads
      /\ next \in Nat /\ serving \in Nat
  BY DEF IInv, Typed, TypeOK, Threads
<1>2. /\ where = [t \in Threads |-> place(pc[t])] /\ where' = [t \in Threads |-> place(pc'[t])]
      /\ held' = [t \in Threads |-> job'[t].ticket]
  OBVIOUS
<1>3. /\ place("waiting") = "waiting"
      /\ \A c \in Holding : place(c) = "writing"
      /\ \A c \in {"idle", "completing", "copying", "expiring"} : place(c) = "idle"
  BY DEF Holding
<1> HIDE DEF place
\* A thread takes the next ticket.
<1>4. ASSUME NEW t \in Threads, NEW w, NEW from \in {"idle", "copying", "expiring"},
             pc[t] = from, pc' = [pc EXCEPT ![t] = "waiting"],
             job' = [job EXCEPT ![t] = w], w.ticket = next,
             next < MaxMutations + 2 * MaxFailures, next' = next + 1, serving' = serving
      PROVE  Queue!Next
  <2>1. where' = [where EXCEPT ![t] = "waiting"]
    BY <1>1, <1>2, <1>3, <1>4
  <2>2. held' = [held EXCEPT ![t] = next]
    BY <1>1, <1>2, <1>4
  <2>3. where[t] = "idle"
    BY <1>2, <1>3, <1>4
  <2> HIDE DEF where, held
  <2>4. Queue!Reserve(t)
    BY <1>4, <2>1, <2>2, <2>3 DEF Queue!Reserve, Queue!Transition, where, held
  <2> QED
    BY <2>4 DEF Queue!Next
\* A thread moves about without leaving its place.
<1>5. ASSUME NEW t \in Threads, NEW to, pc' = [pc EXCEPT ![t] = to], place(to) = place(pc[t]),
             UNCHANGED <<next, serving, job>>
      PROVE  UNCHANGED Queue!vars
  <2>1. where' = where
    BY <1>1, <1>2, <1>5
  <2>2. UNCHANGED <<next, serving, where, held>>
    BY <1>2, <1>5, <2>1
  <2> QED
    BY <2>2 DEF Queue!vars
<1>6. CASE Mutation
  <2>1. PICK t \in Threads, from \in {"idle", "expiring"}, views \in [Systems -> Views] :
            \E write : Reserved(t, from, views, write)
    BY <1>6, Mutations DEF Mutation, IInv, Typed
  <2>2. PICK write : Reserved(t, from, views, write)
    BY <2>1
  <2>3. next < MaxMutations + 2 * MaxFailures
    BY <2>2, RoomLeft DEF Reserved, Reserve
  <2>4. Queue!Next
    BY <1>4, <2>2, <2>3 DEF Reserved, Reserve, Transition
  <2> QED
    BY <2>4
<1>7. CASE CopyMemory
  <2> DEFINE w == [op |-> "repair", ticket |-> next, image |-> mem, version |-> Versions]
  <2>1. /\ pc' = [pc EXCEPT ![Maintenance] = "waiting"] /\ job' = [job EXCEPT ![Maintenance] = w]
        /\ next' = next + 1 /\ serving' = serving /\ pc[Maintenance] = "copying"
    BY <1>7 DEF CopyMemory, Transition
  <2>2. w.ticket = next
    OBVIOUS
  <2>3. next < MaxMutations + 2 * MaxFailures
    BY <2>1, RoomLeft
  <2> HIDE DEF w
  <2>4. Queue!Next
    BY <1>1, <1>4, <2>1, <2>2, <2>3
  <2> QED
    BY <2>4
<1>8. ASSUME NEW t \in Threads, Begin(t)
      PROVE  Queue!Next
  <2>1. /\ pc[t] = "waiting" /\ pc' = [pc EXCEPT ![t] = "writing"]
        /\ serving = job[t].ticket /\ UNCHANGED <<next, serving, job>>
    BY <1>8 DEF Begin, Transition, tickets
  <2>2. where' = [where EXCEPT ![t] = "writing"] /\ where[t] = "waiting"
    <3>1. place("writing") = "writing"
      BY <1>3 DEF Holding
    <3>2. pc'[t] = "writing" /\ \A u \in Threads \ {t} : pc'[u] = pc[u]
      BY <1>1, <2>1
    <3> HIDE DEF where, held
    <3> QED
      BY <1>2, <1>3, <2>1, <3>1, <3>2
  <2>3. held' = held /\ held[t] = serving
    BY <1>2, <2>1
  <2> HIDE DEF where, held
  <2>4. Queue!Begin(t)
    BY <2>1, <2>2, <2>3 DEF Queue!Begin, Queue!Transition, where, held
  <2> QED
    BY <2>4 DEF Queue!Next
<1>9. ASSUME NEW t \in Threads, Finish(t)
      PROVE  Queue!Next
  <2>1. /\ pc[t] \in {"finishing", "abandoning"}
        /\ \E to \in {"idle", "completing"} : pc' = [pc EXCEPT ![t] = to]
        /\ job' = [job EXCEPT ![t] = NoJob] /\ next' = next
        /\ serving' = IF serving <= job[t].ticket THEN job[t].ticket + 1 ELSE serving
    BY <1>9 DEF Finish, Transition
  <2>2. where' = [where EXCEPT ![t] = "idle"] /\ where[t] = "writing"
    BY <1>1, <1>2, <1>3, <2>1 DEF Holding
  <2>3. held' = [held EXCEPT ![t] = 0] /\ held[t] = job[t].ticket
    BY <1>1, <1>2, <2>1 DEF NoJob
  <2> HIDE DEF where, held
  <2>4. Queue!Finish(t)
    BY <2>1, <2>2, <2>3 DEF Queue!Finish, Queue!Transition, where, held
  <2> QED
    BY <2>4 DEF Queue!Next
<1>10. ASSUME NEW t \in Threads, Commit(t) \/ Fail(t) \/ Mark(t)
       PROVE  UNCHANGED Queue!vars
  <2>1. pc[t] \in Holding /\ UNCHANGED <<next, serving, job>>
    BY <1>10 DEF Commit, Fail, Mark, Transition, tickets, Holding
  <2>2. PICK to \in Holding : pc' = [pc EXCEPT ![t] = to]
    BY <1>10 DEF Commit, Fail, Mark, Transition, Holding
  <2>3. place(to) = place(pc[t])
    BY <1>3, <2>1, <2>2
  <2> QED
    BY <1>5, <2>1, <2>2, <2>3
<1>11. CASE ReadGeneration \/ Complete \/ NothingExpired
  <2>1. /\ pc[Maintenance] \in {"idle", "completing", "copying", "expiring"}
        /\ UNCHANGED <<next, serving, job>>
    BY <1>11 DEF ReadGeneration, Complete, NothingExpired, Transition, tickets
  <2>2. PICK to \in {"idle", "completing", "copying", "expiring"} : pc' = [pc EXCEPT ![Maintenance] = to]
    BY <1>11 DEF ReadGeneration, Complete, NothingExpired, Transition
  <2>3. place(to) = place(pc[Maintenance])
    BY <1>3, <2>1, <2>2
  <2> QED
    BY <1>1, <1>5, <2>1, <2>2, <2>3
<1>12. CASE Restart
  <2>1. /\ next' = 0 /\ serving' = 0 /\ pc' = [t \in Threads |-> "idle"]
        /\ job' = [t \in Threads |-> NoJob] /\ crashes' = crashes + 1
    BY <1>12 DEF Restart
  <2>2. crashes' # crashes
    BY <2>1 DEF IInv, Typed, TypeOK
  <2>3. where' = [t \in Threads |-> "idle"]
    BY <1>2, <1>3, <2>1
  <2>4. held' = [t \in Threads |-> 0]
    BY <1>2, <2>1 DEF NoJob
  <2> HIDE DEF where, held
  <2>5. Queue!Init'
    BY <2>1, <2>3, <2>4 DEF Queue!Init, where, held
  <2> QED
    BY <2>2, <2>5
<1> QED
  BY <1>6, <1>7, <1>8, <1>9, <1>10, <1>11, <1>12, NextCases DEF Quiet

\* The writes of the store take, serve and hand on their tickets as module
\* WriteQueue says, and a process that dies takes its queue with it.
THEOREM WritesObeyQueue == Spec => ObeysQueue
<1> DEFINE QInv == IInv /\ Budgeted
<1>1. Init => QInv
  <2> SUFFICES ASSUME Init PROVE Budgeted
    BY InitInvariant
  <2>1. /\ next = 0 /\ generation = 0 /\ completed = 0 /\ mutations = 0 /\ failures = 0
        /\ \A t \in Threads : pc[t] = "idle"
    BY DEF Init
  <2>2. Maintenance \in Threads /\ MaxMutations \in Nat /\ MaxFailures \in Nat
    BY BoundsAssumption DEF Threads
  <2>3. MarkingNow = 0 /\ RepairNow = 0
    BY <2>1, <2>2 DEF MarkingNow, RepairNow
  <2> QED
    BY <2>1, <2>2, <2>3 DEF Budgeted
<1>2. QInv /\ [Next]_vars => QInv'
  <2> SUFFICES ASSUME IInv, Budgeted, [Next]_vars PROVE Budgeted'
    BY NextInvariant
  <2>1. CASE Next
    BY <2>1, BudgetedStep
  <2>2. CASE UNCHANGED vars
    <3>1. /\ UNCHANGED <<next, generation, completed, mutations, failures, pc, job>>
      BY <2>2 DEF vars, memory, tickets, repair
    <3>2. MarkingNow' = MarkingNow /\ RepairNow' = RepairNow
      BY <3>1 DEF MarkingNow, RepairNow
    <3> QED
      BY <3>1, <3>2 DEF Budgeted
  <2> QED
    BY <2>1, <2>2
<1>3. Init => Queue!Init
  <2> SUFFICES ASSUME Init PROVE Queue!Init
    OBVIOUS
  <2>1. /\ next = 0 /\ serving = 0 /\ pc = [t \in Threads |-> "idle"]
        /\ job = [t \in Threads |-> NoJob]
    BY DEF Init
  <2>2. [t \in Threads |-> job[t].ticket] = [t \in Threads |-> 0]
    BY <2>1 DEF NoJob
  <2>3. [t \in Threads |->
           CASE pc[t] = "waiting" -> "waiting"
             [] pc[t] \in {"writing", "marking", "abandoning", "finishing"} -> "writing"
             [] OTHER -> "idle"] = [t \in Threads |-> "idle"]
    BY <2>1
  <2> QED
    BY <2>1, <2>2, <2>3 DEF Queue!Init
<1>4. QInv /\ [Next]_vars =>
          [Queue!Next \/ (crashes' # crashes /\ Queue!Init')]_(Queue!vars)
  <2> SUFFICES ASSUME IInv, Budgeted, [Next]_vars
               PROVE  [Queue!Next \/ (crashes' # crashes /\ Queue!Init')]_(Queue!vars)
    OBVIOUS
  <2>1. CASE Next
    BY <2>1, NextObeys
  <2>2. CASE UNCHANGED vars
    <3>1. UNCHANGED <<next, serving, pc, job>>
      BY <2>2 DEF vars, tickets
    <3> QED
      BY <3>1 DEF Queue!vars
  <2> QED
    BY <2>1, <2>2
<1> QED
  BY <1>1, <1>2, <1>3, <1>4, PTL DEF Spec, ObeysQueue
=============================================================================
