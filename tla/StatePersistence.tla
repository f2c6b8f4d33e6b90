-------------------------- MODULE StatePersistence --------------------------
(***************************************************************************)
(* How the PostgreSQL store (app/server/postgres_store.py, state_repair.py,*)
(* state_maintenance.py, system_state.py) turns mutations of its in-memory *)
(* monitoring state into the committed current state that every consumer   *)
(* reads.  A request, enrichment or maintenance thread changes memory under*)
(* the store lock, computes the changed rows and the state events, takes a *)
(* ticket of the write FIFO and leaves the lock.  When its turn comes one  *)
(* transaction writes the rows, the events and the projection.  A failed   *)
(* transaction marks the store for repair: the maintenance thread then     *)
(* writes one ordered snapshot of the whole memory.                        *)
(*                                                                         *)
(* What a system's primary shows is abstracted to a view: never monitored, *)
(* lost (no resident source any more), a confirmed zero, or n hostiles     *)
(* whose identified crew is published or not.  n stands for everything the *)
(* event fingerprint distinguishes (count, primary, generation).           *)
(***************************************************************************)
EXTENDS Integers, FiniteSets, Sequences

CONSTANTS
    Systems,        \* monitored star systems
    Uploaders,      \* request threads
    Enrichers,      \* identity enrichment threads
    Maintenance,    \* the state maintenance thread
    MaxCount,       \* bound on the hostile count
    MaxMutations,   \* bound on the mutations of memory
    MaxFailures,    \* bound on the failed transactions
    MaxCrashes      \* bound on the process restarts

ASSUME BoundsAssumption ==
    /\ MaxCount \in Nat \ {0}
    /\ {MaxMutations, MaxFailures, MaxCrashes} \subseteq Nat
    /\ Maintenance \notin Uploaders \cup Enrichers

Threads == Uploaders \cup Enrichers \cup {Maintenance}

VARIABLES
    mem,            \* view of each system in memory (_active_intel)
    rows,           \* view of each system in the active_intel table
    proj,           \* payload of each system in system_current_state
    next, serving,  \* the ticket counters
    pc,             \* where each thread is
    job,            \* the write each thread has to do
    generation,     \* StateRepair.generation: failed writes marked
    completed,      \* StateRepair.completed: the marks already repaired
    repairing,      \* the generation a running repair has read
    truth, shown,   \* history: what memory knew of a system, and the last committed
    mutations, failures, crashes

memory == <<mem, truth, mutations>>
database == <<rows, proj, shown>>
tickets == <<next, serving>>
repair == <<generation, completed, repairing>>
vars == <<memory, database, tickets, repair, pc, job, failures, crashes>>

-----------------------------------------------------------------------------
(* Views, payloads and events *)

Absent == [kind |-> "absent", n |-> 0, crew |-> FALSE]
Zero == [kind |-> "zero", n |-> 0, crew |-> FALSE]
Lost(n) == [kind |-> "lost", n |-> n, crew |-> FALSE]
Hostile(n, crew) == [kind |-> "hostile", n |-> n, crew |-> crew]

HostileViews == {Hostile(n, crew) : n \in 1..MaxCount, crew \in BOOLEAN}
Views == {Absent, Zero} \cup {Lost(n) : n \in 0..MaxCount} \cup HostileViews

IsHostile(v) == v.kind = "hostile"
Sourceless(v) == v.kind \in {"absent", "lost"}

NoPayload == [fresh |-> "none", n |-> 0, crew |-> FALSE]
ClearPayload == [fresh |-> "fresh", n |-> 0, crew |-> FALSE]
Unknown(n, crew) == [fresh |-> "unknown", n |-> n, crew |-> crew]
Present(v) == [fresh |-> "fresh", n |-> v.n, crew |-> v.crew]

Payloads == [fresh : {"none", "fresh", "unknown"}, n : 0..MaxCount, crew : BOOLEAN]

\* _hostile_state_events with reconcile_zero_events: the event of a system
\* whose view went from b to a, or NoPayload.  A confirmed zero is projected
\* again on every mutation, of whichever system; losing the source of a zero
\* or of a hostile state makes it unknown, never clear.
DiffEvent(b, a) ==
    CASE IsHostile(a) /\ a # b -> Present(a)
      [] a = Zero -> ClearPayload
      [] IsHostile(b) /\ Sourceless(a) -> Unknown(b.n, b.crew)
      [] b = Zero /\ a.kind = "lost" -> Unknown(0, FALSE)
      [] OTHER -> NoPayload

\* Mutant of RestartEvent: what has no source is reported clear.
RestartEventClearing(p, a) ==
    IF IsHostile(a) THEN Present(a) ELSE ClearPayload

\* The event of the startup reconciliation, from the committed projection p.
RestartEvent(p, a) ==
    CASE IsHostile(a) -> Present(a)
      [] a = Zero -> ClearPayload
      [] p.n > 0 /\ Sourceless(a) -> Unknown(p.n, p.crew)
      [] OTHER -> NoPayload

\* Mutant of RepairEvent: confirmed zeros are not projected again.
RepairEventWithoutZeros(p, a) ==
    IF a = Zero THEN NoPayload ELSE RestartEvent(p, a)

\* The event of a repair.  Only a lost row whose own count is zero counts as
\* a previous zero.
RepairEvent(p, a) ==
    CASE a.kind = "lost" /\ a.n = 0 /\ p.n = 0 -> Unknown(0, FALSE)
      [] OTHER -> RestartEvent(p, a)

\* The event of an enrichment, from the rows its transaction reads.
EnrichEvent(b, a) ==
    IF IsHostile(a) /\ a # b THEN Present(a) ELSE NoPayload

\* APPEND_EVENT: an event whose payload is already projected is not inserted.
Project(p, e) == IF e = NoPayload THEN p ELSE e

\* The views a mutation can give a system: a source reports a zero or
\* hostiles, moves away, stops or expires.
NextViews(v) ==
    {Zero} \cup HostileViews \cup
    CASE v.kind = "hostile" -> {Lost(v.n), Lost(0)}
      [] OTHER -> {Lost(0)}

\* What a consumer sees: an unknown state hides the last count and crew.
Visible(p) == IF p.fresh = "unknown" THEN Unknown(0, FALSE) ELSE p

\* What memory knows of a system, as a consumer would see it.
Knowledge(v) ==
    CASE v.kind = "absent" -> NoPayload
      [] v.kind = "lost" -> Unknown(0, FALSE)
      [] v.kind = "zero" -> ClearPayload
      [] OTHER -> Present(v)

Learned(history, v) ==
    IF Knowledge(v) = history[Len(history)] THEN history ELSE Append(history, Knowledge(v))

Versions == [s \in Systems |-> Len(truth[s])]

NoJob == [op |-> "none", ticket |-> 0]

Transition(t, from, to) ==
    /\ pc[t] = from
    /\ pc' = [pc EXCEPT ![t] = to]

-----------------------------------------------------------------------------
Init ==
    /\ mem = [s \in Systems |-> Absent]
    /\ rows = mem
    /\ proj = [s \in Systems |-> NoPayload]
    /\ next = 0 /\ serving = 0
    /\ pc = [t \in Threads |-> "idle"]
    /\ job = [t \in Threads |-> NoJob]
    /\ generation = 0 /\ completed = 0 /\ repairing = 0
    /\ truth = [s \in Systems |-> <<NoPayload>>]
    /\ shown = [s \in Systems |-> 1]
    /\ mutations = 0 /\ failures = 0 /\ crashes = 0

\* Under the store lock: memory changes to views, the rows and events of the
\* change are computed and the ticket is reserved.  Rows are written for the
\* systems the mutation touched; their crew only if it changed.
Reserve(t, from, views, write) ==
    /\ Transition(t, from, "waiting")
    /\ mutations < MaxMutations
    /\ mutations' = mutations + 1
    /\ mem' = views
    /\ truth' = [s \in Systems |-> Learned(truth[s], views[s])]
    /\ job' = [job EXCEPT ![t] = write]
    /\ next' = next + 1
    /\ UNCHANGED <<database, serving, repair, failures, crashes>>

DiffJob(touched, views) ==
    [op |-> "diff",
     ticket |-> next,
     image |-> [s \in touched |-> views[s]],
     crewed |-> {s \in touched : views[s].crew # mem[s].crew},
     events |-> [s \in Systems |-> DiffEvent(mem[s], views[s])],
     version |-> Versions']

\* record_hostile_presence, record_ocr_snapshot and the expiries that
\* requests run: one source's upload touches its system and the one it left.
Mutate(t) ==
    \E touched \in SUBSET Systems \ {{}} :
        \E changed \in [touched -> Views] :
            /\ \A s \in touched : changed[s] \in NextViews(mem[s])
            /\ LET views == [s \in Systems |-> IF s \in touched THEN changed[s] ELSE mem[s]]
               IN  Reserve(t, "idle", views, DiffJob(touched, views))

\* The identity worker resolves a pilot of a hostile system: the crew is
\* known, or no longer hostile.  Its events are computed in the transaction.
Enrich(t, s) ==
    /\ IsHostile(mem[s])
    /\ \E crew \in BOOLEAN :
          Reserve(t, "idle", [mem EXCEPT ![s].crew = crew],
                  [op |-> "enrich", ticket |-> next, system |-> s,
                   crew |-> crew, version |-> Versions'])

\* _wait_for_db_write returns and the transaction starts.
Begin(t) ==
    /\ serving = job[t].ticket
    /\ Transition(t, "waiting", "writing")
    /\ UNCHANGED <<memory, database, tickets, repair, job, failures, crashes>>

\* Mutant of WrittenRows: an enrichment writes a crew whatever the row shows.
WrittenRowsCrewAnywhere(w) ==
    CASE w.op = "enrich" -> [rows EXCEPT ![w.system].crew = w.crew]
      [] w.op = "repair" -> w.image
      [] OTHER -> [s \in Systems |-> IF s \in DOMAIN w.image THEN w.image[s] ELSE rows[s]]

\* The rows a write leaves.  A repair replaces the table by its image.
WrittenRows(w) ==
    CASE w.op = "enrich" ->
            [rows EXCEPT ![w.system].crew = IF IsHostile(rows[w.system]) THEN w.crew ELSE @]
      [] w.op = "repair" -> w.image
      [] OTHER ->
            [s \in Systems |->
                IF s \notin DOMAIN w.image THEN rows[s]
                ELSE IF s \in w.crewed THEN w.image[s]
                ELSE [w.image[s] EXCEPT !.crew = IsHostile(w.image[s]) /\ rows[s].crew]]

WrittenEvents(w) ==
    CASE w.op = "enrich" ->
            [s \in Systems |-> IF s = w.system THEN EnrichEvent(rows[s], WrittenRows(w)[s])
                                               ELSE NoPayload]
      [] w.op = "repair" -> [s \in Systems |-> RepairEvent(proj[s], w.image[s])]
      [] OTHER -> w.events

\* Rows, events and projection are one transaction.
WriteDatabase(w) ==
    LET events == WrittenEvents(w)
    IN  /\ rows' = WrittenRows(w)
        /\ proj' = [s \in Systems |-> Project(proj[s], events[s])]
        /\ shown' = [s \in Systems |->
                        IF events[s] = NoPayload THEN shown[s] ELSE w.version[s]]

Commit(t) ==
    /\ Transition(t, "writing", "finishing")
    /\ WriteDatabase(job[t])
    /\ UNCHANGED <<memory, tickets, repair, job, failures, crashes>>

\* The transaction raises.  It was rolled back, or it committed and only its
\* acknowledgement was lost.  A repair that fails leaves no new mark.
Fail(t) ==
    /\ failures < MaxFailures
    /\ failures' = failures + 1
    /\ Transition(t, "writing", IF job[t].op = "repair" THEN "abandoning" ELSE "marking")
    /\ \/ WriteDatabase(job[t])
       \/ UNCHANGED database
    /\ UNCHANGED <<memory, tickets, repair, job, crashes>>

\* mark_failed_write, in the except clause.
Mark(t) ==
    /\ Transition(t, "marking", "finishing")
    /\ generation' = generation + 1
    /\ UNCHANGED <<memory, database, tickets, completed, repairing, job, failures, crashes>>

\* _finish_db_write, in the finally clause.
Finish(t) ==
    /\ \/ job[t].op # "repair" /\ Transition(t, "finishing", "idle")
       \/ job[t].op = "repair" /\ Transition(t, "finishing", "completing")
       \/ Transition(t, "abandoning", "idle")
    /\ serving' = IF serving <= job[t].ticket THEN job[t].ticket + 1 ELSE serving
    /\ job' = [job EXCEPT ![t] = NoJob]
    /\ UNCHANGED <<memory, database, next, repair, failures, crashes>>

-----------------------------------------------------------------------------
(* The maintenance thread: repair what failed, then expire, every second.  *)

\* Mutant of ReadGeneration: a single failure does not start a repair.
ReadGenerationOffByOne ==
    /\ Transition(Maintenance, "idle",
                  IF generation <= completed + 1 THEN "expiring" ELSE "copying")
    /\ repairing' = generation
    /\ UNCHANGED <<memory, database, tickets, generation, completed, job, failures, crashes>>

\* StateRepair.run reads the generation under its own lock.
ReadGeneration ==
    /\ Transition(Maintenance, "idle",
                  IF generation = completed THEN "expiring" ELSE "copying")
    /\ repairing' = generation
    /\ UNCHANGED <<memory, database, tickets, generation, completed, job, failures, crashes>>

\* Mutant of CopyMemory: the repair takes no ticket of its own.
CopyMemoryUnqueued ==
    /\ Transition(Maintenance, "copying", "waiting")
    /\ job' = [job EXCEPT ![Maintenance] =
                  [op |-> "repair", ticket |-> next, image |-> mem, version |-> Versions]]
    /\ UNCHANGED <<memory, database, tickets, repair, failures, crashes>>

\* Under the store lock: the memory image and the ticket of the repair.
CopyMemory ==
    /\ Transition(Maintenance, "copying", "waiting")
    /\ job' = [job EXCEPT ![Maintenance] =
                  [op |-> "repair", ticket |-> next, image |-> mem, version |-> Versions]]
    /\ next' = next + 1
    /\ UNCHANGED <<memory, database, serving, repair, failures, crashes>>

\* The marks the repair has read are made good.
Complete ==
    /\ Transition(Maintenance, "completing", "expiring")
    /\ completed' = repairing
    /\ UNCHANGED <<memory, database, tickets, generation, repairing, job, failures, crashes>>

\* expire_active_intel: the sources of some systems ran out of their leases.
Expire ==
    \E gone \in SUBSET {s \in Systems : mem[s].kind \in {"zero", "hostile"}} \ {{}} :
        LET views == [s \in Systems |-> IF s \in gone THEN Lost(mem[s].n) ELSE mem[s]]
        IN  Reserve(Maintenance, "expiring", views, DiffJob(gone, views))

NothingExpired ==
    /\ Transition(Maintenance, "expiring", "idle")
    /\ UNCHANGED <<memory, database, tickets, repair, job, failures, crashes>>

-----------------------------------------------------------------------------
\* The process dies at any point and a new one loads the rows, reconciles the
\* projection with them and starts with an empty queue.
Restart ==
    /\ crashes < MaxCrashes
    /\ crashes' = crashes + 1
    /\ mem' = rows
    /\ truth' = [s \in Systems |-> Learned(truth[s], rows[s])]
    /\ proj' = [s \in Systems |-> Project(proj[s], RestartEvent(proj[s], rows[s]))]
    /\ shown' = [s \in Systems |->
                    IF RestartEvent(proj[s], rows[s]) = NoPayload THEN shown[s] ELSE Len(truth'[s])]
    /\ next' = 0 /\ serving' = 0
    /\ pc' = [t \in Threads |-> "idle"]
    /\ job' = [t \in Threads |-> NoJob]
    /\ generation' = 0 /\ completed' = 0 /\ repairing' = 0
    /\ UNCHANGED <<rows, mutations, failures>>

Write(t) == Begin(t) \/ Commit(t) \/ Fail(t) \/ Mark(t) \/ Finish(t)

Next ==
    \/ \E t \in Uploaders : Mutate(t)
    \/ \E t \in Enrichers, s \in Systems : Enrich(t, s)
    \/ \E t \in Threads : Write(t)
    \/ ReadGeneration \/ CopyMemory \/ Complete
    \/ Expire \/ NothingExpired
    \/ Restart

Spec == Init /\ [][Next]_vars

(* A thread inside a write is runnable and the maintenance thread loops    *)
(* every second, so their steps are fair; uploads, failures and crashes    *)
(* are not owed.                                                           *)
Fairness ==
    /\ \A t \in Threads : /\ WF_vars(Begin(t))
                          /\ WF_vars(Commit(t) \/ Fail(t))
                          /\ WF_vars(Mark(t))
                          /\ WF_vars(Finish(t))
    /\ WF_vars(ReadGeneration)
    /\ WF_vars(CopyMemory)
    /\ WF_vars(Complete)
    /\ WF_vars(Expire \/ NothingExpired)

FairSpec == Spec /\ Fairness

-----------------------------------------------------------------------------
(* Properties *)

TypeOK ==
    /\ mem \in [Systems -> Views]
    /\ rows \in [Systems -> Views]
    /\ proj \in [Systems -> Payloads]
    /\ {next, serving, generation, completed, repairing} \subseteq Nat
    /\ pc \in [Threads -> {"idle", "waiting", "writing", "marking", "abandoning", "finishing",
                           "completing", "copying", "expiring"}]
    /\ {mutations, failures, crashes} \subseteq Nat

\* No write is on its way and no failed write is waiting for its repair.
Settled ==
    /\ \A t \in Threads : pc[t] \in {"idle", "expiring"}
    /\ generation = completed

\* The committed state of a system with a source is the one in memory, and a
\* system without one is not shown as hostile.
Agrees(v, p) ==
    IF Sourceless(v) THEN p.fresh # "fresh" \/ p.n = 0 ELSE p = Knowledge(v)

\* Once settled, the stored rows are the memory a restart would lose, and the
\* committed states agree with it, however many writes failed, and however the
\* repair overlapped new uploads (state_repair.py 43, postgres_store.py 856).
StorageMatchesMemory ==
    Settled => rows = mem /\ \A s \in Systems : Agrees(mem[s], proj[s])

\* A state that is committed as current has its raw rows committed with it: a
\* restart, which knows only the rows, knows what the current state claims.
CommittedTogether ==
    \A s \in Systems : proj[s].fresh = "fresh" => proj[s] = Knowledge(rows[s])

\* The stronger promise of reconcile_zero_events ("without fake safety"): a
\* system that lost its source is not shown as confirmed clear either.
LossIsNotSafety ==
    Settled => \A s \in Systems : mem[s].kind = "lost" => proj[s] # ClearPayload

\* Failed writes are always made good: with finitely many failures, the rows
\* and the committed state come to agree with memory for ever.
EventuallySettles == <>[](generation = completed /\ rows = mem)

\* The writes obey the ticket FIFO of module WriteQueue.
Queue == INSTANCE WriteQueue WITH
            MaxTickets <- MaxMutations + 2 * MaxFailures,
            nextTicket <- next,
            servingTicket <- serving,
            pc <- [t \in Threads |->
                     CASE pc[t] = "waiting" -> "waiting"
                       [] pc[t] \in {"writing", "marking", "abandoning", "finishing"} -> "writing"
                       [] OTHER -> "idle"],
            ticket <- [t \in Threads |-> job[t].ticket]

\* Consumers never see a system go back to an older state than one already
\* committed, nor a state memory was never in (postgres_store.py 912).
Consumers == INSTANCE CurrentState WITH current <- [s \in Systems |-> Visible(proj[s])]

\* The marks made good: also those of a repair that has just committed.
MadeGood ==
    IF pc[Maintenance] = "completing" \/ (pc[Maintenance] = "finishing" /\ job[Maintenance].op = "repair")
    THEN repairing ELSE completed

\* No write has failed since the last one that was made good.
Sound == generation = MadeGood /\ \A t \in Threads : pc[t] # "marking"

\* Only an enrichment may show something else, while a failed write is yet to be
\* made good: it publishes the stored count, which that write should have changed.
NeverGoesBack ==
    Consumers!Init /\ [][Consumers!Next \/ (~Sound /\ Consumers!Blend)]_(Consumers!vars)

\* Tickets are taken, served and handed on as that module says; a process that
\* dies takes its queue with it.
ObeysQueue ==
    /\ Queue!Init
    /\ [][Queue!Next \/ (crashes' # crashes /\ Queue!Init')]_(Queue!vars)
=============================================================================
