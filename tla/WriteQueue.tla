----------------------------- MODULE WriteQueue -----------------------------
(***************************************************************************)
(* The FIFO of database writes of PostgreSQLIntelStore                     *)
(* (app/server/postgres_store.py).  A thread that changed the in-memory    *)
(* state takes a ticket before it releases the store lock, waits on a      *)
(* condition variable until that ticket is served, runs one transaction,   *)
(* and in a `finally` hands the turn to the next ticket.                   *)
(***************************************************************************)
EXTENDS Integers, FiniteSets

CONSTANTS
    Threads,        \* request, enrichment and maintenance threads
    MaxTickets      \* bound on the tickets handed out

ASSUME MaxTicketsAssumption == MaxTickets \in Nat

VARIABLES
    nextTicket,     \* _db_write_next_ticket
    servingTicket,  \* _db_write_serving_ticket
    pc,             \* where each thread is in its write
    ticket          \* the ticket of each thread's write, a local of its call

vars == <<nextTicket, servingTicket, pc, ticket>>

Transition(t, from, to) ==
    /\ pc[t] = from
    /\ pc' = [pc EXCEPT ![t] = to]

TypeOK ==
    /\ nextTicket \in Nat
    /\ servingTicket \in Nat
    /\ pc \in [Threads -> {"idle", "waiting", "writing"}]
    /\ ticket \in [Threads -> Nat]

Init ==
    /\ nextTicket = 0
    /\ servingTicket = 0
    /\ pc = [t \in Threads |-> "idle"]
    /\ ticket = [t \in Threads |-> 0]

\* _reserve_db_write, called at the mutation point.
Reserve(t) ==
    /\ nextTicket < MaxTickets
    /\ Transition(t, "idle", "waiting")
    /\ ticket' = [ticket EXCEPT ![t] = nextTicket]
    /\ nextTicket' = nextTicket + 1
    /\ UNCHANGED servingTicket

\* Mutant of Begin: any wake-up starts the transaction.
BeginOutOfTurn(t) ==
    /\ Transition(t, "waiting", "writing")
    /\ UNCHANGED <<nextTicket, servingTicket, ticket>>

\* _wait_for_db_write returns.
Begin(t) ==
    /\ servingTicket = ticket[t]
    /\ Transition(t, "waiting", "writing")
    /\ UNCHANGED <<nextTicket, servingTicket, ticket>>

\* _finish_db_write, reached whether the transaction committed or raised.
Finish(t) ==
    /\ Transition(t, "writing", "idle")
    /\ servingTicket' = IF servingTicket <= ticket[t]
                        THEN ticket[t] + 1
                        ELSE servingTicket
    /\ ticket' = [ticket EXCEPT ![t] = 0]
    /\ UNCHANGED nextTicket

Next == \E t \in Threads : Reserve(t) \/ Begin(t) \/ Finish(t)

-----------------------------------------------------------------------------
(* A waiter is woken by notify_all and a transaction ends, so both make    *)
(* progress; nothing obliges a thread to start a new mutation.             *)

Fairness == \A t \in Threads : WF_vars(Begin(t)) /\ WF_vars(Finish(t))

Spec == Init /\ [][Next]_vars

FairSpec == Spec /\ Fairness

-----------------------------------------------------------------------------
(* Properties *)

Outstanding == {t \in Threads : pc[t] # "idle"}

\* Two mutations never hold their transactions at once: the ticket FIFO is
\* the only thing that keeps the persisted rows and events in memory order.
OneWriter == \A t, u \in Threads : pc[t] = "writing" /\ pc[u] = "writing" => t = u

\* Every ticket between the one being served and the next one to hand out is
\* held by exactly one thread that will finish it.  An abandoned ticket would
\* stall the queue for every later writer.
NoAbandonedTicket ==
    \A k \in servingTicket..(nextTicket - 1) :
        \E t \in Outstanding : /\ ticket[t] = k
                               /\ \A u \in Outstanding : ticket[u] = k => u = t

\* A thread's turn is never skipped: once it is waiting, the served ticket
\* has not passed its own.
NeverPassedOver == \A t \in Outstanding : servingTicket <= ticket[t] /\ ticket[t] < nextTicket

\* Every mutation that took a ticket gets its transaction and returns.
CallsReturn == \A t \in Threads : pc[t] = "idle"

\* The threads by ticket are the queue the store promises.
Holder(k) == CHOOSE t \in Outstanding : ticket[t] = k

Pending == [i \in 1..(nextTicket - servingTicket) |-> Holder(servingTicket + i - 1)]

Writing == \E t \in Threads : pc[t] = "writing"

Fifo == INSTANCE FifoWrites WITH queue <- Pending, open <- Writing

\* The ticket protocol implements the promised queue.
ImplementsFifo == Fifo!Spec
=============================================================================
