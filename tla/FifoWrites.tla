----------------------------- MODULE FifoWrites -----------------------------
(***************************************************************************)
(* What the PostgreSQL store promises its callers about write order: the   *)
(* mutations of the in-memory state reach the database one at a time, in   *)
(* the order in which they were made under the store lock.  The promise is *)
(* a queue of threads of which only the head may hold the transaction; it  *)
(* says nothing of tickets or condition variables.                         *)
(***************************************************************************)
EXTENDS Naturals, Sequences

CONSTANT Threads        \* request, enrichment and maintenance threads

VARIABLES
    queue,      \* threads with a mutation still to be written, oldest first
    open        \* TRUE while the head of the queue holds its transaction

vars == <<queue, open>>

Init ==
    /\ queue = <<>>
    /\ open = FALSE

\* A thread that has no write of its own queued makes a mutation.
Mutate(t) ==
    /\ \A i \in 1..Len(queue) : queue[i] # t
    /\ queue' = Append(queue, t)
    /\ UNCHANGED open

\* The oldest mutation starts its transaction.
Open ==
    /\ queue # <<>>
    /\ ~open
    /\ open' = TRUE
    /\ UNCHANGED queue

\* The transaction of the oldest mutation is over, committed or not.
Close ==
    /\ open
    /\ queue' = Tail(queue)
    /\ open' = FALSE

Next ==
    \/ \E t \in Threads : Mutate(t)
    \/ Open
    \/ Close

Spec == Init /\ [][Next]_vars
=============================================================================
