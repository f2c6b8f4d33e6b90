------------------------------- MODULE Queues -------------------------------
(***************************************************************************)
(* What is left of a queue when some of its members go.                    *)
(***************************************************************************)
EXTENDS Integers, Sequences, FiniteSets

\* The places of those that stay.
Staying(queue, gone) == {i \in DOMAIN queue : queue[i] \notin gone}

\* The place of a set that has so many of them up to it.
Nth(places, n) == CHOOSE i \in places : Cardinality({j \in places : j <= i}) = n

\* The others, in their order.
Without(queue, gone) ==
    LET places == Staying(queue, gone)
    IN  [n \in 1..Cardinality(places) |-> queue[Nth(places, n)]]
=============================================================================
