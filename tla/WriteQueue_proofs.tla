-------------------------- MODULE WriteQueue_proofs --------------------------
(***************************************************************************)
(* Proofs about the ticket FIFO of module WriteQueue, for any set of       *)
(* threads and any bound on the tickets.                                   *)
(***************************************************************************)
EXTENDS WriteQueue, SequenceTheorems, TLAPS

(***************************************************************************)
(* The inductive invariant.  A ticket identifies its holder (Unique), the  *)
(* tickets not yet served are all held (Covered), and a writer's ticket is *)
(* the one being served (WriterServed).  OneWriter alone is not inductive: *)
(* two waiting threads with the same ticket would both be let in.          *)
(***************************************************************************)
Unique == \A t, u \in Outstanding : ticket[t] = ticket[u] => t = u

Covered == \A k \in servingTicket..(nextTicket - 1) : \E t \in Outstanding : ticket[t] = k

WriterServed == \A t \in Threads : pc[t] = "writing" => ticket[t] = servingTicket

IInv ==
    /\ TypeOK
    /\ servingTicket <= nextTicket
    /\ NeverPassedOver
    /\ Unique
    /\ Covered
    /\ WriterServed

\* The counters and thread states keep their types.
THEOREM TypeCorrect == Spec => []TypeOK
<1>1. Init => TypeOK
  BY DEF Init, TypeOK
<1>2. TypeOK /\ [Next]_vars => TypeOK'
  BY DEF TypeOK, Next, vars, Reserve, Begin, Finish, Transition
<1>3. QED
  BY <1>1, <1>2, PTL DEF Spec

\* No ticket is held and none is due when the store starts.
LEMMA InitEstablishes == Init => IInv
  BY DEF Init, IInv, TypeOK, Outstanding, NeverPassedOver, Unique, Covered, WriterServed

\* Each of the three steps of a write keeps the invariant.
LEMMA StepPreserves == IInv /\ [Next]_vars => IInv'
<1> SUFFICES ASSUME IInv, [Next]_vars
             PROVE  IInv'
  OBVIOUS
<1> USE DEF IInv, TypeOK
<1>1. ASSUME NEW t \in Threads, Reserve(t)
      PROVE  IInv'
  <2>1. /\ pc[t] = "idle"
        /\ pc' = [pc EXCEPT ![t] = "waiting"]
        /\ ticket' = [ticket EXCEPT ![t] = nextTicket]
        /\ nextTicket' = nextTicket + 1
        /\ servingTicket' = servingTicket
    BY <1>1 DEF Reserve, Transition
  <2>2. Outstanding' = Outstanding \cup {t} /\ t \notin Outstanding
    BY <2>1 DEF Outstanding
  <2>3. \A u \in Outstanding : ticket'[u] = ticket[u] /\ ticket[u] < nextTicket
    BY <2>1, <2>2 DEF Outstanding, NeverPassedOver
  <2>4. ticket'[t] = nextTicket
    BY <2>1
  <2>5. TypeOK'
    BY <2>1
  <2>6. (servingTicket <= nextTicket)'
    BY <2>1
  <2>7. NeverPassedOver'
    <3>1. ASSUME NEW u \in Outstanding
          PROVE  servingTicket <= ticket'[u] /\ ticket'[u] < nextTicket + 1
      <4>1. servingTicket <= ticket[u] /\ ticket[u] < nextTicket /\ ticket[u] \in Nat
        BY DEF NeverPassedOver, Outstanding
      <4>2. QED
        BY <4>1, <2>3
    <3>2. servingTicket <= ticket'[t] /\ ticket'[t] < nextTicket + 1
      BY <2>4
    <3>3. QED
      BY <3>1, <3>2, <2>1, <2>2 DEF NeverPassedOver
  <2>8. Unique'
    BY <2>2, <2>3, <2>4 DEF Unique, Outstanding
  <2>9. Covered'
    <3> SUFFICES ASSUME NEW k \in servingTicket..nextTicket
                 PROVE  \E u \in Outstanding' : ticket'[u] = k
      BY <2>1 DEF Covered
    <3>1. CASE k = nextTicket
      BY <3>1, <2>2, <2>4
    <3>2. CASE k # nextTicket
      <4>1. k \in servingTicket..(nextTicket - 1)
        BY <3>2
      <4>2. PICK u \in Outstanding : ticket[u] = k
        BY <4>1 DEF Covered
      <4>3. QED
        BY <4>2, <2>2, <2>3
    <3>3. QED
      BY <3>1, <3>2
  <2>10. WriterServed'
    BY <2>1 DEF WriterServed
  <2>11. QED
    BY <2>5, <2>6, <2>7, <2>8, <2>9, <2>10
<1>2. ASSUME NEW t \in Threads, Begin(t)
      PROVE  IInv'
  <2>1. /\ pc[t] = "waiting"
        /\ servingTicket = ticket[t]
        /\ pc' = [pc EXCEPT ![t] = "writing"]
        /\ UNCHANGED <<nextTicket, servingTicket, ticket>>
    BY <1>2 DEF Begin, Transition
  <2>2. Outstanding' = Outstanding
    BY <2>1 DEF Outstanding
  <2>3. WriterServed'
    BY <2>1 DEF WriterServed
  <2>4. QED
    BY <2>1, <2>2, <2>3 DEF NeverPassedOver, Unique, Covered
<1>3. ASSUME NEW t \in Threads, Finish(t)
      PROVE  IInv'
  <2>1. /\ pc[t] = "writing"
        /\ ticket[t] = servingTicket
        /\ pc' = [pc EXCEPT ![t] = "idle"]
        /\ servingTicket' = servingTicket + 1
        /\ ticket' = [ticket EXCEPT ![t] = 0]
        /\ nextTicket' = nextTicket
    BY <1>3 DEF Finish, Transition, WriterServed
  <2>2. Outstanding' = Outstanding \ {t} /\ t \in Outstanding
    BY <2>1 DEF Outstanding
  <2>3. \A u \in Outstanding' : servingTicket < ticket[u]
    BY <2>1, <2>2 DEF Unique, NeverPassedOver, Outstanding
  <2>4. NeverPassedOver'
    BY <2>1, <2>2, <2>3 DEF NeverPassedOver, Outstanding
  <2>5. (servingTicket <= nextTicket)'
    BY <2>1, <2>2 DEF NeverPassedOver, Outstanding
  <2>6. Unique'
    BY <2>1, <2>2 DEF Unique
  <2>7. Covered'
    <3> SUFFICES ASSUME NEW k \in (servingTicket + 1)..(nextTicket - 1)
                 PROVE  \E u \in Outstanding' : ticket[u] = k
      BY <2>1 DEF Covered
    <3>1. PICK u \in Outstanding : ticket[u] = k
      BY DEF Covered
    <3>2. u # t
      BY <3>1, <2>1
    <3>3. QED
      BY <3>1, <3>2, <2>2
  <2>8. WriterServed'
    <3> SUFFICES ASSUME NEW u \in Threads, pc'[u] = "writing"
                 PROVE  FALSE
      BY DEF WriterServed
    <3>1. u # t /\ pc[u] = "writing"
      BY <2>1
    <3>2. u \in Outstanding /\ ticket[u] = ticket[t]
      BY <3>1, <2>1 DEF Outstanding, WriterServed
    <3>3. QED
      BY <3>1, <3>2, <2>2 DEF Unique
  <2>9. QED
    BY <2>1, <2>4, <2>5, <2>6, <2>7, <2>8
<1>4. CASE UNCHANGED vars
  BY <1>4 DEF vars, Outstanding, NeverPassedOver, Unique, Covered, WriterServed
<1>5. QED
  BY <1>1, <1>2, <1>3, <1>4 DEF Next

\* The inductive invariant holds in every reachable state.
LEMMA Invariance == Spec => []IInv
<1>1. QED
  BY InitEstablishes, StepPreserves, PTL DEF Spec

\* At most one mutation is in its transaction, however many threads upload,
\* enrich and expire at once: the serving ticket has a single holder.
THEOREM MutualExclusion == Spec => []OneWriter
<1>1. IInv => OneWriter
  BY DEF IInv, OneWriter, Unique, WriterServed, Outstanding
<1>2. QED
  BY <1>1, Invariance, PTL

\* No ticket between the served one and the next one is ever abandoned, so
\* the FIFO cannot stall on a ticket nobody will finish.
THEOREM TicketsAccountedFor == Spec => []NoAbandonedTicket
<1>1. IInv => NoAbandonedTicket
  BY DEF IInv, NoAbandonedTicket, Unique, Covered
<1>2. QED
  BY <1>1, Invariance, PTL

\* The turn never passes a thread that still has to write.
THEOREM TurnNotSkipped == Spec => []NeverPassedOver
<1>1. IInv => NeverPassedOver
  BY DEF IInv
<1>2. QED
  BY <1>1, Invariance, PTL
-----------------------------------------------------------------------------
(* The ticket protocol implements the queue of module FifoWrites.          *)

\* The pending mutations are a sequence of outstanding threads, by ticket.
LEMMA PendingSequence ==
    IInv => /\ Pending \in Seq(Threads)
            /\ Len(Pending) = nextTicket - servingTicket
            /\ \A i \in 1..Len(Pending) : /\ Pending[i] \in Outstanding
                                          /\ ticket[Pending[i]] = servingTicket + i - 1
<1> SUFFICES ASSUME IInv
             PROVE  /\ Pending \in Seq(Threads)
                    /\ Len(Pending) = nextTicket - servingTicket
                    /\ \A i \in 1..Len(Pending) :
                          /\ Pending[i] \in Outstanding
                          /\ ticket[Pending[i]] = servingTicket + i - 1
  OBVIOUS
<1> DEFINE n == nextTicket - servingTicket
<1>1. n \in Nat
  BY DEF IInv, TypeOK
<1>2. ASSUME NEW k \in servingTicket..(nextTicket - 1)
      PROVE  Holder(k) \in Outstanding /\ ticket[Holder(k)] = k
  <2>1. \E t \in Outstanding : ticket[t] = k
    BY DEF IInv, Covered
  <2>2. QED
    BY <2>1 DEF Holder
<1>3. \A i \in 1..n : servingTicket + i - 1 \in servingTicket..(nextTicket - 1)
  BY DEF IInv, TypeOK
<1>4. \A i \in 1..n : /\ Pending[i] \in Outstanding
                     /\ ticket[Pending[i]] = servingTicket + i - 1
  BY <1>2, <1>3 DEF Pending
<1>5. Pending \in [1..n -> Threads]
  BY <1>2, <1>3 DEF Pending, Outstanding
<1>6. Pending \in Seq(Threads) /\ Len(Pending) = n
  BY <1>1, <1>5
<1>7. QED
  BY <1>4, <1>6

\* An empty queue at start.
LEMMA InitImplements == Init => Fifo!Init
<1> SUFFICES ASSUME Init
             PROVE  Fifo!Init
  OBVIOUS
<1>1. IInv
  BY InitEstablishes
<1>2. Pending \in Seq(Threads) /\ Len(Pending) = 0
  BY <1>1, PendingSequence DEF Init
<1>3. Pending = <<>>
  BY <1>2
<1>4. ~Writing
  BY DEF Init, Writing
<1>5. QED
  BY <1>3, <1>4 DEF Fifo!Init

\* A reservation appends its thread, a turn opens the head, a finish drops it.
LEMMA StepImplements == IInv /\ IInv' /\ [Next]_vars => [Fifo!Next]_Fifo!vars
<1> SUFFICES ASSUME IInv, IInv', [Next]_vars
             PROVE  [Fifo!Next]_Fifo!vars
  OBVIOUS
<1> USE DEF IInv, TypeOK
<1>1. /\ Pending \in Seq(Threads)
      /\ Len(Pending) = nextTicket - servingTicket
      /\ \A i \in 1..Len(Pending) : /\ Pending[i] \in Outstanding
                                    /\ ticket[Pending[i]] = servingTicket + i - 1
  BY PendingSequence
<1>2. /\ Pending' \in Seq(Threads)
      /\ Len(Pending') = nextTicket' - servingTicket'
      /\ \A i \in 1..Len(Pending') : /\ Pending'[i] \in Outstanding'
                                     /\ ticket'[Pending'[i]] = servingTicket' + i - 1
  <2>1. (IInv => /\ Pending \in Seq(Threads)
                 /\ Len(Pending) = nextTicket - servingTicket
                 /\ \A i \in 1..Len(Pending) :
                       /\ Pending[i] \in Outstanding
                       /\ ticket[Pending[i]] = servingTicket + i - 1)'
    BY PendingSequence, PTL
  <2>2. QED
    BY <2>1
<1>3. \A t, u \in Outstanding' : ticket'[t] = ticket'[u] => t = u
  BY DEF Unique
<1>5. ASSUME NEW t \in Threads, Reserve(t)
      PROVE  Fifo!Mutate(t)
  <2>1. /\ pc[t] = "idle"
        /\ pc' = [pc EXCEPT ![t] = "waiting"]
        /\ ticket' = [ticket EXCEPT ![t] = nextTicket]
        /\ nextTicket' = nextTicket + 1
        /\ servingTicket' = servingTicket
    BY <1>5 DEF Reserve, Transition
  <2>2. t \notin Outstanding /\ Outstanding' = Outstanding \cup {t}
    BY <2>1 DEF Outstanding
  <2>3. \A i \in 1..Len(Pending) : Pending[i] # t
    BY <1>1, <2>2
  <2>4. UNCHANGED Writing
    BY <2>1 DEF Writing
  <2>5. Len(Pending') = Len(Pending) + 1
    BY <1>1, <1>2, <2>1
  <2>6. ASSUME NEW i \in 1..Len(Pending)
        PROVE  Pending'[i] = Pending[i]
    <3>1. /\ Pending[i] \in Outstanding'
          /\ ticket'[Pending[i]] = servingTicket + i - 1
      BY <1>1, <2>1, <2>2 DEF Outstanding
    <3>2. /\ Pending'[i] \in Outstanding'
          /\ ticket'[Pending'[i]] = servingTicket + i - 1
      BY <1>1, <1>2, <2>1, <2>5
    <3>3. QED
      BY <3>1, <3>2, <1>3
  <2>7. Pending'[Len(Pending) + 1] = t
    <3>1. t \in Outstanding' /\ ticket'[t] = nextTicket
      BY <2>1, <2>2
    <3>2. Len(Pending) + 1 \in 1..Len(Pending')
      BY <2>5, <1>1
    <3>3. /\ Pending'[Len(Pending) + 1] \in Outstanding'
          /\ ticket'[Pending'[Len(Pending) + 1]] = nextTicket
      BY <3>2, <1>1, <1>2, <2>1
    <3>4. QED
      BY <3>1, <3>3, <1>3
  <2>8. Pending' = Append(Pending, t)
    <3>1. /\ Append(Pending, t) \in Seq(Threads)
          /\ Len(Append(Pending, t)) = Len(Pending) + 1
          /\ \A i \in 1..Len(Pending) : Append(Pending, t)[i] = Pending[i]
          /\ Append(Pending, t)[Len(Pending) + 1] = t
      <4>1. Pending \in Seq(Threads)
        BY <1>1
      <4>2. QED
        BY <4>1, AppendProperties
    <3>2. ASSUME NEW i \in 1..Len(Pending')
          PROVE  Pending'[i] = Append(Pending, t)[i]
      <4>1. i \in 1..Len(Pending) \/ i = Len(Pending) + 1
        BY <2>5, <1>1
      <4>2. QED
        BY <4>1, <3>1, <2>6, <2>7
    <3>3. QED
      BY <3>1, <3>2, <1>2, <2>5, SeqEqual
  <2>9. QED
    BY <2>3, <2>4, <2>8 DEF Fifo!Mutate
<1>6. ASSUME NEW t \in Threads, Begin(t)
      PROVE  Fifo!Open
  <2>1. /\ pc[t] = "waiting"
        /\ servingTicket = ticket[t]
        /\ pc' = [pc EXCEPT ![t] = "writing"]
        /\ UNCHANGED <<nextTicket, servingTicket, ticket>>
    BY <1>6 DEF Begin, Transition
  <2>2. Outstanding' = Outstanding /\ t \in Outstanding
    BY <2>1 DEF Outstanding
  <2>3. Pending' = Pending
    BY <2>1, <2>2 DEF Pending, Holder
  <2>4. Writing'
    BY <2>1 DEF Writing
  <2>5. ~Writing
    <3> SUFFICES ASSUME NEW u \in Threads, pc[u] = "writing"
                 PROVE  FALSE
      BY DEF Writing
    <3>1. u \in Outstanding /\ ticket[u] = ticket[t]
      BY <2>1 DEF Outstanding, WriterServed
    <3>2. QED
      BY <3>1, <2>1, <2>2 DEF Unique
  <2>6. Pending # <<>>
    BY <1>1, <2>1, <2>2 DEF NeverPassedOver
  <2>7. QED
    BY <2>3, <2>4, <2>5, <2>6 DEF Fifo!Open
<1>7. ASSUME NEW t \in Threads, Finish(t)
      PROVE  Fifo!Close
  <2>1. /\ pc[t] = "writing"
        /\ ticket[t] = servingTicket
        /\ pc' = [pc EXCEPT ![t] = "idle"]
        /\ servingTicket' = servingTicket + 1
        /\ ticket' = [ticket EXCEPT ![t] = 0]
        /\ nextTicket' = nextTicket
    BY <1>7 DEF Finish, Transition, WriterServed
  <2>2. Outstanding' = Outstanding \ {t} /\ t \in Outstanding
    BY <2>1 DEF Outstanding
  <2>3. Writing
    BY <2>1 DEF Writing
  <2>4. ~Writing'
    <3> SUFFICES ASSUME NEW u \in Threads, pc'[u] = "writing"
                 PROVE  FALSE
      BY DEF Writing
    <3>1. u # t /\ pc[u] = "writing"
      BY <2>1
    <3>2. u \in Outstanding /\ ticket[u] = ticket[t]
      BY <3>1, <2>1 DEF Outstanding, WriterServed
    <3>3. QED
      BY <3>1, <3>2, <2>2 DEF Unique
  <2>5. Len(Pending) # 0 /\ Len(Pending') = Len(Pending) - 1
    BY <1>1, <1>2, <2>1, <2>2 DEF NeverPassedOver
  <2>6. ASSUME NEW i \in 1..Len(Pending')
        PROVE  Pending'[i] = Pending[i + 1]
    <3>1. i + 1 \in 1..Len(Pending) /\ servingTicket + (i + 1) - 1 = servingTicket + i
      BY <2>5, <1>1, <1>2
    <3>2. /\ Pending[i + 1] \in Outstanding
          /\ ticket[Pending[i + 1]] = servingTicket + i
      <4>1. ticket[Pending[i + 1]] = servingTicket + (i + 1) - 1
        BY <3>1, <1>1
      <4>2. QED
        BY <4>1, <3>1, <1>1
    <3>3. Pending[i + 1] # t
      BY <3>2, <2>1
    <3>4. /\ Pending[i + 1] \in Outstanding'
          /\ ticket'[Pending[i + 1]] = servingTicket + i
      BY <3>2, <3>3, <2>1, <2>2
    <3>5. /\ Pending'[i] \in Outstanding'
          /\ ticket'[Pending'[i]] = servingTicket + i
      <4>1. ticket'[Pending'[i]] = (servingTicket + 1) + i - 1
        BY <1>2, <2>1
      <4>2. i \in Nat
        BY <2>5, <1>1
      <4>3. Pending'[i] \in Outstanding'
        BY <1>2
      <4>4. QED
        BY <4>1, <4>2, <4>3
    <3>6. QED
      BY <3>4, <3>5, <1>3
  <2>7. Pending' = Tail(Pending)
    <3>1. Pending # <<>>
      BY <2>5
    <3>2. /\ Tail(Pending) \in Seq(Threads)
          /\ Len(Tail(Pending)) = Len(Pending) - 1
          /\ \A i \in 1..Len(Tail(Pending)) : Tail(Pending)[i] = Pending[i + 1]
      BY <3>1, <1>1, HeadTailProperties
    <3>3. Len(Pending') = Len(Tail(Pending))
      BY <3>2, <2>5
    <3>4. \A i \in 1..Len(Pending') : Pending'[i] = Tail(Pending)[i]
      BY <3>2, <3>3, <2>6
    <3>5. QED
      BY <3>2, <3>3, <3>4, <1>2, SeqEqual, Zenon
  <2>8. QED
    BY <2>3, <2>4, <2>7 DEF Fifo!Close
<1>8. CASE UNCHANGED vars
  BY <1>8 DEF vars, Fifo!vars, Pending, Holder, Outstanding, Writing
<1>9. QED
  BY <1>5, <1>6, <1>7, <1>8 DEF Next, Fifo!Next

\* The tickets, the condition variable and the finally blocks implement the
\* queue promised to the callers: mutations are written one at a time in the
\* order they were made under the store lock.
THEOREM ImplementsFifoQueue == Spec => ImplementsFifo
<1>1. QED
  BY InitImplements, StepImplements, Invariance, PTL DEF Spec, ImplementsFifo, Fifo!Spec
=============================================================================
