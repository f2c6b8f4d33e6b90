----------------------- MODULE ReportsAndRequests_proofs ----------------------
(***************************************************************************)
(* Proofs about what groups ask of the bot (modules AnalysisJobs,          *)
(* GroupQueries and Watches), and about the reports of a channel with a    *)
(* reader of theirs (module ChannelReports), for any number of messages,   *)
(* groups, programs, threads and lines, as parts of the specification that *)
(* the runs check (module EventDelivery).                                  *)
(***************************************************************************)
EXTENDS EventDelivery_proofs

-----------------------------------------------------------------------------
(* A group's queries of the nodes.                                         *)

Phases == {"idle", "creating", "acknowledging", "waiting", "delivering",
           "releasing", "deleting", "done"}

Requests == [step : Phases, room : Rooms \cup {"none"}, told : BOOLEAN]

HasLapsed(r) == \E x \in lapsed : query[x].room = r

\* The lock of a group is that of a query of its own, and a query under way holds it,
\* unless a lock of the group has lapsed too early.
QueryInv ==
    /\ query \in [Queries -> Requests]
    /\ turn \in [Rooms -> Queries \cup {NoQuery}]
    /\ lapsed \subseteq Queries
    /\ stops \in 0..MaxStops
    /\ \A q \in Queries : query[q].step # "idle" => query[q].room \in Rooms
    /\ \A r \in Rooms : turn[r] # NoQuery => query[turn[r]].room = r /\ query[turn[r]].step # "idle"
    /\ \A x \in lapsed : query[x].step # "idle"
    /\ \A q \in Queries : query[q].step \notin {"idle", "done"} =>
            turn[query[q].room] = q \/ HasLapsed(query[q].room)

\* Only query q changes, to this step and room.
Becomes(q, step, room) ==
    /\ query' \in [Queries -> Requests]
    /\ query'[q].step = step /\ query'[q].room = room
    /\ \A p \in Queries : p # q => query'[p] = query[p]

\* One query of a function is changed.
LEMMA RequestChanges ==
    ASSUME query \in [Queries -> Requests], NEW q \in Queries, NEW new \in Requests,
           query' = [query EXCEPT ![q] = new]
    PROVE  Becomes(q, new.step, new.room)
<1> HIDE DEF Requests
<1>1. query' \in [Queries -> Requests]
  BY SMT
<1>2. query'[q] = new /\ \A p \in Queries : p # q => query'[p] = query[p]
  BY SMT
<1> QED
  BY <1>1, <1>2, Zenon DEF Becomes

\* A query goes to another step, and may be answered.
LEMMA StepChanges ==
    ASSUME query \in [Queries -> Requests], NEW q \in Queries, NEW step \in Phases,
           Moves(q, step) \/ Told(q, step)
    PROVE  Becomes(q, step, query[q].room)
<1> DEFINE moved == [query[q] EXCEPT !.step = step]
           answer == [query[q] EXCEPT !.step = step, !.told = TRUE]
<1>1. query[q] \in Requests
  BY Zenon
<1>2. TRUE \in BOOLEAN
  OBVIOUS
<1>3. moved \in Requests /\ moved.step = step /\ moved.room = query[q].room
  BY <1>1, Zenon DEF Requests
<1>4. answer \in Requests /\ answer.step = step /\ answer.room = query[q].room
  BY <1>1, <1>2, Zenon DEF Requests
<1>5. CASE Moves(q, step)
  <2>1. query' = [query EXCEPT ![q] = moved]
    BY <1>5, Zenon DEF Moves
  <2> HIDE DEF moved
  <2>2. Becomes(q, moved.step, moved.room)
    BY <1>3, <2>1, RequestChanges, Zenon
  <2> QED
    BY <1>3, <2>2, Zenon
<1>6. CASE Told(q, step)
  <2>1. query' = [query EXCEPT ![q] = answer]
    BY <1>6, Zenon DEF Told
  <2> HIDE DEF answer
  <2>2. Becomes(q, answer.step, answer.room)
    BY <1>4, <2>1, RequestChanges, Zenon
  <2> QED
    BY <1>4, <2>2, Zenon
<1> QED
  BY <1>5, <1>6

\* A query under way takes a step, and keeps its lock or gives it back as the last.
LEMMA WorkKeeps ==
    ASSUME QueryInv, NEW q \in Queries, query[q].step \notin {"idle", "done"},
           NEW step \in Phases \ {"idle"}, Becomes(q, step, query[q].room),
           \/ turn' = turn
           \/ step = "done" /\ turn' = [turn EXCEPT ![query[q].room] = NoQuery],
           lapsed' = lapsed, stops' \in 0..MaxStops
    PROVE  QueryInv'
<1> DEFINE room == query[q].room
<1>1. /\ query' \in [Queries -> Requests] /\ query'[q].step = step /\ query'[q].room = room
      /\ \A p \in Queries : p # q => query'[p] = query[p]
  BY DEF Becomes
<1>2. room \in Rooms /\ turn \in [Rooms -> Queries \cup {NoQuery}]
  BY DEF QueryInv
<1>3. turn' \in [Rooms -> Queries \cup {NoQuery}]
  BY <1>2
<1>4. \A p \in Queries : query'[p].room = query[p].room /\ (query'[p].step = "idle" <=> query[p].step = "idle")
  BY <1>1
<1>5. ASSUME NEW p \in Queries, query'[p].step \notin {"idle", "done"}
      PROVE  (turn[query[p].room] = p \/ HasLapsed(query[p].room))'
  <2>1. query[p].step \notin {"idle", "done"} /\ query[p].room \in Rooms
    BY <1>1, <1>5 DEF QueryInv
  <2>2. turn[query[p].room] = p \/ HasLapsed(query[p].room)
    BY <2>1 DEF QueryInv
  <2>3. CASE turn[query[p].room] = p /\ ~ HasLapsed(query[p].room)
    <3>1. CASE turn' = turn
      BY <1>4, <2>3, <3>1
    <3>2. CASE step = "done" /\ turn' = [turn EXCEPT ![room] = NoQuery]
      <4>1. p # q
        BY <1>1, <1>5, <3>2
      <4>2. query[p].room # room
        <5> SUFFICES ASSUME query[p].room = room
                     PROVE  FALSE
          OBVIOUS
        <5>1. turn[room] = q \/ HasLapsed(room)
          BY DEF QueryInv
        <5> QED
          BY <2>3, <4>1, <5>1
      <4> QED
        BY <1>2, <1>4, <2>1, <2>3, <3>2, <4>2
    <3> QED
      BY <3>1, <3>2
  <2>4. CASE HasLapsed(query[p].room)
    <3>1. HasLapsed(query[p].room)'
      <4>1. PICK x \in lapsed : query[x].room = query[p].room
        BY <2>4 DEF HasLapsed
      <4>2. x \in Queries
        BY DEF QueryInv
      <4> QED
        BY <1>4, <4>1, <4>2 DEF HasLapsed
    <3> QED
      BY <3>1
  <2> QED
    BY <2>2, <2>3, <2>4
<1>6. \A r \in Rooms : turn'[r] # NoQuery => turn[r] = turn'[r]
  BY <1>2
<1>7. \A r \in Rooms : turn'[r] # NoQuery => query'[turn'[r]].room = r /\ query'[turn'[r]].step # "idle"
  <2> SUFFICES ASSUME NEW r \in Rooms, turn'[r] # NoQuery
               PROVE  query'[turn'[r]].room = r /\ query'[turn'[r]].step # "idle"
    OBVIOUS
  <2>1. turn'[r] = turn[r] /\ turn[r] \in Queries
    BY <1>2, <1>6
  <2> QED
    BY <1>4, <2>1 DEF QueryInv
<1>8. \A x \in lapsed : query'[x].step # "idle"
  BY <1>4 DEF QueryInv
<1>9. \A p \in Queries : query'[p].step # "idle" => query'[p].room \in Rooms
  BY <1>4 DEF QueryInv
<1>10. lapsed' \subseteq Queries
  BY DEF QueryInv
<1>11. \A p \in Queries : query'[p].step \notin {"idle", "done"} =>
            (turn[query[p].room] = p \/ HasLapsed(query[p].room))'
  BY <1>5
<1> QED
  BY <1>1, <1>3, <1>7, <1>8, <1>9, <1>10, <1>11, Zenon DEF QueryInv, HasLapsed

\* A query of a group begins, with the lock if that is free, or ends at once.
LEMMA BeginningKeeps ==
    ASSUME QueryInv, NEW q \in Queries, NEW r \in Rooms, TakeTurn(q, r) \/ TurnTaken(q, r)
    PROVE  QueryInv'
<1>1. /\ query \in [Queries -> Requests] /\ turn \in [Rooms -> Queries \cup {NoQuery}]
      /\ lapsed \subseteq Queries /\ query[q].step = "idle" /\ q \notin lapsed
      /\ lapsed' = lapsed /\ stops' = stops
  BY DEF QueryInv, TakeTurn, TurnTaken
<1> DEFINE began == [step |-> "creating", room |-> r, told |-> FALSE]
           ended == [step |-> "done", room |-> r, told |-> TRUE]
<1>2. began \in Requests /\ ended \in Requests
  <2>1. TRUE \in BOOLEAN /\ FALSE \in BOOLEAN /\ "creating" \in Phases /\ "done" \in Phases
        /\ r \in Rooms \cup {"none"}
    BY DEF Phases
  <2> QED
    BY <2>1, Zenon DEF Requests
<1>3. began.step = "creating" /\ began.room = r /\ ended.step = "done" /\ ended.room = r
  BY Zenon
<1>4. \/ /\ turn[r] = NoQuery /\ turn' = [turn EXCEPT ![r] = q] /\ query' = [query EXCEPT ![q] = began]
      \/ /\ turn[r] # NoQuery /\ turn' = turn /\ query' = [query EXCEPT ![q] = ended]
  BY Zenon DEF TakeTurn, TurnTaken
<1> HIDE DEF began, ended
<1>5. \/ /\ turn[r] = NoQuery /\ turn' = [turn EXCEPT ![r] = q] /\ Becomes(q, "creating", r)
      \/ /\ turn[r] # NoQuery /\ turn' = turn /\ Becomes(q, "done", r)
  BY <1>1, <1>2, <1>3, <1>4, RequestChanges, Zenon
<1>6. /\ query' \in [Queries -> Requests] /\ query'[q].room = r
      /\ \A p \in Queries : p # q => query'[p] = query[p]
      /\ \/ turn[r] = NoQuery /\ turn' = [turn EXCEPT ![r] = q] /\ query'[q].step = "creating"
         \/ turn[r] # NoQuery /\ turn' = turn /\ query'[q].step = "done"
  BY <1>5 DEF Becomes
<1>7. turn' \in [Rooms -> Queries \cup {NoQuery}] /\ stops' \in 0..MaxStops
  BY <1>1, <1>6 DEF QueryInv
<1>8. \A p \in Queries : query'[p].step # "idle" => query'[p].room \in Rooms
  BY <1>6 DEF QueryInv
<1>9. \A x \in lapsed : query'[x].step # "idle"
  BY <1>1, <1>6 DEF QueryInv
<1>10. ASSUME NEW o \in Rooms, turn'[o] # NoQuery
       PROVE  query'[turn'[o]].room = o /\ query'[turn'[o]].step # "idle"
  <2>1. CASE turn'[o] = turn[o]
    <3>1. turn[o] \in Queries /\ query[turn[o]].room = o /\ query[turn[o]].step # "idle"
      BY <1>1, <1>10, <2>1 DEF QueryInv
    <3> QED
      BY <1>1, <1>6, <2>1, <3>1
  <2>2. CASE turn'[o] # turn[o]
    BY <1>1, <1>6, <2>2
  <2> QED
    BY <2>1, <2>2
<1>11. ASSUME NEW p \in Queries, query'[p].step \notin {"idle", "done"}
       PROVE  (turn[query[p].room] = p \/ HasLapsed(query[p].room))'
  <2>1. CASE p = q
    BY <1>1, <1>6, <1>11, <2>1
  <2>2. CASE p # q
    <3>1. query'[p] = query[p]
      BY <1>6, <2>2
    <3>2. query[p].room \in Rooms /\ (turn[query[p].room] = p \/ HasLapsed(query[p].room))
      BY <1>11, <3>1 DEF QueryInv
    <3>3. CASE turn[query[p].room] = p
      <4>1. p # NoQuery
        BY QueryAssumption
      <4> QED
        BY <1>1, <1>6, <3>1, <3>2, <3>3, <4>1
    <3>4. CASE HasLapsed(query[p].room)
      <4>1. PICK x \in lapsed : query[x].room = query[p].room
        BY <3>4 DEF HasLapsed
      <4>2. x \in Queries /\ x # q
        BY <1>1
      <4> QED
        BY <1>1, <1>6, <3>1, <4>1, <4>2 DEF HasLapsed
    <3> QED
      BY <3>2, <3>3, <3>4
  <2> QED
    BY <2>1, <2>2
<1>12. lapsed' \subseteq Queries /\ \A x \in lapsed' : query'[x].step # "idle"
  BY <1>1, <1>9
<1>13. \A o \in Rooms : turn'[o] # NoQuery => query'[turn'[o]].room = o /\ query'[turn'[o]].step # "idle"
  BY <1>10
<1>14. \A p \in Queries : query'[p].step \notin {"idle", "done"} =>
            (turn[query[p].room] = p \/ HasLapsed(query[p].room))'
  BY <1>11
<1>15. query' \in [Queries -> Requests]
  BY <1>6
<1> QED
  BY <1>7, <1>8, <1>12, <1>13, <1>14, <1>15, Zenon DEF QueryInv, HasLapsed

\* A lock lapses.
LEMMA LapseKeeps ==
    ASSUME QueryInv, NEW r \in Rooms, LockLapses(r)
    PROVE  QueryInv'
<1> DEFINE q == turn[r]
<1>1. /\ query \in [Queries -> Requests] /\ turn \in [Rooms -> Queries \cup {NoQuery}]
      /\ lapsed \subseteq Queries /\ query' = query /\ stops' = stops
      /\ q # NoQuery /\ turn' = [turn EXCEPT ![r] = NoQuery]
      /\ lapsed' = IF query[q].step = "done" THEN lapsed ELSE lapsed \cup {q}
  BY DEF QueryInv, LockLapses
<1>2. q \in Queries /\ query[q].room = r /\ query[q].step # "idle"
  BY <1>1 DEF QueryInv
<1> HIDE DEF q
<1>3. turn' \in [Rooms -> Queries \cup {NoQuery}] /\ lapsed' \subseteq Queries /\ lapsed \subseteq lapsed'
  BY <1>1, <1>2
<1>4. \A o \in Rooms : turn'[o] # NoQuery => query'[turn'[o]].room = o /\ query'[turn'[o]].step # "idle"
  BY <1>1 DEF QueryInv
<1>5. \A x \in lapsed' : query'[x].step # "idle"
  BY <1>1, <1>2 DEF QueryInv
<1>6. ASSUME NEW p \in Queries, query[p].step \notin {"idle", "done"}
      PROVE  (turn[query[p].room] = p \/ HasLapsed(query[p].room))'
  <2>1. query[p].room \in Rooms /\ (turn[query[p].room] = p \/ HasLapsed(query[p].room))
    BY <1>6 DEF QueryInv
  <2>2. CASE HasLapsed(query[p].room)
    BY <1>1, <1>3, <2>2 DEF HasLapsed
  <2>3. CASE turn[query[p].room] = p
    <3>1. CASE query[p].room = r
      <4>1. p = q /\ p \in lapsed'
        BY <1>1, <1>6, <2>3, <3>1 DEF q
      <4> QED
        BY <1>1, <4>1 DEF HasLapsed
    <3>2. CASE query[p].room # r
      BY <1>1, <2>1, <2>3, <3>2
    <3> QED
      BY <3>1, <3>2
  <2> QED
    BY <2>1, <2>2, <2>3
<1>7. \A p \in Queries : query'[p].step \notin {"idle", "done"} =>
            (turn[query[p].room] = p \/ HasLapsed(query[p].room))'
  BY <1>1, <1>6
<1>8. /\ query' \in [Queries -> Requests] /\ stops' \in 0..MaxStops
      /\ \A p \in Queries : query'[p].step # "idle" => query'[p].room \in Rooms
  BY <1>1 DEF QueryInv
<1> QED
  BY <1>3, <1>4, <1>5, <1>7, <1>8, Zenon DEF QueryInv, HasLapsed

\* The bot stops, and the locks stay.
LEMMA StopKeeps ==
    ASSUME QueryInv, BotStops
    PROVE  QueryInv'
<1> DEFINE over(q) == [query[q] EXCEPT !.step = "done"]
<1>1. /\ query \in [Queries -> Requests] /\ turn' = turn /\ lapsed' = lapsed
      /\ lapsed \subseteq Queries /\ turn \in [Rooms -> Queries \cup {NoQuery}]
      /\ stops' = stops + 1 /\ stops < MaxStops /\ stops \in 0..MaxStops
      /\ query' = [q \in Queries |-> IF query[q].step = "idle" THEN query[q] ELSE over(q)]
  BY Zenon DEF QueryInv, BotStops
<1>2. ASSUME NEW q \in Queries
      PROVE  over(q) \in Requests /\ over(q).step = "done" /\ over(q).room = query[q].room
  <2>1. query[q] \in Requests /\ "done" \in Phases
    BY <1>1, Zenon DEF Phases
  <2> QED
    BY <2>1, Zenon DEF Requests
<1> HIDE DEF over
<1>3. query' \in [Queries -> Requests]
  BY <1>1, <1>2
<1>4. \A q \in Queries : /\ query'[q].room = query[q].room
                         /\ query'[q].step = IF query[q].step = "idle" THEN "idle" ELSE "done"
  BY <1>1, <1>2
<1>5. stops' \in 0..MaxStops
  BY <1>1, QueryAssumption
<1>6. \A p \in Queries : query'[p].step # "idle" => query'[p].room \in Rooms
  BY <1>4 DEF QueryInv
<1>7. \A o \in Rooms : turn'[o] # NoQuery => query'[turn'[o]].room = o /\ query'[turn'[o]].step # "idle"
  <2> SUFFICES ASSUME NEW o \in Rooms, turn[o] # NoQuery
               PROVE  query'[turn[o]].room = o /\ query'[turn[o]].step # "idle"
    BY <1>1
  <2>1. turn[o] \in Queries /\ query[turn[o]].room = o /\ query[turn[o]].step # "idle"
    BY <1>1 DEF QueryInv
  <2> QED
    BY <1>4, <2>1
<1>8. \A x \in lapsed' : query'[x].step # "idle"
  BY <1>1, <1>4 DEF QueryInv
<1>9. \A p \in Queries : query'[p].step \in {"idle", "done"}
  BY <1>4
<1> QED
  BY <1>1, <1>3, <1>5, <1>6, <1>7, <1>8, <1>9, Zenon DEF QueryInv, HasLapsed

\* Every step of a group's queries.
LEMMA QueryKeeps ==
    ASSUME QueryInv, QueryNext
    PROVE  QueryInv'
<1>1. query \in [Queries -> Requests] /\ lapsed \subseteq Queries /\ stops \in 0..MaxStops
  BY DEF QueryInv
<1>2. /\ "acknowledging" \in Phases \ {"idle"} /\ "waiting" \in Phases \ {"idle"}
      /\ "delivering" \in Phases \ {"idle"} /\ "releasing" \in Phases \ {"idle"}
      /\ "deleting" \in Phases \ {"idle"} /\ "done" \in Phases \ {"idle"}
  BY DEF Phases
<1>3. ASSUME NEW q \in Queries, Create(q) \/ Acknowledge(q) \/ Wait(q) \/ DeliverResult(q)
                                \/ ReadLock(q) \/ DeleteLock(q)
                                \/ AcknowledgeFails(q) \/ DeliverFails(q)
      PROVE  QueryInv'
  <2>1. stops' \in 0..MaxStops /\ lapsed' = lapsed /\ query[q].step \notin {"idle", "done"}
    BY <1>1, <1>3, QueryAssumption DEF Create, Acknowledge, Wait, DeliverResult, ReadLock,
       DeleteLock, AcknowledgeFails, DeliverFails
  <2>2. PICK step \in Phases \ {"idle"} :
            /\ Moves(q, step) \/ Told(q, step)
            /\ \/ turn' = turn
               \/ step = "done" /\ turn' = [turn EXCEPT ![query[q].room] = NoQuery]
    BY <1>2, <1>3 DEF Create, Acknowledge, Wait, DeliverResult, ReadLock,
       DeleteLock, AcknowledgeFails, DeliverFails
  <2>3. Becomes(q, step, query[q].room)
    BY <1>1, <2>2, StepChanges
  <2> QED
    BY <2>1, <2>2, <2>3, WorkKeeps
<1> QED
  BY <1>3, BeginningKeeps, LapseKeeps, StopKeeps DEF QueryNext, QuerySteps

\* No query is under way at the start.
LEMMA QueryInitKeeps == QueryInit => QueryInv
<1> SUFFICES ASSUME QueryInit
             PROVE  QueryInv
  OBVIOUS
<1> DEFINE none == [step |-> "idle", room |-> "none", told |-> FALSE]
<1>1. /\ query = [q \in Queries |-> none] /\ turn = [r \in Rooms |-> NoQuery] /\ lapsed = {}
      /\ stops = 0
  BY Zenon DEF QueryInit
<1>2. none \in Requests
  <2>1. "idle" \in Phases /\ "none" \in Rooms \cup {"none"} /\ FALSE \in BOOLEAN
    BY DEF Phases
  <2> QED
    BY <2>1, Zenon DEF Requests
<1>3. none.step = "idle"
  BY Zenon
<1> HIDE DEF none
<1>4. query \in [Queries -> Requests] /\ \A q \in Queries : query[q].step = "idle"
  BY <1>1, <1>2, <1>3
<1>5. turn \in [Rooms -> Queries \cup {NoQuery}] /\ \A r \in Rooms : turn[r] = NoQuery
  BY <1>1
<1>6. lapsed \subseteq Queries /\ stops \in 0..MaxStops
  BY <1>1, QueryAssumption
<1> QED
  BY <1>1, <1>4, <1>5, <1>6, Zenon DEF QueryInv

\* What follows for queries at work in one group.
LEMMA QueriesFollow ==
    ASSUME QueryInv
    PROVE  QueryTypeOK /\ QueriesTakeTurns
<1>1. QueryTypeOK
  <2>1. query \in [Queries -> Requests]
    BY DEF QueryInv
  <2> QED
    BY <2>1, Zenon DEF QueryInv, QueryTypeOK, Requests, Phases
<1>2. QueriesTakeTurns
  <2> SUFFICES ASSUME NEW p \in Queries, NEW q \in Queries, AtWork(p), AtWork(q),
                      query[p].room = query[q].room
               PROVE  p = q \/ \E x \in lapsed : query[x].room = query[q].room
    BY Zenon DEF QueriesTakeTurns
  <2>1. query[p].step \notin {"idle", "done"} /\ query[q].step \notin {"idle", "done"}
    BY DEF AtWork
  <2>2. turn[query[p].room] = p \/ HasLapsed(query[p].room)
    BY <2>1 DEF QueryInv
  <2>3. turn[query[q].room] = q \/ HasLapsed(query[q].room)
    BY <2>1 DEF QueryInv
  <2> QED
    BY <2>2, <2>3 DEF HasLapsed
<1> QED
  BY <1>1, <1>2

-----------------------------------------------------------------------------
(* Reports on pilots.                                                      *)

Steps == {"idle", "admit", "enqueue", "done"}
Places == {"none", "admitted", "queued", "running", "closed", "lost"}
Busy == {"admitted", "queued", "running"}

Askings == [step : Steps, chat : Chats \cup {"none"}, member : Members \cup {"none"},
             size : 0..MaxNames, name : 1..MaxNames, told : BOOLEAN]
Reports == [at : Places, told : BOOLEAN]

\* Message m has the lock of its group.
HasLock(m) == asked[m].step # "idle" /\ lock[asked[m].chat] = m

MarkersOf(m) == {j \in markers : j[1] = m}

AnalysisShape ==
    /\ asked \in [Orders -> Askings]
    /\ jobs \in [Jobs -> Reports]
    /\ lock \in [Chats -> Orders \cup {NoOrder}]
    /\ count \in [Orders -> Nat]
    /\ markers \subseteq Jobs /\ rated \subseteq Members
    /\ active \subseteq Orders /\ overdue \subseteq Orders /\ hit \subseteq Orders
    /\ IsFiniteSet(markers) /\ IsFiniteSet(active)

\* A message goes through its names one by one, and counts them.
OrdersInOrder ==
    \A m \in Orders :
        /\ asked[m].step # "idle" => /\ asked[m].chat \in Chats /\ asked[m].member \in Members
                                     /\ asked[m].name <= asked[m].size
        /\ asked[m].step = "idle" => asked[m].name = 1
        /\ m \in overdue => asked[m].step = "done"
        /\ count[m] <= asked[m].name
        /\ asked[m].step \in {"idle", "admit"} => count[m] < asked[m].name

\* Reports are made for names the handler has come to, and it queues the one it has
\* admitted.
JobsInOrder ==
    /\ \A j \in Jobs : jobs[j].at # "none" =>
          /\ asked[j[1]].step # "idle" /\ j[2] <= asked[j[1]].name
          /\ asked[j[1]].step = "admit" => j[2] < asked[j[1]].name
    /\ \A m \in Orders : asked[m].step = "enqueue" => jobs[<<m, asked[m].name>>].at = "admitted"

\* The lock of a group is that of a message of its own, which has a global slot.
LocksInOrder ==
    /\ \A c \in Chats : lock[c] # NoOrder => asked[lock[c]].step # "idle" /\ asked[lock[c]].chat = c
    /\ \A m \in Orders : HasLock(m) /\ m \notin overdue => m \in active
    /\ Cardinality(active) <= MaxActive

\* The counter of a batch says how many of its jobs are marked.
MarkersInOrder ==
    /\ \A j \in markers : jobs[j].at # "none"
    /\ \A m \in Orders :
          IF InBatch(m) /\ HasLock(m) THEN count[m] = Cardinality(MarkersOf(m))
          ELSE MarkersOf(m) = {}

\* A report under way in time has the lock and the slot, and is marked in a batch.
WorkInOrder ==
    \A j \in Jobs : jobs[j].at \in Busy /\ j[1] \notin overdue =>
        /\ HasLock(j[1]) /\ j[1] \in active
        /\ InBatch(j[1]) => j \in markers

AnalysisInv ==
    /\ AnalysisShape /\ OrdersInOrder /\ JobsInOrder
    /\ LocksInOrder /\ MarkersInOrder /\ WorkInOrder

\* Only job j changes, to this place.
Goes(j, place) ==
    /\ jobs' \in [Jobs -> Reports]
    /\ jobs'[j].at = place
    /\ \A k \in Jobs : k # j => jobs'[k] = jobs[k]

\* Only the handler of m goes on, to this step and name.
Handles(m, step, name) ==
    /\ asked' \in [Orders -> Askings]
    /\ asked'[m].step = step /\ asked'[m].name = name
    /\ asked'[m].chat = asked[m].chat /\ asked'[m].member = asked[m].member
    /\ asked'[m].size = asked[m].size
    /\ \A o \in Orders : o # m => asked'[o] = asked[o]

\* A job that is given a place, and perhaps a word to the group, goes there.
LEMMA JobGoes ==
    ASSUME jobs \in [Jobs -> Reports], NEW j \in Jobs, NEW place \in Places, NEW word \in BOOLEAN,
           \/ jobs' = [jobs EXCEPT ![j].at = place]
           \/ jobs' = [jobs EXCEPT ![j] = [at |-> place, told |-> word]]
    PROVE  Goes(j, place)
<1> DEFINE moved == [jobs[j] EXCEPT !.at = place]
           new == [at |-> place, told |-> word]
<1>1. jobs[j] \in Reports
  BY Zenon
<1>2. moved \in Reports /\ moved.at = place
  BY <1>1, Zenon DEF Reports
<1>3. new \in Reports /\ new.at = place
  BY Zenon DEF Reports
<1>4. jobs' = [jobs EXCEPT ![j] = moved] \/ jobs' = [jobs EXCEPT ![j] = new]
  BY Zenon
<1> HIDE DEF moved, new
<1>5. jobs' \in [Jobs -> Reports] /\ (jobs'[j] = moved \/ jobs'[j] = new)
      /\ \A k \in Jobs : k # j => jobs'[k] = jobs[k]
  BY <1>2, <1>3, <1>4
<1> QED
  BY <1>2, <1>3, <1>5 DEF Goes

\* A message that is given a step, and perhaps a name or a word, is handled so.
LEMMA MessageGoes ==
    ASSUME asked \in [Orders -> Askings], NEW m \in Orders, NEW step \in Steps,
           NEW name \in 1..MaxNames, NEW word \in BOOLEAN,
           \/ /\ name = asked[m].name
              /\ \/ asked' = [asked EXCEPT ![m].step = step]
                 \/ asked' = [asked EXCEPT ![m] = [@ EXCEPT !.step = step]]
                 \/ asked' = [asked EXCEPT ![m] = [@ EXCEPT !.step = step, !.told = word]]
           \/ asked' = [asked EXCEPT ![m] = [@ EXCEPT !.step = step, !.name = name]]
    PROVE  Handles(m, step, name)
<1> DEFINE moved == [asked[m] EXCEPT !.step = step]
           worded == [asked[m] EXCEPT !.step = step, !.told = word]
           next == [asked[m] EXCEPT !.step = step, !.name = name]
           Same(new) == /\ new \in Askings /\ new.step = step
                        /\ new.chat = asked[m].chat /\ new.member = asked[m].member
                        /\ new.size = asked[m].size
<1>1. asked[m] \in Askings
  BY Zenon
<1>2. Same(moved) /\ moved.name = asked[m].name
  BY <1>1, Zenon DEF Askings
<1>3. Same(worded) /\ worded.name = asked[m].name
  BY <1>1, Zenon DEF Askings
<1>4. Same(next) /\ next.name = name
  BY <1>1, Zenon DEF Askings
<1>5. \/ name = asked[m].name /\ asked' = [asked EXCEPT ![m] = moved]
      \/ name = asked[m].name /\ asked' = [asked EXCEPT ![m] = worded]
      \/ asked' = [asked EXCEPT ![m] = next]
  BY Zenon
<1>6. ASSUME NEW new, Same(new), new.name = name, asked' = [asked EXCEPT ![m] = new]
      PROVE  Handles(m, step, name)
  <2>1. /\ new \in Askings /\ new.step = step /\ new.chat = asked[m].chat
        /\ new.member = asked[m].member /\ new.size = asked[m].size
    BY <1>6
  <2>2. asked' \in [Orders -> Askings] /\ asked'[m] = new
        /\ \A o \in Orders : o # m => asked'[o] = asked[o]
    BY <1>6, <2>1
  <2> QED
    BY <1>6, <2>1, <2>2 DEF Handles
<1> HIDE DEF moved, worded, next, Same
<1> QED
  BY <1>2, <1>3, <1>4, <1>5, <1>6, Zenon

\* The fields of a message.
LEMMA AskedFields ==
    ASSUME AnalysisInv, NEW m \in Orders
    PROVE  /\ asked[m].step \in Steps /\ asked[m].size \in 0..MaxNames
           /\ asked[m].size \in Nat /\ asked[m].name \in 1..MaxNames /\ asked[m].name \in Nat
           /\ MaxNames \in Nat /\ count[m] \in Nat
           /\ asked[m].step # "idle" => asked[m].chat \in Chats
<1>1. asked[m] \in Askings
  BY DEF AnalysisInv, AnalysisShape
<1>2. asked[m].step \in Steps /\ asked[m].size \in 0..MaxNames /\ asked[m].name \in 1..MaxNames
  BY <1>1, Zenon DEF Askings
<1>3. count[m] \in Nat /\ (asked[m].step # "idle" => asked[m].chat \in Chats)
  BY DEF AnalysisInv, AnalysisShape, OrdersInOrder
<1> QED
  BY <1>2, <1>3, AnalysisAssumption

\* The messages keep their groups and sizes.
SameMessages ==
    /\ asked' \in [Orders -> Askings]
    /\ \A m \in Orders :
          /\ asked'[m].chat = asked[m].chat /\ asked'[m].member = asked[m].member
          /\ asked'[m].size = asked[m].size
          /\ asked'[m].step = "idle" <=> asked[m].step = "idle"

\* Handlers and workers that take and give nothing in Redis, and bring no job under
\* way.
LEMMA NothingTaken ==
    ASSUME AnalysisInv, SameMessages, UNCHANGED <<lock, count, markers, active, overdue>>,
           jobs' \in [Jobs -> Reports],
           \A j \in Jobs : /\ jobs'[j].at = "none" => jobs[j].at = "none"
                           /\ jobs'[j].at \in Busy => jobs[j].at \in Busy,
           hit' \subseteq Orders, rated' \subseteq Members,
           OrdersInOrder', JobsInOrder'
    PROVE  AnalysisInv'
<1>1. /\ \A m \in Orders : (HasLock(m)' <=> HasLock(m)) /\ (InBatch(m)' <=> InBatch(m))
      /\ \A m \in Orders : MarkersOf(m)' = MarkersOf(m)
  BY DEF SameMessages, HasLock, InBatch, MarkersOf
<1>2. AnalysisShape'
  BY Zenon DEF AnalysisInv, AnalysisShape, SameMessages
<1>3. LocksInOrder'
  <2>1. \A c \in Chats : lock'[c] # NoOrder => asked'[lock'[c]].step # "idle" /\ asked'[lock'[c]].chat = c
    <3> SUFFICES ASSUME NEW c \in Chats, lock[c] # NoOrder
                 PROVE  asked'[lock[c]].step # "idle" /\ asked'[lock[c]].chat = c
      OBVIOUS
    <3>1. lock[c] \in Orders /\ asked[lock[c]].step # "idle" /\ asked[lock[c]].chat = c
      BY DEF AnalysisInv, AnalysisShape, LocksInOrder
    <3> QED
      BY <3>1 DEF SameMessages
  <2>2. \A m \in Orders : HasLock(m)' /\ m \notin overdue' => m \in active'
    BY <1>1 DEF AnalysisInv, LocksInOrder
  <2>3. Cardinality(active') <= MaxActive
    BY DEF AnalysisInv, LocksInOrder
  <2> QED
    BY <2>1, <2>2, <2>3 DEF LocksInOrder
<1>4. MarkersInOrder'
  <2>1. \A j \in markers' : jobs'[j].at # "none"
    BY DEF AnalysisInv, AnalysisShape, MarkersInOrder
  <2>2. \A m \in Orders : (IF InBatch(m) /\ HasLock(m) THEN count[m] = Cardinality(MarkersOf(m))
                           ELSE MarkersOf(m) = {})'
    BY <1>1 DEF AnalysisInv, MarkersInOrder
  <2> QED
    BY <2>1, <2>2, Zenon DEF MarkersInOrder
<1>5. WorkInOrder'
  <2> SUFFICES ASSUME NEW j \in Jobs, jobs'[j].at \in Busy, j[1] \notin overdue
               PROVE  (/\ HasLock(j[1]) /\ j[1] \in active
                       /\ InBatch(j[1]) => j \in markers)'
    BY Zenon DEF WorkInOrder
  <2>1. j[1] \in Orders /\ jobs[j].at \in Busy
    BY DEF Jobs
  <2> QED
    BY <1>1, <2>1 DEF AnalysisInv, WorkInOrder
<1> QED
  BY <1>2, <1>3, <1>4, <1>5 DEF AnalysisInv

\* The handler goes on, or is through.
LEMMA HandlerKeeps ==
    ASSUME AnalysisInv, NEW m \in Orders, Refuse(m) \/ Enqueue(m) \/ HandlerDies(m)
    PROVE  AnalysisInv'
<1> DEFINE j == <<m, asked[m].name>>
<1>1. /\ asked \in [Orders -> Askings] /\ jobs \in [Jobs -> Reports] /\ hit \subseteq Orders
      /\ rated \subseteq Members
  BY DEF AnalysisInv, AnalysisShape
<1>2. /\ asked[m].name \in 1..MaxNames /\ asked[m].name \in Nat /\ asked[m].size \in 0..MaxNames
      /\ MaxNames \in Nat /\ count[m] \in Nat /\ j \in Jobs /\ j[1] = m /\ j[2] = asked[m].name
  BY AskedFields DEF Jobs
<1> HIDE DEF j
<1>3. /\ "done" \in Steps /\ "admit" \in Steps
      /\ "queued" \in Places /\ "lost" \in Places /\ FALSE \in BOOLEAN
  BY DEF Steps, Places
<1>4. \E place \in {"queued", "lost"}, step \in {"done", "admit"}, name \in 1..MaxNames :
         /\ Handles(m, step, name)
         /\ \/ asked[m].step = "admit" /\ step = "done" /\ name = asked[m].name /\ jobs' = jobs
            \/ /\ asked[m].step = "enqueue" /\ Goes(j, place)
               /\ \/ step = "done" /\ name = asked[m].name
                  \/ step = "admit" /\ name = asked[m].name + 1 /\ asked[m].name < asked[m].size
  <2>1. CASE Refuse(m)
    <3> DEFINE word == asked[m].name = 1
    <3>1. word \in BOOLEAN
      OBVIOUS
    <3>2. /\ asked[m].step = "admit" /\ jobs' = jobs
          /\ asked' = [asked EXCEPT ![m] = [@ EXCEPT !.step = "done", !.told = word]]
      BY <2>1, Zenon DEF Refuse, Through
    <3> HIDE DEF word
    <3>3. Handles(m, "done", asked[m].name)
      BY <1>1, <1>2, <1>3, <3>1, <3>2, MessageGoes, Zenon
    <3> QED
      BY <1>2, <3>2, <3>3, Zenon
  <2>2. CASE Enqueue(m)
    <3>1. /\ asked[m].step = "enqueue" /\ jobs' = [jobs EXCEPT ![j].at = "queued"]
      BY <2>2, Zenon DEF Enqueue, j
    <3> DEFINE next == asked[m].name + 1
               longer == [asked[m] EXCEPT !.step = "admit", !.name = next]
               ended == [asked[m] EXCEPT !.step = "done"]
    <3>5. asked' = [asked EXCEPT ![m] = IF asked[m].name < asked[m].size THEN longer ELSE ended]
      BY <2>2 DEF Enqueue
    <3>6. \/ asked[m].name < asked[m].size /\ asked' = [asked EXCEPT ![m] = longer]
          \/ asked' = [asked EXCEPT ![m] = ended]
      <4> HIDE DEF longer, ended
      <4> QED
        BY <3>5
    <3>2. Goes(j, "queued")
      BY <1>1, <1>2, <1>3, <3>1, JobGoes, Zenon
    <3>3. CASE asked[m].name < asked[m].size /\ asked' = [asked EXCEPT ![m] = longer]
      <4>1. next \in 1..MaxNames
        BY <1>2, <3>3
      <4> HIDE DEF next
      <4>2. asked' = [asked EXCEPT ![m] = [@ EXCEPT !.step = "admit", !.name = next]]
        BY <3>3, Zenon
      <4>3. Handles(m, "admit", next)
        BY <1>1, <1>3, <4>1, <4>2, MessageGoes, Zenon
      <4> QED
        BY <3>1, <3>2, <3>3, <4>1, <4>3, Zenon DEF next
    <3>4. CASE asked' = [asked EXCEPT ![m] = ended]
      <4>1. Handles(m, "done", asked[m].name)
        BY <1>1, <1>2, <1>3, <3>4, MessageGoes, Zenon
      <4> QED
        BY <1>2, <3>1, <3>2, <4>1, Zenon
    <3> QED
      BY <3>3, <3>4, <3>6, Zenon
  <2>3. CASE HandlerDies(m)
    <3>1. /\ asked[m].step = "enqueue" /\ jobs' = [jobs EXCEPT ![j].at = "lost"]
          /\ asked' = [asked EXCEPT ![m].step = "done"]
      BY <2>3, Zenon DEF HandlerDies, j
    <3>2. Goes(j, "lost")
      BY <1>1, <1>2, <1>3, <3>1, JobGoes, Zenon
    <3>3. Handles(m, "done", asked[m].name)
      BY <1>1, <1>2, <1>3, <3>1, MessageGoes, Zenon
    <3> QED
      BY <1>2, <3>1, <3>2, <3>3, Zenon
  <2> QED
    BY <2>1, <2>2, <2>3
<1>5. PICK place \in {"queued", "lost"}, step \in {"done", "admit"}, name \in 1..MaxNames :
         /\ Handles(m, step, name)
         /\ \/ asked[m].step = "admit" /\ step = "done" /\ name = asked[m].name /\ jobs' = jobs
            \/ /\ asked[m].step = "enqueue" /\ Goes(j, place)
               /\ \/ step = "done" /\ name = asked[m].name
                  \/ step = "admit" /\ name = asked[m].name + 1 /\ asked[m].name < asked[m].size
  BY <1>4, Zenon
<1>6. /\ UNCHANGED <<lock, count, markers, active, overdue, rated>> /\ hit' \subseteq Orders
      /\ rated' \subseteq Members
  BY <1>1 DEF Refuse, Enqueue, HandlerDies
<1>7. /\ asked'[m].step = step /\ asked'[m].name = name /\ asked'[m].chat = asked[m].chat
      /\ asked'[m].member = asked[m].member /\ asked'[m].size = asked[m].size /\ asked[m].step \in {"admit", "enqueue"}
      /\ \A o \in Orders : o # m => asked'[o] = asked[o]
  BY <1>5 DEF Handles
<1>8. SameMessages
  BY <1>5, <1>7 DEF SameMessages, Handles
<1>9. OrdersInOrder'
  <2>1. \A o \in Orders : count[o] \in Nat /\ asked[o].name \in Nat
    BY AskedFields
  <2> QED
    BY <1>2, <1>5, <1>6, <1>7, <2>1 DEF AnalysisInv, OrdersInOrder
<1>10. jobs' \in [Jobs -> Reports] /\ \A k \in Jobs :
           /\ jobs'[k].at = "none" => jobs[k].at = "none"
           /\ jobs'[k].at # "none" => jobs[k].at # "none" \/ k = j
           /\ jobs'[k].at \in Busy => jobs[k].at \in Busy \/ k = j
  BY <1>1, <1>5 DEF Goes
<1>11. ASSUME NEW k \in Jobs, jobs'[k].at # "none"
       PROVE  /\ asked'[k[1]].step # "idle" /\ k[2] <= asked'[k[1]].name
              /\ asked'[k[1]].step = "admit" => k[2] < asked'[k[1]].name
  <2>0. k[1] \in Orders /\ k[2] \in Nat
    BY DEF Jobs
  <2>1. CASE k = j
    <3>1. asked[m].step = "enqueue"
      <4>1. CASE asked[m].step = "admit"
        <5>1. jobs[j].at # "none"
          BY <1>5, <1>11, <2>1, <4>1
        <5> QED
          BY <1>2, <4>1, <5>1 DEF AnalysisInv, JobsInOrder
      <4> QED
        BY <1>7, <4>1
    <3> QED
      BY <1>2, <1>5, <1>7, <2>1, <3>1
  <2>2. CASE k # j
    <3>1. jobs[k].at # "none"
      BY <1>10, <1>11, <2>2
    <3>2. /\ asked[k[1]].step # "idle" /\ k[2] <= asked[k[1]].name
          /\ asked[k[1]].step = "admit" => k[2] < asked[k[1]].name
      BY <3>1 DEF AnalysisInv, JobsInOrder
    <3>3. CASE k[1] # m
      BY <1>7, <2>0, <3>2, <3>3
    <3>4. CASE k[1] = m
      BY <1>2, <1>5, <1>7, <2>0, <3>2, <3>4
    <3> QED
      BY <3>3, <3>4
  <2> QED
    BY <2>1, <2>2
<1>13. ASSUME NEW o \in Orders, asked'[o].step = "enqueue"
       PROVE  jobs'[<<o, asked'[o].name>>].at = "admitted"
  <2>1. o # m /\ asked'[o] = asked[o]
    BY <1>5, <1>7, <1>13
  <2>2. <<o, asked[o].name>> \in Jobs /\ <<o, asked[o].name>> # j
    BY <1>2, <2>1, AskedFields DEF Jobs
  <2>3. jobs[<<o, asked[o].name>>].at = "admitted"
    BY <1>13, <2>1 DEF AnalysisInv, JobsInOrder
  <2> QED
    BY <1>5, <2>1, <2>2, <2>3 DEF Goes
<1>14. JobsInOrder'
  BY <1>11, <1>13 DEF JobsInOrder
<1>12. \A k \in Jobs : jobs'[k].at \in Busy => jobs[k].at \in Busy
  <2>1. CASE asked[m].step = "enqueue"
    <3>1. jobs[j].at = "admitted"
      BY <2>1 DEF AnalysisInv, JobsInOrder, j
    <3> QED
      BY <1>10, <3>1 DEF Busy
  <2>2. CASE jobs' = jobs
    BY <2>2
  <2> QED
    BY <1>5, <2>1, <2>2
<1> QED
  BY <1>6, <1>8, <1>9, <1>10, <1>12, <1>14, NothingTaken

\* Workers that begin, drop or lose a job, a member's minute.
LEMMA WorkersKeep ==
    ASSUME AnalysisInv,
           \/ \E j \in Jobs : Start(j) \/ Expire(j) \/ \E word \in BOOLEAN : WorkerDies(j, word)
           \/ \E p \in Members : MinuteOver(p)
    PROVE  AnalysisInv'
<1>1. /\ asked \in [Orders -> Askings] /\ jobs \in [Jobs -> Reports] /\ hit \subseteq Orders
      /\ rated \subseteq Members
  BY DEF AnalysisInv, AnalysisShape
<1>2. asked' = asked /\ UNCHANGED <<lock, count, markers, active, overdue>>
  BY DEF Start, Expire, WorkerDies, MinuteOver
<1>3. SameMessages /\ OrdersInOrder'
  BY <1>1, <1>2 DEF SameMessages, AnalysisInv, OrdersInOrder
<1>4. hit' \subseteq Orders /\ rated' \subseteq Members
  BY <1>1 DEF Start, Expire, WorkerDies, MinuteOver, Jobs
<1>5. \/ jobs' = jobs
      \/ \E j \in Jobs : /\ jobs[j].at \in {"queued", "running"}
                         /\ \/ Goes(j, "lost")
                            \/ Goes(j, "running")
  <2>1. ASSUME NEW j \in Jobs, Start(j) \/ Expire(j) \/ \E word \in BOOLEAN : WorkerDies(j, word)
        PROVE  jobs[j].at \in {"queued", "running"} /\ (Goes(j, "lost") \/ Goes(j, "running"))
    <3>1. "lost" \in Places /\ "running" \in Places /\ FALSE \in BOOLEAN
      BY DEF Places
    <3>2. jobs[j].at \in {"queued", "running"}
      BY <2>1 DEF Start, Expire, WorkerDies
    <3>3. PICK place \in {"lost", "running"}, word \in BOOLEAN :
              \/ jobs' = [jobs EXCEPT ![j].at = place]
              \/ jobs' = [jobs EXCEPT ![j] = [at |-> place, told |-> word]]
      BY <2>1, <3>1, Zenon DEF Start, Expire, WorkerDies
    <3>4. Goes(j, place)
      BY <1>1, <3>1, <3>3, JobGoes, Zenon
    <3> QED
      BY <3>2, <3>4
  <2> QED
    BY <2>1 DEF MinuteOver
<1>6. jobs' \in [Jobs -> Reports] /\ \A k \in Jobs :
           /\ jobs'[k].at = "none" <=> jobs[k].at = "none"
           /\ jobs'[k].at \in Busy => jobs[k].at \in Busy
           /\ jobs[k].at = "admitted" => jobs'[k].at = "admitted"
  <2>1. CASE jobs' = jobs
    BY <1>1, <2>1
  <2>2. ASSUME NEW j \in Jobs, jobs[j].at \in {"queued", "running"},
               Goes(j, "lost") \/ Goes(j, "running")
        PROVE  jobs' \in [Jobs -> Reports] /\ \A k \in Jobs :
                   /\ jobs'[k].at = "none" <=> jobs[k].at = "none"
                   /\ jobs'[k].at \in Busy => jobs[k].at \in Busy
                   /\ jobs[k].at = "admitted" => jobs'[k].at = "admitted"
    BY <2>2 DEF Goes, Busy
  <2> QED
    BY <1>5, <2>1, <2>2
<1>7. JobsInOrder'
  <2>1. \A m \in Orders : <<m, asked[m].name>> \in Jobs
    BY AskedFields DEF Jobs
  <2> QED
    BY <1>2, <1>6, <2>1 DEF AnalysisInv, JobsInOrder
<1> QED
  BY <1>2, <1>3, <1>4, <1>6, <1>7, NothingTaken

\* A job is over and released: a batch gives back the lock and the slot with its last
\* marked job, and no other of its jobs is under way then.
LEMMA ReleaseKeeps ==
    ASSUME AnalysisInv, NEW j \in Jobs, NEW m, m = j[1], Release(j), Goes(j, "closed"),
           \/ jobs[j].at = "running" /\ asked' = asked
           \/ /\ asked[m].step = "enqueue" /\ j[2] = asked[m].name
              /\ Handles(m, "done", asked[m].name),
           overdue' = overdue, hit' \subseteq Orders, rated' \subseteq Members
    PROVE  AnalysisInv'
<1> DEFINE room == asked[m].chat
           mine == HasLock(m)
           last == count[m] <= 1
<1>1. /\ asked \in [Orders -> Askings] /\ jobs \in [Jobs -> Reports]
      /\ lock \in [Chats -> Orders \cup {NoOrder}] /\ count \in [Orders -> Nat]
      /\ markers \subseteq Jobs /\ active \subseteq Orders /\ overdue \subseteq Orders
      /\ IsFiniteSet(markers) /\ IsFiniteSet(active)
  BY DEF AnalysisInv, AnalysisShape
<1>2. m \in Orders /\ asked[m].step # "idle" /\ room \in Chats /\ jobs[j].at # "none"
  <2>1. m \in Orders
    BY DEF Jobs
  <2>2. jobs[j].at # "none"
    BY <2>1 DEF AnalysisInv, JobsInOrder, Jobs
  <2> QED
    BY <2>1, <2>2 DEF AnalysisInv, JobsInOrder, OrdersInOrder
<1>3. /\ asked[m].name \in Nat /\ asked[m].size \in Nat /\ asked[m].name <= asked[m].size
      /\ count[m] \in Nat /\ m # NoOrder
  BY <1>2, AskedFields, AnalysisAssumption DEF AnalysisInv, OrdersInOrder
<1>4. /\ ~ InBatch(m) =>
            /\ lock' = IF mine THEN [lock EXCEPT ![room] = NoOrder] ELSE lock
            /\ active' = active \ {m} /\ count' = count /\ markers' = markers
      /\ InBatch(m) => markers' = markers \ {j}
      /\ InBatch(m) /\ j \in markers /\ mine =>
            /\ count' = [count EXCEPT ![m] = IF last THEN 0 ELSE @ - 1]
            /\ lock' = IF last THEN [lock EXCEPT ![room] = NoOrder] ELSE lock
            /\ active' = IF last THEN active \ {m} ELSE active
      /\ InBatch(m) /\ ~ (j \in markers /\ mine) =>
            count' = count /\ lock' = lock /\ active' = active
  BY <1>2 DEF Release, HasLock, Owner
<1>5. SameMessages /\ \A o \in Orders : asked'[o].name = asked[o].name
  BY <1>1, <1>2, <1>3 DEF SameMessages, Handles
<1>6. /\ jobs' \in [Jobs -> Reports] /\ jobs'[j].at = "closed"
      /\ \A k \in Jobs : k # j => jobs'[k] = jobs[k]
  BY DEF Goes
<1>7. IF InBatch(m) /\ mine THEN count[m] = Cardinality(MarkersOf(m)) ELSE MarkersOf(m) = {}
  BY <1>2 DEF AnalysisInv, MarkersInOrder
<1>8. IsFiniteSet(MarkersOf(m)) /\ Cardinality(MarkersOf(m)) \in Nat
  <2>1. MarkersOf(m) \in SUBSET markers
    BY DEF MarkersOf
  <2> QED
    BY <1>1, <2>1, FS_Subset, FS_CardinalityType
<1>9. MarkersOf(m)' = {k \in markers' : k[1] = m}
  BY DEF MarkersOf
\* It gives everything back, or nothing but its mark.
<1> DEFINE Frees == /\ lock' = IF mine THEN [lock EXCEPT ![room] = NoOrder] ELSE lock
                    /\ active' = active \ {m} /\ MarkersOf(m)' = {}
                    /\ \A k \in Jobs : k[1] = m /\ k # j /\ jobs[k].at \in Busy => m \in overdue
           Stays == /\ lock' = lock /\ active' = active
                    /\ IF InBatch(m) /\ mine THEN count'[m] = Cardinality(MarkersOf(m)')
                       ELSE MarkersOf(m)' = {}
<1>10. Frees \/ Stays
  <2>1. CASE ~ InBatch(m)
    <3>1. MarkersOf(m)' = {}
      BY <1>4, <1>7, <1>9, <2>1 DEF MarkersOf
    <3>2. ASSUME NEW k \in Jobs, k[1] = m, k # j, jobs[k].at \in Busy
          PROVE  FALSE
      <4>1. k[2] <= asked[m].name /\ j[2] <= asked[m].name
        BY <1>2, <3>2 DEF AnalysisInv, JobsInOrder, Busy
      <4>2. k[2] \in Nat \ {0} /\ j[2] \in Nat \ {0} /\ k = <<k[1], k[2]>> /\ j = <<j[1], j[2]>>
        BY DEF Jobs
      <4>3. k[2] = 1 /\ j[2] = 1
        BY <1>3, <2>1, <4>1, <4>2 DEF InBatch
      <4> QED
        BY <3>2, <4>2, <4>3
    <3> QED
      BY <1>4, <2>1, <3>1, <3>2
  <2>2. CASE InBatch(m) /\ ~ (j \in markers /\ mine)
    <3>1. j \notin markers
      BY <1>7, <2>2 DEF MarkersOf
    <3>2. markers' = markers
      BY <1>4, <2>2, <3>1
    <3>3. MarkersOf(m)' = MarkersOf(m)
      BY <3>2 DEF MarkersOf
    <3> QED
      BY <1>4, <1>7, <2>2, <3>3
  <2>3. CASE InBatch(m) /\ j \in markers /\ mine
    <3>1. j \in MarkersOf(m) /\ MarkersOf(m)' = MarkersOf(m) \ {j}
      BY <1>4, <1>9, <2>3 DEF MarkersOf
    <3>2. /\ Cardinality(MarkersOf(m) \ {j}) = Cardinality(MarkersOf(m)) - 1
          /\ IsFiniteSet(MarkersOf(m) \ {j})
      BY <1>8, <3>1, FS_RemoveElement
    <3>3. CASE last
      <4>1. Cardinality(MarkersOf(m) \ {j}) \in Nat
        BY <3>2, FS_CardinalityType
      <4>2. Cardinality(MarkersOf(m) \ {j}) = 0
        BY <1>3, <1>7, <1>8, <2>3, <3>2, <3>3, <4>1
      <4>3. MarkersOf(m) \ {j} = {}
        BY <3>2, <4>2, FS_EmptySet
      <4>4. ASSUME NEW k \in Jobs, k[1] = m, k # j, jobs[k].at \in Busy, m \notin overdue
            PROVE  FALSE
        <5>1. k \in markers
          BY <2>3, <4>4 DEF AnalysisInv, WorkInOrder
        <5> QED
          BY <4>3, <4>4, <5>1 DEF MarkersOf
      <4> QED
        BY <1>4, <2>3, <3>1, <3>3, <4>3, <4>4
    <3>4. CASE ~ last
      <4>1. count'[m] = count[m] - 1
        BY <1>1, <1>2, <1>4, <2>3, <3>4
      <4>2. count'[m] = Cardinality(MarkersOf(m)')
        BY <1>7, <2>3, <3>1, <3>2, <4>1
      <4> QED
        BY <1>4, <2>3, <3>4, <4>2
    <3> QED
      BY <3>3, <3>4
  <2> QED
    BY <2>1, <2>2, <2>3
<1>11. /\ count' \in [Orders -> Nat] /\ count'[m] <= count[m]
       /\ \A o \in Orders : o # m => count'[o] = count[o]
       /\ markers' \subseteq markers /\ \A k \in markers : k # j => k \in markers'
       /\ lock' = lock \/ (mine /\ lock' = [lock EXCEPT ![room] = NoOrder])
       /\ lock' \in [Chats -> Orders \cup {NoOrder}]
       /\ active' = active \/ active' = active \ {m}
  <2>1. CASE InBatch(m) /\ j \in markers /\ mine
    <3>1. count[m] = Cardinality(MarkersOf(m)) /\ j \in MarkersOf(m)
      BY <1>7, <2>1 DEF MarkersOf
    <3>2. count[m] # 0
      BY <1>8, <3>1, FS_EmptySet
    <3> QED
      BY <1>1, <1>2, <1>3, <1>4, <2>1, <3>2
  <2>2. CASE ~ (InBatch(m) /\ j \in markers /\ mine)
    BY <1>1, <1>2, <1>3, <1>4, <2>2
  <2> QED
    BY <2>1, <2>2
<1> HIDE DEF mine, last, room
<1>12. IsFiniteSet(markers') /\ IsFiniteSet(active') /\ Cardinality(active') <= Cardinality(active)
       /\ Cardinality(active') \in Nat /\ Cardinality(active) \in Nat
  <2>1. markers' \in SUBSET markers /\ active' \in SUBSET active
    BY <1>11
  <2> QED
    BY <1>1, <2>1, FS_Subset, FS_CardinalityType
<1>13. AnalysisShape'
  <2>1. markers' \subseteq Jobs /\ active' \subseteq Orders /\ overdue' \subseteq Orders
    BY <1>1, <1>11
  <2>2. asked' \in [Orders -> Askings]
    BY <1>5 DEF SameMessages
  <2> QED
    BY <1>6, <1>11, <1>12, <2>1, <2>2, Zenon DEF AnalysisShape
<1>14. OrdersInOrder'
  <2>1. ASSUME NEW o \in Orders
        PROVE  /\ asked'[o].step # "idle" => /\ asked'[o].chat \in Chats /\ asked'[o].member \in Members
                                           /\ asked'[o].name <= asked'[o].size
               /\ asked'[o].step = "idle" => asked'[o].name = 1
               /\ o \in overdue => asked'[o].step = "done"
               /\ count'[o] <= asked'[o].name
               /\ asked'[o].step \in {"idle", "admit"} => count'[o] < asked'[o].name
    <3>1. /\ asked'[o].chat = asked[o].chat /\ asked'[o].member = asked[o].member
          /\ asked'[o].size = asked[o].size
          /\ asked'[o].name = asked[o].name /\ asked[o].name \in Nat
          /\ count[o] \in Nat /\ count'[o] \in Nat /\ count'[o] <= count[o]
          /\ asked'[o].step = asked[o].step \/ asked'[o].step = "done"
          /\ asked'[o].step = "idle" <=> asked[o].step = "idle"
      BY <1>5, <1>11, AskedFields DEF SameMessages, Handles
    <3>2. /\ asked[o].step # "idle" => /\ asked[o].chat \in Chats /\ asked[o].member \in Members
                                       /\ asked[o].name <= asked[o].size
          /\ asked[o].step = "idle" => asked[o].name = 1
          /\ o \in overdue => asked[o].step = "done"
          /\ count[o] <= asked[o].name
          /\ asked[o].step \in {"idle", "admit"} => count[o] < asked[o].name
      BY DEF AnalysisInv, OrdersInOrder
    <3> QED
      BY <3>1, <3>2
  <2> QED
    BY <2>1 DEF OrdersInOrder
<1>15. JobsInOrder'
  <2>1. ASSUME NEW k \in Jobs, jobs'[k].at # "none"
        PROVE  /\ asked'[k[1]].step # "idle" /\ k[2] <= asked'[k[1]].name
               /\ asked'[k[1]].step = "admit" => k[2] < asked'[k[1]].name
    <3>1. k[1] \in Orders /\ jobs[k].at # "none"
      BY <1>2, <1>6, <2>1 DEF Jobs
    <3>2. asked'[k[1]].step = "admit" => asked[k[1]].step = "admit"
      BY <1>1, <3>1 DEF Handles
    <3> QED
      BY <1>5, <3>1, <3>2 DEF AnalysisInv, JobsInOrder, SameMessages
  <2>2. ASSUME NEW o \in Orders, asked'[o].step = "enqueue"
        PROVE  jobs'[<<o, asked'[o].name>>].at = "admitted"
    <3>1. asked[o].step = "enqueue" /\ asked'[o].name = asked[o].name
      BY <1>5, <2>2 DEF Handles
    <3>2. jobs[<<o, asked[o].name>>].at = "admitted" /\ <<o, asked[o].name>> \in Jobs
      BY <3>1, AskedFields DEF AnalysisInv, JobsInOrder, Jobs
    <3>3. <<o, asked[o].name>> # j
      BY <2>2, <3>2 DEF Handles
    <3> QED
      BY <1>6, <3>1, <3>2, <3>3
  <2> QED
    BY <2>1, <2>2 DEF JobsInOrder
<1>16. /\ \A o \in Orders : (InBatch(o)' <=> InBatch(o)) /\ (HasLock(o)' => HasLock(o))
       /\ \A o \in Orders : o # m => (HasLock(o)' <=> HasLock(o)) /\ MarkersOf(o)' = MarkersOf(o)
  <2>1. \A o \in Orders : /\ asked'[o].chat = asked[o].chat /\ asked'[o].size = asked[o].size
                          /\ asked'[o].step = "idle" <=> asked[o].step = "idle"
    BY <1>5 DEF SameMessages
  <2>2. ASSUME NEW o \in Orders, asked[o].step # "idle"
        PROVE  /\ lock'[asked[o].chat] = o => lock[asked[o].chat] = o
               /\ o # m => (lock'[asked[o].chat] = o <=> lock[asked[o].chat] = o)
    <3>1. asked[o].chat \in Chats /\ o # NoOrder
      BY <2>2, AskedFields, AnalysisAssumption
    <3>2. mine => lock[room] = m
      BY DEF mine, HasLock, room
    <3> QED
      BY <1>1, <1>11, <3>1, <3>2
  <2>3. ASSUME NEW o \in Orders, o # m
        PROVE  MarkersOf(o)' = MarkersOf(o)
    BY <1>11, <2>3 DEF MarkersOf
  <2> QED
    BY <2>1, <2>2, <2>3 DEF InBatch, HasLock
<1>17. LocksInOrder'
  <2>1. ASSUME NEW c \in Chats, lock'[c] # NoOrder
        PROVE  asked'[lock'[c]].step # "idle" /\ asked'[lock'[c]].chat = c
    <3>1. lock'[c] = lock[c] /\ lock[c] \in Orders
      BY <1>1, <1>11, <2>1
    <3> QED
      BY <1>5, <2>1, <3>1 DEF AnalysisInv, LocksInOrder, SameMessages
  <2>2. ASSUME NEW o \in Orders, HasLock(o)', o \notin overdue
        PROVE  o \in active'
    <3>1. o \in active
      BY <1>16, <2>2 DEF AnalysisInv, LocksInOrder
    <3>2. Frees => ~ HasLock(m)'
      <4> SUFFICES ASSUME Frees, HasLock(m)'
                   PROVE  FALSE
        OBVIOUS
      <4>1. mine
        BY <1>2, <1>16 DEF mine
      <4>2. lock'[room] = NoOrder
        BY <1>1, <1>2, <4>1 DEF room
      <4>3. asked'[m].chat = room
        BY <1>2, <1>5 DEF SameMessages, room
      <4> QED
        BY <1>3, <4>2, <4>3 DEF HasLock
    <3> QED
      BY <1>10, <2>2, <3>1, <3>2
  <2>3. Cardinality(active') <= MaxActive
    BY <1>12, AnalysisAssumption DEF AnalysisInv, LocksInOrder
  <2> QED
    BY <2>1, <2>2, <2>3 DEF LocksInOrder
<1>18. MarkersInOrder'
  <2>1. \A k \in markers' : jobs'[k].at # "none"
    BY <1>1, <1>6, <1>11 DEF AnalysisInv, MarkersInOrder
  <2>2. ASSUME NEW o \in Orders
        PROVE  (IF InBatch(o) /\ HasLock(o) THEN count[o] = Cardinality(MarkersOf(o))
                ELSE MarkersOf(o) = {})'
    <3>1. CASE o # m
      BY <1>11, <1>16, <3>1 DEF AnalysisInv, MarkersInOrder
    <3>2. CASE o = m /\ Frees
      <4>1. ~ HasLock(m)'
        <5> SUFFICES ASSUME HasLock(m)'
                     PROVE  FALSE
          OBVIOUS
        <5>1. mine
          BY <1>2, <1>16 DEF mine
        <5>2. lock'[room] = NoOrder
          BY <1>1, <1>2, <3>2, <5>1 DEF room
        <5>3. asked'[m].chat = room
          BY <1>2, <1>5 DEF SameMessages, room
        <5> QED
          BY <1>3, <5>2, <5>3 DEF HasLock
      <4> QED
        BY <3>2, <4>1
    <3>3. CASE o = m /\ Stays
      <4>1. HasLock(m)' <=> mine
        BY <1>2, <1>5, <3>3 DEF HasLock, SameMessages, mine
      <4> QED
        BY <1>2, <1>16, <3>3, <4>1
    <3> QED
      BY <1>10, <3>1, <3>2, <3>3
  <2> QED
    BY <2>1, <2>2, Zenon DEF MarkersInOrder
<1>19. WorkInOrder'
  <2> SUFFICES ASSUME NEW k \in Jobs, jobs'[k].at \in Busy, k[1] \notin overdue
               PROVE  (/\ HasLock(k[1]) /\ k[1] \in active
                       /\ InBatch(k[1]) => k \in markers)'
    BY Zenon DEF WorkInOrder
  <2>1. k # j /\ jobs[k].at \in Busy /\ k[1] \in Orders
    BY <1>6 DEF Busy, Jobs
  <2>2. HasLock(k[1]) /\ k[1] \in active /\ (InBatch(k[1]) => k \in markers)
    BY <2>1 DEF AnalysisInv, WorkInOrder
  <2>3. CASE k[1] # m
    BY <1>11, <1>16, <2>1, <2>2, <2>3
  <2>4. CASE k[1] = m
    <3>1. Stays
      BY <1>10, <2>1, <2>4
    <3>2. HasLock(m)' <=> mine
      BY <1>2, <1>5, <3>1 DEF HasLock, SameMessages, mine
    <3> QED
      BY <1>11, <1>16, <2>1, <2>2, <2>4, <3>1, <3>2 DEF mine
  <2> QED
    BY <2>3, <2>4
<1> QED
  BY <1>13, <1>14, <1>15, <1>17, <1>18, <1>19 DEF AnalysisInv

\* A report is closed: the worker has finished or given up, or the queue did not take it.
LEMMA JobEnds ==
    ASSUME AnalysisInv,
           \/ \E j \in Jobs : Cancel(j) \/ \E word \in BOOLEAN : Finish(j, word)
           \/ \E m \in Orders : EnqueueFails(m)
    PROVE  AnalysisInv'
<1>1. /\ asked \in [Orders -> Askings] /\ jobs \in [Jobs -> Reports] /\ hit \subseteq Orders
      /\ rated \subseteq Members
  BY DEF AnalysisInv, AnalysisShape
<1>2. "closed" \in Places /\ "done" \in Steps /\ FALSE \in BOOLEAN
  BY DEF Places, Steps
<1>3. ASSUME NEW j \in Jobs, Cancel(j) \/ \E word \in BOOLEAN : Finish(j, word)
      PROVE  AnalysisInv'
  <2>1. PICK word \in BOOLEAN :
            \/ jobs' = [jobs EXCEPT ![j].at = "closed"]
            \/ jobs' = [jobs EXCEPT ![j] = [at |-> "closed", told |-> word]]
    BY <1>2, <1>3, Zenon DEF Cancel, Finish
  <2>2. Goes(j, "closed")
    BY <1>1, <1>2, <2>1, JobGoes, Zenon
  <2>3. jobs[j].at = "running" /\ Release(j) /\ UNCHANGED <<asked, rated, overdue, hit>>
    BY <1>3, Zenon DEF Cancel, Finish
  <2> QED
    BY <1>1, <2>2, <2>3, ReleaseKeeps
<1>4. ASSUME NEW m \in Orders, EnqueueFails(m)
      PROVE  AnalysisInv'
  <2> DEFINE j == <<m, asked[m].name>>
             word == asked[m].name = 1
  <2>1. j \in Jobs /\ j[1] = m /\ j[2] = asked[m].name /\ asked[m].name \in 1..MaxNames
        /\ word \in BOOLEAN
    BY AskedFields DEF Jobs
  <2>2. /\ jobs' = [jobs EXCEPT ![j].at = "closed"] /\ Release(j)
        /\ asked' = [asked EXCEPT ![m] = [@ EXCEPT !.step = "done", !.told = word]]
        /\ asked[m].step = "enqueue"
    BY <1>4, Zenon DEF EnqueueFails, Through
  <2>3. UNCHANGED <<rated, overdue>> /\ hit' \subseteq Orders
    BY <1>1, <1>4 DEF EnqueueFails
  <2> HIDE DEF j, word
  <2>4. Goes(j, "closed")
    BY <1>1, <1>2, <2>1, <2>2, JobGoes, Zenon
  <2>5. Handles(m, "done", asked[m].name)
    BY <1>1, <1>2, <2>1, <2>2, MessageGoes, Zenon
  <2> QED
    BY <1>1, <2>1, <2>2, <2>3, <2>4, <2>5, ReleaseKeeps
<1> QED
  BY <1>3, <1>4

\* Why a name is admitted: its message has the lock of its group already, or the group
\* and a global slot are free.
LEMMA Admissible ==
    ASSUME NEW m \in Orders, Refusal(m) = "none"
    PROVE  \/ InBatch(m) /\ Owner(m) = m
           \/ Owner(m) = NoOrder /\ ~ (Cardinality(active) >= MaxActive)
<1> DEFINE joins == InBatch(m) /\ Owner(m) = m
           held == InBatch(m) /\ Owner(m) \notin {m, NoOrder}
           rate == asked[m].member \in rated /\ ~ joins
           rest == IF Owner(m) # NoOrder THEN "group_busy"
                   ELSE IF Cardinality(active) >= MaxActive THEN "global_busy"
                   ELSE "none"
<1>1. Refusal(m) = CASE joins -> "none" [] held -> "group_busy" [] rate -> "member_rate"
                     [] OTHER -> rest
  BY DEF Refusal
<1>2. joins \/ rest = "none"
  <2> HIDE DEF joins, held, rate, rest
  <2> QED
    BY <1>1
<1> QED
  BY <1>2

\* A name is admitted: the first of a message takes the lock and a slot, the others
\* of a batch are counted and marked.
LEMMA AdmitKeeps ==
    ASSUME AnalysisInv, NEW m \in Orders, Admit(m)
    PROVE  AnalysisInv'
<1> DEFINE j == <<m, asked[m].name>>
           room == asked[m].chat
           joins == InBatch(m) /\ Owner(m) = m
<1>1. /\ asked \in [Orders -> Askings] /\ jobs \in [Jobs -> Reports]
      /\ lock \in [Chats -> Orders \cup {NoOrder}] /\ count \in [Orders -> Nat]
      /\ markers \subseteq Jobs /\ active \subseteq Orders /\ overdue \subseteq Orders
      /\ rated \subseteq Members /\ hit \subseteq Orders
      /\ IsFiniteSet(markers) /\ IsFiniteSet(active)
  BY DEF AnalysisInv, AnalysisShape
<1>2. /\ asked[m].step = "admit" /\ jobs' = [jobs EXCEPT ![j].at = "admitted"]
      /\ asked' = [asked EXCEPT ![m].step = "enqueue"]
      /\ overdue' = overdue /\ hit' = hit
  BY Zenon DEF Admit
<1>3. /\ j \in Jobs /\ j[1] = m /\ j[2] = asked[m].name /\ asked[m].name \in 1..MaxNames
      /\ asked[m].name \in Nat /\ 1 <= asked[m].name /\ count[m] \in Nat
      /\ room \in Chats /\ m # NoOrder /\ asked[m].name <= asked[m].size
      /\ asked[m].size \in Nat
  BY <1>2, AskedFields, AnalysisAssumption DEF Jobs, AnalysisInv, OrdersInOrder
<1>4. /\ lock' = [lock EXCEPT ![room] = m] /\ active' = active \cup {m}
      /\ count' = [count EXCEPT ![m] = IF joins THEN @ + 1 ELSE 1]
      /\ markers' = IF InBatch(m) THEN markers \cup {j} ELSE markers
      /\ rated' = rated \cup {asked[m].member}
  BY DEF Admit
<1>5. joins \/ (Owner(m) = NoOrder /\ Cardinality(active) < MaxActive)
  <2>1. Cardinality(active) \in Nat
    BY <1>1, FS_CardinalityType
  <2> QED
    BY <2>1, Admissible, AnalysisAssumption DEF Admit
<1>6. m \notin overdue /\ jobs[j].at = "none" /\ j \notin markers /\ count[m] < asked[m].name
  <2>1. m \notin overdue /\ count[m] < asked[m].name
    BY <1>2 DEF AnalysisInv, OrdersInOrder
  <2>2. jobs[j].at = "none"
    BY <1>2, <1>3 DEF AnalysisInv, JobsInOrder
  <2> QED
    BY <2>1, <2>2 DEF AnalysisInv, MarkersInOrder
<1>7. (HasLock(m) <=> Owner(m) = m) /\ (InBatch(m) <=> asked[m].size > 1)
  BY <1>2 DEF HasLock, Owner, InBatch
<1>8. rated' \subseteq Members
  BY <1>1, <1>2, <1>4 DEF AnalysisInv, OrdersInOrder
<1>9. Goes(j, "admitted") /\ Handles(m, "enqueue", asked[m].name)
  <2>1. "admitted" \in Places /\ "enqueue" \in Steps /\ FALSE \in BOOLEAN
    BY DEF Places, Steps
  <2> HIDE DEF j
  <2> QED
    BY <1>1, <1>2, <1>3, <2>1, JobGoes, MessageGoes, Zenon
<1>10. /\ asked' \in [Orders -> Askings] /\ asked'[m].step = "enqueue"
       /\ asked'[m].name = asked[m].name /\ asked'[m].chat = room
       /\ asked'[m].member = asked[m].member /\ asked'[m].size = asked[m].size
       /\ \A o \in Orders : o # m => asked'[o] = asked[o]
       /\ jobs' \in [Jobs -> Reports] /\ jobs'[j].at = "admitted"
       /\ \A k \in Jobs : k # j => jobs'[k] = jobs[k]
  BY <1>9 DEF Goes, Handles
<1>11. /\ lock' \in [Chats -> Orders \cup {NoOrder}] /\ lock'[room] = m
       /\ lock[room] = m \/ lock[room] = NoOrder
       /\ \A c \in Chats : c # room => lock'[c] = lock[c]
       /\ Owner(m) = lock[room]
  BY <1>1, <1>3, <1>4, <1>5 DEF Owner
<1>12. /\ count' \in [Orders -> Nat] /\ count'[m] <= asked[m].name
       /\ count'[m] = IF joins THEN count[m] + 1 ELSE 1
       /\ \A o \in Orders : o # m => count'[o] = count[o]
  BY <1>1, <1>3, <1>4, <1>6
<1>13. /\ IsFiniteSet(active') /\ Cardinality(active') <= MaxActive
       /\ m \in active' /\ active \subseteq active' /\ active' \subseteq active \cup {m}
  <2>1. CASE joins
    <3>1. m \in active
      BY <1>6, <1>7, <2>1 DEF AnalysisInv, LocksInOrder
    <3>2. active' = active
      BY <1>4, <3>1
    <3> QED
      BY <1>1, <3>1, <3>2 DEF AnalysisInv, LocksInOrder
  <2>2. CASE Cardinality(active) < MaxActive
    <3>1. /\ IsFiniteSet(active \cup {m}) /\ Cardinality(active) \in Nat
          /\ Cardinality(active \cup {m}) = Cardinality(active)
             \/ Cardinality(active \cup {m}) = Cardinality(active) + 1
      BY <1>1, FS_AddElement, FS_CardinalityType
    <3> QED
      BY <1>4, <2>2, <3>1, AnalysisAssumption
  <2> QED
    BY <1>5, <2>1, <2>2
<1>14. /\ IsFiniteSet(markers') /\ markers' \subseteq Jobs
       /\ markers \subseteq markers' /\ markers' \subseteq markers \cup {j}
       /\ InBatch(m) => j \in markers'
  <2>1. IsFiniteSet(markers \cup {j})
    BY <1>1, FS_AddElement
  <2> QED
    BY <1>1, <1>3, <1>4, <2>1
<1> HIDE DEF j, room, joins
<1>15. /\ \A o \in Orders : /\ InBatch(o)' <=> InBatch(o)
                            /\ asked'[o].chat = asked[o].chat
                            /\ asked'[o].step = "idle" <=> asked[o].step = "idle"
       /\ HasLock(m)'
       /\ \A o \in Orders : o # m => (HasLock(o)' <=> HasLock(o)) /\ MarkersOf(o)' = MarkersOf(o)
  <2>1. \A o \in Orders : /\ InBatch(o)' <=> InBatch(o)
                          /\ asked'[o].chat = asked[o].chat
                          /\ asked'[o].step = "idle" <=> asked[o].step = "idle"
    BY <1>2, <1>10 DEF InBatch, room
  <2>2. HasLock(m)'
    BY <1>10, <1>11 DEF HasLock
  <2>3. ASSUME NEW o \in Orders, o # m
        PROVE  (HasLock(o)' <=> HasLock(o)) /\ MarkersOf(o)' = MarkersOf(o)
    <3>1. MarkersOf(o)' = MarkersOf(o)
      BY <1>3, <1>14, <2>3 DEF MarkersOf
    <3>2. asked'[o] = asked[o] /\ (asked[o].step # "idle" => asked[o].chat \in Chats) /\ o # NoOrder
      BY <1>10, <2>3, AskedFields, AnalysisAssumption
    <3> QED
      BY <1>11, <2>3, <3>1, <3>2 DEF HasLock
  <2> QED
    BY <2>1, <2>2, <2>3
<1>16. AnalysisShape'
  <2>1. active' \subseteq Orders /\ overdue' \subseteq Orders /\ hit' \subseteq Orders
    BY <1>1, <1>2, <1>13
  <2> QED
    BY <1>8, <1>10, <1>11, <1>12, <1>13, <1>14, <2>1, Zenon DEF AnalysisShape
<1>17. OrdersInOrder'
  BY <1>1, <1>2, <1>3, <1>6, <1>10, <1>12 DEF AnalysisInv, OrdersInOrder, room
<1>18. JobsInOrder'
  <2>1. ASSUME NEW k \in Jobs, jobs'[k].at # "none"
        PROVE  /\ asked'[k[1]].step # "idle" /\ k[2] <= asked'[k[1]].name
               /\ asked'[k[1]].step = "admit" => k[2] < asked'[k[1]].name
    <3>1. k[1] \in Orders /\ k[2] \in Nat
      BY DEF Jobs
    <3>2. CASE k = j
      BY <1>3, <1>10, <3>2
    <3>3. CASE k # j
      <4>1. /\ asked[k[1]].step # "idle" /\ k[2] <= asked[k[1]].name
            /\ asked[k[1]].step = "admit" => k[2] < asked[k[1]].name
        BY <1>10, <2>1, <3>3 DEF AnalysisInv, JobsInOrder
      <4> QED
        BY <1>10, <3>1, <4>1
    <3> QED
      BY <3>2, <3>3
  <2>2. ASSUME NEW o \in Orders, asked'[o].step = "enqueue"
        PROVE  jobs'[<<o, asked'[o].name>>].at = "admitted"
    <3>1. CASE o = m
      BY <1>10, <3>1 DEF j
    <3>2. CASE o # m
      <4>1. <<o, asked[o].name>> \in Jobs /\ <<o, asked[o].name>> # j
        BY <3>2, AskedFields DEF Jobs, j
      <4>2. asked'[o] = asked[o]
        BY <1>10, <3>2
      <4>3. jobs[<<o, asked[o].name>>].at = "admitted"
        BY <2>2, <4>2 DEF AnalysisInv, JobsInOrder
      <4> QED
        BY <1>10, <4>1, <4>2, <4>3
    <3> QED
      BY <3>1, <3>2
  <2> QED
    BY <2>1, <2>2 DEF JobsInOrder
<1>19. LocksInOrder'
  <2>1. ASSUME NEW c \in Chats, lock'[c] # NoOrder
        PROVE  asked'[lock'[c]].step # "idle" /\ asked'[lock'[c]].chat = c
    <3>1. CASE c = room
      BY <1>10, <1>11, <3>1
    <3>2. CASE c # room
      <4>1. lock'[c] = lock[c] /\ lock[c] \in Orders
        BY <1>1, <1>11, <2>1, <3>2
      <4> QED
        BY <1>15, <2>1, <4>1 DEF AnalysisInv, LocksInOrder
    <3> QED
      BY <3>1, <3>2
  <2>2. \A o \in Orders : HasLock(o)' /\ o \notin overdue' => o \in active'
    BY <1>2, <1>13, <1>15 DEF AnalysisInv, LocksInOrder
  <2> QED
    BY <1>13, <2>1, <2>2 DEF LocksInOrder
<1>20. MarkersInOrder'
  <2>1. \A k \in markers' : jobs'[k].at # "none"
    BY <1>1, <1>10, <1>14 DEF AnalysisInv, MarkersInOrder
  <2>2. ASSUME NEW o \in Orders
        PROVE  (IF InBatch(o) /\ HasLock(o) THEN count[o] = Cardinality(MarkersOf(o))
                ELSE MarkersOf(o) = {})'
    <3>1. CASE o # m
      BY <1>12, <1>15, <3>1 DEF AnalysisInv, MarkersInOrder
    <3>2. IF InBatch(m) /\ HasLock(m) THEN count[m] = Cardinality(MarkersOf(m)) ELSE MarkersOf(m) = {}
      BY DEF AnalysisInv, MarkersInOrder
    <3>3. CASE o = m /\ ~ InBatch(m)
      <4>1. markers' = markers
        BY <1>4, <3>3
      <4>2. MarkersOf(m)' = {}
        BY <3>2, <3>3, <4>1 DEF MarkersOf
      <4> QED
        BY <1>15, <3>3, <4>2
    <3>4. CASE o = m /\ InBatch(m)
      <4>1. MarkersOf(m)' = MarkersOf(m) \cup {j} /\ j \notin MarkersOf(m)
        BY <1>3, <1>6, <1>14, <3>4 DEF MarkersOf
      <4>2. IsFiniteSet(MarkersOf(m))
        <5>1. MarkersOf(m) \in SUBSET markers
          BY DEF MarkersOf
        <5> QED
          BY <1>1, <5>1, FS_Subset
      <4>3. Cardinality(MarkersOf(m)') = Cardinality(MarkersOf(m)) + 1
        BY <4>1, <4>2, FS_AddElement
      <4>4. CASE joins
        BY <1>7, <1>12, <1>15, <3>2, <3>4, <4>3, <4>4 DEF joins
      <4>5. CASE ~ joins
        <5>1. MarkersOf(m) = {}
          BY <1>7, <3>2, <3>4, <4>5 DEF joins
        <5>2. Cardinality(MarkersOf(m)') = 1
          BY <4>3, <5>1, FS_EmptySet
        <5> QED
          BY <1>12, <1>15, <3>4, <4>5, <5>2
      <4> QED
        BY <4>4, <4>5
    <3> QED
      BY <3>1, <3>3, <3>4
  <2> QED
    BY <2>1, <2>2, Zenon DEF MarkersInOrder
<1>21. WorkInOrder'
  <2> SUFFICES ASSUME NEW k \in Jobs, jobs'[k].at \in Busy, k[1] \notin overdue
               PROVE  (/\ HasLock(k[1]) /\ k[1] \in active
                       /\ InBatch(k[1]) => k \in markers)'
    BY <1>2, Zenon DEF WorkInOrder
  <2>1. k[1] \in Orders
    BY DEF Jobs
  <2>2. CASE k = j
    BY <1>3, <1>13, <1>14, <1>15, <2>2
  <2>3. CASE k # j
    <3>1. HasLock(k[1]) /\ k[1] \in active /\ (InBatch(k[1]) => k \in markers)
      BY <1>10, <2>3 DEF AnalysisInv, WorkInOrder
    <3> QED
      BY <1>13, <1>14, <1>15, <2>1, <3>1
  <2> QED
    BY <2>2, <2>3
<1> QED
  BY <1>16, <1>17, <1>18, <1>19, <1>20, <1>21 DEF AnalysisInv

\* A message comes: it holds nothing yet.
LEMMA AskKeeps ==
    ASSUME AnalysisInv, NEW m \in Orders, NEW c \in Chats, NEW p \in Members,
           NEW n \in 1..MaxNames, Ask(m, c, p, n)
    PROVE  AnalysisInv'
<1> DEFINE new == [asked[m] EXCEPT !.step = "admit", !.chat = c, !.member = p, !.size = n]
<1>1. /\ asked \in [Orders -> Askings] /\ jobs \in [Jobs -> Reports]
      /\ lock \in [Chats -> Orders \cup {NoOrder}] /\ count \in [Orders -> Nat]
      /\ markers \subseteq Jobs /\ overdue \subseteq Orders
  BY DEF AnalysisInv, AnalysisShape
<1>2. asked[m].step = "idle" /\ asked' = [asked EXCEPT ![m] = new]
      /\ UNCHANGED <<jobs, lock, count, markers, rated, active, overdue, hit>>
  BY Zenon DEF Ask
<1>3. n \in 0..MaxNames /\ MaxNames \in Nat /\ n \in Nat /\ 1 <= n /\ "admit" \in Steps
  BY AnalysisAssumption DEF Steps
<1>4. asked[m] \in Askings
  BY <1>1
<1>5. /\ new \in Askings /\ new.step = "admit" /\ new.chat = c /\ new.member = p
      /\ new.size = n /\ new.name = asked[m].name
  BY <1>3, <1>4, Zenon DEF Askings
<1> HIDE DEF new
<1>6. asked' \in [Orders -> Askings] /\ asked'[m] = new
      /\ \A o \in Orders : o # m => asked'[o] = asked[o]
  BY <1>1, <1>2, <1>5
<1>7. asked[m].name = 1 /\ count[m] < 1 /\ m \notin overdue
  BY <1>2 DEF AnalysisInv, OrdersInOrder
<1>8. \A j \in Jobs : j[1] = m => jobs[j].at = "none" /\ j \notin markers
  BY <1>2 DEF AnalysisInv, JobsInOrder, MarkersInOrder
<1>9. MarkersOf(m) = {} /\ MarkersOf(m)' = {}
  BY <1>1, <1>2, <1>8 DEF MarkersOf
<1>10. \A d \in Chats : lock[d] # m
  BY <1>2, AnalysisAssumption DEF AnalysisInv, LocksInOrder
<1>11. /\ ~ HasLock(m) /\ ~ HasLock(m)'
       /\ \A o \in Orders : o # m => /\ HasLock(o)' <=> HasLock(o)
                                     /\ InBatch(o)' <=> InBatch(o)
                                     /\ MarkersOf(o)' = MarkersOf(o)
  BY <1>2, <1>5, <1>6, <1>10 DEF HasLock, InBatch, MarkersOf
<1>12. AnalysisShape'
  BY <1>2, <1>6, Zenon DEF AnalysisInv, AnalysisShape
<1>13. OrdersInOrder'
  BY <1>2, <1>3, <1>5, <1>6, <1>7 DEF AnalysisInv, OrdersInOrder
<1>14. JobsInOrder'
  <2>1. \A j \in Jobs : j[1] \in Orders
    BY DEF Jobs
  <2>2. \A j \in Jobs : jobs'[j].at # "none" => j[1] # m
    BY <1>2, <1>8
  <2> QED
    BY <1>2, <1>5, <1>6, <2>1, <2>2 DEF AnalysisInv, JobsInOrder
<1>15. LocksInOrder'
  <2>1. \A d \in Chats : lock'[d] # NoOrder => asked'[lock'[d]].step # "idle" /\ asked'[lock'[d]].chat = d
    BY <1>1, <1>2, <1>6, <1>10 DEF AnalysisInv, LocksInOrder
  <2>2. \A o \in Orders : HasLock(o)' /\ o \notin overdue' => o \in active'
    BY <1>2, <1>11 DEF AnalysisInv, LocksInOrder
  <2> QED
    BY <1>2, <2>1, <2>2 DEF AnalysisInv, LocksInOrder
<1>16. MarkersInOrder'
  <2>1. \A o \in Orders : (IF InBatch(o) /\ HasLock(o) THEN count[o] = Cardinality(MarkersOf(o))
                           ELSE MarkersOf(o) = {})'
    BY <1>2, <1>9, <1>11 DEF AnalysisInv, MarkersInOrder
  <2> QED
    BY <1>2, <2>1 DEF AnalysisInv, MarkersInOrder
<1>17. WorkInOrder'
  <2> SUFFICES ASSUME NEW k \in Jobs, jobs[k].at \in Busy, k[1] \notin overdue
               PROVE  (/\ HasLock(k[1]) /\ k[1] \in active
                       /\ InBatch(k[1]) => k \in markers)'
    BY <1>2, Zenon DEF WorkInOrder
  <2>1. k[1] \in Orders /\ k[1] # m
    BY <1>8 DEF Jobs, Busy
  <2> QED
    BY <1>2, <1>11, <2>1 DEF AnalysisInv, WorkInOrder
<1> QED
  BY <1>12, <1>13, <1>14, <1>15, <1>16, <1>17 DEF AnalysisInv

\* The reply deadline of a message, and the end of its keys in Redis.
LEMMA TimeKeeps ==
    ASSUME AnalysisInv, NEW m \in Orders, DeadlinePasses(m) \/ KeysLapse(m)
    PROVE  AnalysisInv'
<1>1. /\ asked \in [Orders -> Askings] /\ jobs \in [Jobs -> Reports]
      /\ lock \in [Chats -> Orders \cup {NoOrder}] /\ count \in [Orders -> Nat]
      /\ markers \subseteq Jobs /\ active \subseteq Orders /\ overdue \subseteq Orders
      /\ IsFiniteSet(markers) /\ IsFiniteSet(active)
  BY DEF AnalysisInv, AnalysisShape
<1>2. UNCHANGED <<asked, jobs, rated, hit>> /\ \A o \in Orders : InBatch(o)' <=> InBatch(o)
  BY DEF DeadlinePasses, KeysLapse, InBatch
<1>3. JobsInOrder'
  BY <1>2 DEF AnalysisInv, JobsInOrder
<1>4. CASE DeadlinePasses(m)
  <2>1. /\ asked[m].step = "done" /\ overdue' = overdue \cup {m} /\ active' = active \ {m}
        /\ UNCHANGED <<lock, count, markers>>
    BY <1>4 DEF DeadlinePasses
  <2>2. \A o \in Orders : (HasLock(o)' <=> HasLock(o)) /\ MarkersOf(o)' = MarkersOf(o)
    BY <1>2, <2>1 DEF HasLock, MarkersOf
  <2>3. /\ IsFiniteSet(active') /\ Cardinality(active') <= Cardinality(active)
        /\ Cardinality(active') \in Nat /\ Cardinality(active) \in Nat
    <3>1. active' \in SUBSET active
      BY <2>1
    <3> QED
      BY <1>1, <3>1, FS_Subset, FS_CardinalityType
  <2>4. active' \subseteq Orders /\ overdue' \subseteq Orders
    BY <1>1, <2>1
  <2>5. AnalysisShape'
    BY <1>2, <2>1, <2>3, <2>4, Zenon DEF AnalysisInv, AnalysisShape
  <2>6. OrdersInOrder'
    BY <1>2, <2>1 DEF AnalysisInv, OrdersInOrder
  <2>7. LocksInOrder'
    <3>1. \A o \in Orders : HasLock(o)' /\ o \notin overdue' => o \in active'
      BY <2>1, <2>2 DEF AnalysisInv, LocksInOrder
    <3>2. Cardinality(active') <= MaxActive
      BY <2>3, AnalysisAssumption DEF AnalysisInv, LocksInOrder
    <3> QED
      BY <1>2, <2>1, <3>1, <3>2 DEF AnalysisInv, LocksInOrder
  <2>8. MarkersInOrder'
    BY <1>2, <2>1, <2>2 DEF AnalysisInv, MarkersInOrder
  <2>9. WorkInOrder'
    <3>1. \A k \in Jobs : k[1] \in Orders
      BY DEF Jobs
    <3> QED
      BY <1>2, <2>1, <2>2, <3>1 DEF AnalysisInv, WorkInOrder
  <2> QED
    BY <1>3, <2>5, <2>6, <2>7, <2>8, <2>9 DEF AnalysisInv
<1>5. CASE KeysLapse(m)
  <2> DEFINE room == asked[m].chat
  <2>1. /\ m \in overdue /\ lock[room] = m /\ lock' = [lock EXCEPT ![room] = NoOrder]
        /\ count' = [count EXCEPT ![m] = 0] /\ markers' = markers \ JobsOf(m)
        /\ UNCHANGED <<active, overdue>>
    BY <1>5 DEF KeysLapse, Owner
  <2>2. /\ asked[m].step = "done" /\ room \in Chats /\ m # NoOrder
        /\ asked[m].name \in Nat /\ asked[m].size \in Nat /\ asked[m].name <= asked[m].size
    BY <2>1, AskedFields, AnalysisAssumption DEF AnalysisInv, OrdersInOrder
  <2>3. /\ lock' \in [Chats -> Orders \cup {NoOrder}] /\ lock'[room] = NoOrder
        /\ \A c \in Chats : c # room => lock'[c] = lock[c]
        /\ count' \in [Orders -> Nat] /\ count'[m] = 0
        /\ \A o \in Orders : o # m => count'[o] = count[o]
    BY <1>1, <2>1, <2>2
  <2>4. MarkersOf(m)' = {}
    <3>1. ASSUME NEW k \in markers, k[1] = m
          PROVE  k \in JobsOf(m)
      <4>1. k \in Jobs /\ k[2] \in Nat /\ jobs[k].at # "none"
        BY <1>1 DEF AnalysisInv, MarkersInOrder, Jobs
      <4>2. k[2] <= asked[m].name
        BY <3>1, <4>1 DEF AnalysisInv, JobsInOrder
      <4> QED
        BY <2>2, <3>1, <4>1, <4>2 DEF JobsOf
    <3> QED
      BY <2>1, <3>1 DEF MarkersOf
  <2>5. \A o \in Orders : o # m => MarkersOf(o)' = MarkersOf(o)
    BY <1>1, <2>1 DEF MarkersOf, JobsOf
  <2> HIDE DEF room
  <2>6. ~ HasLock(m)' /\ \A o \in Orders : /\ o # m => (HasLock(o)' <=> HasLock(o))
                                           /\ HasLock(o)' => HasLock(o)
    <3>1. ~ HasLock(m)'
      BY <1>2, <2>2, <2>3 DEF HasLock, room
    <3>2. ASSUME NEW o \in Orders, o # m
          PROVE  HasLock(o)' <=> HasLock(o)
      <4>1. (asked[o].step # "idle" => asked[o].chat \in Chats) /\ o # NoOrder
        BY AskedFields, AnalysisAssumption
      <4> QED
        BY <1>2, <2>1, <2>3, <3>2, <4>1 DEF HasLock
    <3> QED
      BY <3>1, <3>2
  <2>7. AnalysisShape'
    <3>1. markers' \in SUBSET markers
      BY <2>1
    <3>2. IsFiniteSet(markers') /\ markers' \subseteq Jobs
      BY <1>1, <3>1, FS_Subset
    <3> QED
      BY <1>2, <2>1, <2>3, <3>2, Zenon DEF AnalysisInv, AnalysisShape
  <2>8. OrdersInOrder'
    <3>1. \A o \in Orders : asked[o].name \in Nat
      BY AskedFields
    <3> QED
      BY <1>2, <2>1, <2>2, <2>3, <3>1 DEF AnalysisInv, OrdersInOrder
  <2>9. LocksInOrder'
    <3>1. \A c \in Chats : lock'[c] # NoOrder => asked'[lock'[c]].step # "idle" /\ asked'[lock'[c]].chat = c
      BY <1>2, <2>3 DEF AnalysisInv, LocksInOrder
    <3>2. \A o \in Orders : HasLock(o)' /\ o \notin overdue' => o \in active'
      BY <2>1, <2>6 DEF AnalysisInv, LocksInOrder
    <3> QED
      BY <2>1, <3>1, <3>2 DEF AnalysisInv, LocksInOrder
  <2>10. MarkersInOrder'
    <3>1. \A o \in Orders : (IF InBatch(o) /\ HasLock(o) THEN count[o] = Cardinality(MarkersOf(o))
                             ELSE MarkersOf(o) = {})'
      BY <1>2, <2>3, <2>4, <2>5, <2>6 DEF AnalysisInv, MarkersInOrder
    <3>2. \A k \in markers' : jobs'[k].at # "none"
      BY <1>2, <2>1 DEF AnalysisInv, MarkersInOrder
    <3> QED
      BY <3>1, <3>2, Zenon DEF MarkersInOrder
  <2>11. WorkInOrder'
    <3> SUFFICES ASSUME NEW k \in Jobs, jobs[k].at \in Busy, k[1] \notin overdue
                 PROVE  (/\ HasLock(k[1]) /\ k[1] \in active
                         /\ InBatch(k[1]) => k \in markers)'
      BY <1>2, <2>1, Zenon DEF WorkInOrder
    <3>1. k[1] \in Orders /\ k[1] # m /\ k \notin JobsOf(m)
      BY <2>1 DEF Jobs, JobsOf
    <3> QED
      BY <1>2, <2>1, <2>6, <3>1 DEF AnalysisInv, WorkInOrder
  <2> QED
    BY <1>3, <2>7, <2>8, <2>9, <2>10, <2>11 DEF AnalysisInv
<1> QED
  BY <1>4, <1>5

\* Nobody has asked for a report yet.
LEMMA AnalysisBegins == AnalysisInit => AnalysisInv
<1> SUFFICES ASSUME AnalysisInit
             PROVE  AnalysisInv
  OBVIOUS
<1> DEFINE first == [step |-> "idle", chat |-> "none", member |-> "none",
                     size |-> 0, name |-> 1, told |-> FALSE]
           blank == [at |-> "none", told |-> FALSE]
<1>1. 0 \in 0..MaxNames /\ 1 \in 1..MaxNames /\ "idle" \in Steps /\ "none" \in Places
  BY AnalysisAssumption DEF Steps, Places
<1>2. first \in Askings /\ first.step = "idle" /\ first.name = 1
  BY <1>1, Zenon DEF Askings
<1>3. blank \in Reports /\ blank.at = "none"
  BY <1>1, Zenon DEF Reports
<1>4. asked = [m \in Orders |-> first] /\ jobs = [j \in Jobs |-> blank]
  BY DEF AnalysisInit
<1> HIDE DEF first, blank
<1>5. /\ lock = [c \in Chats |-> NoOrder] /\ count = [m \in Orders |-> 0]
      /\ markers = {} /\ rated = {} /\ active = {} /\ overdue = {} /\ hit = {}
  BY DEF AnalysisInit
<1>6. IsFiniteSet({}) /\ Cardinality({}) = 0
  BY FS_EmptySet
<1>7. AnalysisShape
  BY <1>2, <1>3, <1>4, <1>5, <1>6 DEF AnalysisShape
<1>8. OrdersInOrder
  BY <1>2, <1>4, <1>5 DEF OrdersInOrder
<1>9. JobsInOrder
  BY <1>2, <1>3, <1>4 DEF JobsInOrder
<1>10. LocksInOrder
  BY <1>2, <1>4, <1>5, <1>6, AnalysisAssumption DEF LocksInOrder, HasLock
<1>11. MarkersInOrder
  BY <1>2, <1>4, <1>5 DEF MarkersInOrder, HasLock, MarkersOf
<1>12. WorkInOrder
  BY <1>3, <1>4 DEF WorkInOrder, Busy
<1> QED
  BY <1>7, <1>8, <1>9, <1>10, <1>11, <1>12 DEF AnalysisInv

\* Every step of the requests for reports keeps their order.
LEMMA AnalysisKeeps == AnalysisInv /\ AnalysisNext => AnalysisInv'
<1> SUFFICES ASSUME AnalysisInv, AnalysisNext
             PROVE  AnalysisInv'
  OBVIOUS
<1>1. CASE \E m \in Orders, c \in Chats, p \in Members, n \in 1..MaxNames : Ask(m, c, p, n)
  BY <1>1, AskKeeps, Zenon
<1>2. CASE \E m \in Orders : Refuse(m) \/ Enqueue(m) \/ HandlerDies(m)
  BY <1>2, HandlerKeeps, Zenon
<1>3. CASE \E m \in Orders : Admit(m)
  BY <1>3, AdmitKeeps, Zenon
<1>4. CASE \E m \in Orders : DeadlinePasses(m) \/ KeysLapse(m)
  BY <1>4, TimeKeeps, Zenon
<1>5. CASE \/ \E j \in Jobs : Start(j) \/ Expire(j) \/ \E word \in BOOLEAN : WorkerDies(j, word)
           \/ \E p \in Members : MinuteOver(p)
  BY <1>5, WorkersKeep, Zenon
<1>6. CASE \/ \E j \in Jobs : Cancel(j) \/ \E word \in BOOLEAN : Finish(j, word)
           \/ \E m \in Orders : EnqueueFails(m)
  BY <1>6, JobEnds, Zenon
<1> QED
  BY <1>1, <1>2, <1>3, <1>4, <1>5, <1>6, Zenon DEF AnalysisNext, AnalysisSteps

\* What the order of the requests says of the reports.
LEMMA AnalysisFollows == AnalysisInv => AnalysisTypeOK /\ ReportsTakeTurns
<1> SUFFICES ASSUME AnalysisInv
             PROVE  AnalysisTypeOK /\ ReportsTakeTurns
  OBVIOUS
<1>1. AnalysisTypeOK
  <2>1. count \in [Orders -> 0..MaxNames]
    <3>1. \A m \in Orders : count[m] \in 0..MaxNames
      <4> SUFFICES ASSUME NEW m \in Orders
                   PROVE  count[m] \in 0..MaxNames
        OBVIOUS
      <4>1. asked[m].name \in 1..MaxNames /\ asked[m].name \in Nat /\ MaxNames \in Nat /\ count[m] \in Nat
        BY AskedFields
      <4>2. count[m] <= asked[m].name
        BY DEF AnalysisInv, OrdersInOrder
      <4> QED
        BY <4>1, <4>2
    <3> QED
      BY <3>1 DEF AnalysisInv, AnalysisShape
  <2> QED
    BY <2>1, Zenon DEF AnalysisInv, AnalysisShape, AnalysisTypeOK, Askings, Steps, Reports, Places
<1>2. ASSUME NEW m \in Orders \ overdue, UnderWay(m)
      PROVE  HasLock(m) /\ m \in active
  <2>1. PICK j \in Jobs : j[1] = m /\ jobs[j].at \in Busy
    BY <1>2 DEF UnderWay, JobsOf, Busy
  <2> QED
    BY <2>1 DEF AnalysisInv, WorkInOrder
<1>3. \A m1, m2 \in Orders \ overdue :
          UnderWay(m1) /\ UnderWay(m2) /\ asked[m1].chat = asked[m2].chat => m1 = m2
  BY <1>2 DEF HasLock
<1>4. Cardinality({m \in Orders \ overdue : UnderWay(m)}) <= MaxActive
  <2>1. {m \in Orders \ overdue : UnderWay(m)} \in SUBSET active
    BY <1>2
  <2>2. IsFiniteSet(active) /\ Cardinality(active) <= MaxActive
    BY DEF AnalysisInv, AnalysisShape, LocksInOrder
  <2> DEFINE some == {m \in Orders \ overdue : UnderWay(m)}
  <2> HIDE DEF some
  <2>3. some \in SUBSET active
    BY <2>1 DEF some
  <2>4. Cardinality(some) <= Cardinality(active) /\ IsFiniteSet(some)
    BY <2>2, <2>3, FS_Subset
  <2>5. Cardinality(some) \in Nat /\ Cardinality(active) \in Nat
    BY <2>2, <2>4, FS_CardinalityType
  <2>6. Cardinality(some) <= MaxActive
    BY <2>2, <2>4, <2>5, AnalysisAssumption
  <2> QED
    BY <2>6 DEF some
<1> QED
  BY <1>1, <1>3, <1>4 DEF ReportsTakeTurns

-----------------------------------------------------------------------------
(* The requests beside the rest of the server.                             *)

\* Whatever a group asks of the bot, its reports and its queries stay in order.
RequestsInOrder == AnalysisInv /\ QueryInv

\* Requests that do not move stay in order.
LEMMA RequestsRest ==
    /\ AnalysisInv /\ UNCHANGED analysis => AnalysisInv'
    /\ QueryInv /\ UNCHANGED queries => QueryInv'
<1>1. ASSUME AnalysisInv, UNCHANGED analysis
      PROVE  AnalysisInv'
  <2>1. UNCHANGED <<asked, jobs, lock, count, markers, rated, active, overdue, hit>>
    BY <1>1 DEF analysis
  <2>2. /\ \A m \in Orders : (HasLock(m)' <=> HasLock(m)) /\ (InBatch(m)' <=> InBatch(m))
        /\ \A m \in Orders : MarkersOf(m)' = MarkersOf(m)
    BY <2>1 DEF HasLock, InBatch, MarkersOf
  <2>3. AnalysisShape' /\ OrdersInOrder' /\ JobsInOrder'
    BY <1>1, <2>1, Zenon DEF AnalysisInv, AnalysisShape, OrdersInOrder, JobsInOrder
  <2>4. LocksInOrder' /\ MarkersInOrder' /\ WorkInOrder'
    <3>1. \A j \in Jobs : j[1] \in Orders
      BY DEF Jobs
    <3> QED
      BY <1>1, <2>1, <2>2, <3>1 DEF AnalysisInv, LocksInOrder, MarkersInOrder, WorkInOrder
  <2> QED
    BY <2>3, <2>4 DEF AnalysisInv
<1>2. ASSUME QueryInv, UNCHANGED queries
      PROVE  QueryInv'
  <2>1. UNCHANGED <<query, turn, lapsed, stops>>
    BY <1>2 DEF queries
  <2> QED
    BY <1>2, <2>1, Zenon DEF QueryInv, HasLapsed
<1> QED
  BY <1>1, <1>2

\* One machine moves at a time.
LEMMA RequestStepKeeps == RequestsInOrder /\ [Next]_vars => RequestsInOrder'
<1> SUFFICES ASSUME RequestsInOrder, [Next]_vars
             PROVE  RequestsInOrder'
  OBVIOUS
<1>1. CASE ByWorker(AnalysisNext)
  BY <1>1, AnalysisKeeps, RequestsRest DEF ByWorker, RequestsInOrder
<1>2. CASE ByQuery(QueryNext)
  BY <1>2, QueryKeeps, RequestsRest DEF ByQuery, RequestsInOrder
<1>3. CASE UNCHANGED <<analysis, queries>>
  BY <1>3, RequestsRest DEF RequestsInOrder
<1> QED
  BY <1>1, <1>2, <1>3 DEF Next, vars, requests, JournalStep, ByBot, ByStream, ByReader, ByWatch

\* A group's lock is that of a message of its own with a slot, the counter of a batch
\* is the number of its marked jobs, and whatever is under way in time has both.
THEOREM RequestsStayInOrder == Spec => []RequestsInOrder
<1>1. Init => RequestsInOrder
  BY AnalysisBegins, QueryInitKeeps DEF Init, RequestsInOrder
<1> QED
  BY <1>1, RequestStepKeeps, PTL DEF Spec

\* The variables of the reports and of the queries have their types.
THEOREM RequestTypesCorrect == Spec => [](AnalysisTypeOK /\ QueryTypeOK)
<1>1. RequestsInOrder => AnalysisTypeOK /\ QueryTypeOK
  BY AnalysisFollows, QueriesFollow DEF RequestsInOrder
<1> QED
  BY <1>1, RequestsStayInOrder, PTL

\* A group waits for one analysis and for one query at a time, and no more messages
\* are analysed at once than there are slots, as long as nothing in Redis lapsed
\* under them (admission.py 38-67, bot.py 641-667).
THEOREM GroupsAlwaysTakeTurns == Spec => []GroupsTakeTurns
<1>1. RequestsInOrder => GroupsTakeTurns
  BY AnalysisFollows, QueriesFollow DEF RequestsInOrder, GroupsTakeTurns
<1> QED
  BY <1>1, RequestsStayInOrder, PTL

-----------------------------------------------------------------------------
(* A watch.                                                                *)

Rows == [set : BOOLEAN, id : 0..MaxCommands, present : BOOLEAN, missing : 0..1, due : BOOLEAN]
Kept == [fresh : BOOLEAN, found : BOOLEAN]
Snapshots == [found : BOOLEAN, complete : BOOLEAN]
Cycles == [step : {"idle", "scanning", "recording", "sending", "rearming"},
           id : 0..MaxCommands, snapshot : Snapshots]
Spendings == [flights : 0..MaxFlights, commands : 0..MaxCommands, upsets : 0..MaxUpsets]

\* Each watch of the group has an id of its own, so there are as many as commands.
WatchInv ==
    /\ there \in BOOLEAN /\ told \in BOOLEAN /\ mute \in BOOLEAN
    /\ watch \in Rows /\ reuse \in Kept /\ cycle \in Cycles /\ spent \in Spendings
    /\ watch.id <= spent.commands

\* The fields of the records of a watch.
LEMMA WatchFields ==
    ASSUME WatchInv
    PROVE  /\ watch.id \in 0..MaxCommands /\ watch.missing \in 0..1
           /\ spent.flights \in 0..MaxFlights /\ spent.commands \in 0..MaxCommands
           /\ spent.upsets \in 0..MaxUpsets
           /\ cycle.snapshot \in Snapshots
           /\ reuse.found \in BOOLEAN
<1>1. watch.id \in 0..MaxCommands /\ watch.missing \in 0..1
  BY Zenon DEF WatchInv, Rows
<1>2. /\ spent.flights \in 0..MaxFlights /\ spent.commands \in 0..MaxCommands
      /\ spent.upsets \in 0..MaxUpsets
  BY Zenon DEF WatchInv, Spendings
<1>3. cycle.snapshot \in Snapshots
  BY Zenon DEF WatchInv, Cycles
<1>4. reuse.found \in BOOLEAN
  BY Zenon DEF WatchInv, Kept
<1> QED
  BY <1>1, <1>2, <1>3, <1>4

\* What is spent grows by one of its counts.
LEMMA Spending ==
    ASSUME WatchInv, WatchNext
    PROVE  /\ spent' \in Spendings /\ spent'.commands \in 0..MaxCommands
           /\ \/ spent'.commands = spent.commands
              \/ spent'.commands = spent.commands + 1 /\ (AddWatch \/ DeleteWatch)
<1> DEFINE flown == spent.flights + 1
           given == spent.commands + 1
           upset == spent.upsets + 1
           a == [spent EXCEPT !.flights = flown]
           b == [spent EXCEPT !.commands = given]
           c == [spent EXCEPT !.upsets = upset]
<1>1. /\ spent.flights < MaxFlights => flown \in 0..MaxFlights
      /\ spent.commands < MaxCommands => given \in 0..MaxCommands
      /\ spent.upsets < MaxUpsets => upset \in 0..MaxUpsets
      /\ spent.commands \in 0..MaxCommands
  BY WatchFields, WatchAssumption
<1>2. \/ spent' = spent
      \/ spent.flights < MaxFlights /\ spent' = a
      \/ spent.commands < MaxCommands /\ spent' = b /\ (AddWatch \/ DeleteWatch)
      \/ spent.upsets < MaxUpsets /\ spent' = c
  <2>1. CASE Fly
    BY <2>1, Zenon DEF Fly
  <2>2. CASE AddWatch \/ DeleteWatch
    BY <2>2, Zenon DEF AddWatch, DeleteWatch, Command
  <2>3. CASE ScanPartial \/ ScanFails \/ SendFails \/ BotRestarts
    BY <2>3, Zenon DEF ScanPartial, ScanFails, SendFails, BotRestarts, Upset
  <2>4. CASE RunOnce \/ BecomesDue \/ ReuseEnds
    BY <2>4, Zenon DEF RunOnce, BecomesDue, ReuseEnds
  <2>5. CASE CycleSteps
    BY <2>5, Zenon DEF CycleSteps, ScanComplete, RecordResult, SendNotice, RetryNotification
  <2> QED
    BY <2>1, <2>2, <2>3, <2>4, <2>5, Zenon DEF WatchNext
<1> HIDE DEF flown, given, upset
<1>3. spent \in Spendings
  BY Zenon DEF WatchInv
<1>4. flown \in 0..MaxFlights => a \in Spendings /\ a.commands = spent.commands
  BY <1>3, Zenon DEF Spendings
<1>5. given \in 0..MaxCommands => b \in Spendings /\ b.commands = given
  BY <1>3, Zenon DEF Spendings
<1>6. upset \in 0..MaxUpsets => c \in Spendings /\ c.commands = spent.commands
  BY <1>3, Zenon DEF Spendings
<1>7. given = spent.commands + 1
  BY DEF given
<1> HIDE DEF a, b, c
<1> QED
  BY <1>1, <1>2, <1>3, <1>4, <1>5, <1>6, <1>7, Zenon

\* The row of a watch after the snapshot.
LEMMA RecordedRow ==
    ASSUME NEW row \in Rows, NEW snapshot
    PROVE  Recorded(row, snapshot) \in Rows /\ Recorded(row, snapshot).id = row.id
<1> DEFINE armed == ~snapshot.found /\ snapshot.complete /\ row.missing = 1
           sight == IF snapshot.found THEN TRUE ELSE IF armed THEN FALSE ELSE row.present
           missed == IF snapshot.found \/ armed THEN 0
                     ELSE IF snapshot.complete THEN row.missing + 1 ELSE row.missing
<1>1. row.missing \in 0..1 /\ row.present \in BOOLEAN
  BY Zenon DEF Rows
<1>2. sight \in BOOLEAN
  BY <1>1, Zenon
<1>3. missed \in 0..1
  BY <1>1
<1>4. Recorded(row, snapshot) = [row EXCEPT !.present = sight, !.missing = missed, !.due = FALSE]
  BY Zenon DEF Recorded
<1> HIDE DEF sight, missed
<1> QED
  BY <1>2, <1>3, <1>4, Zenon DEF Rows

\* The row keeps its id, or gets the next one by a command.
LEMMA RowKeeps ==
    ASSUME WatchInv, WatchNext
    PROVE  /\ watch' \in Rows
           /\ watch'.id = watch.id \/ (watch'.id = watch.id + 1 /\ AddWatch)
<1>1. watch \in Rows /\ TRUE \in BOOLEAN /\ FALSE \in BOOLEAN
  BY Zenon DEF WatchInv
<1>2. CASE AddWatch
  <2> DEFINE next == watch.id + 1
             new == [set |-> TRUE, id |-> next, present |-> FALSE, missing |-> 0, due |-> TRUE]
             due == [watch EXCEPT !.due = TRUE]
  <2>1. next \in 0..MaxCommands /\ 0 \in 0..1
    <3>1. spent.commands < MaxCommands
      BY <1>2 DEF AddWatch, Command
    <3>2. watch.id <= spent.commands
      BY Zenon DEF WatchInv
    <3> QED
      BY <3>1, <3>2, WatchFields, WatchAssumption
  <2>2. watch' = due \/ watch' = new
    BY <1>2, Zenon DEF AddWatch
  <2>3. next = watch.id + 1
    OBVIOUS
  <2> HIDE DEF next
  <2>4. due \in Rows /\ due.id = watch.id
    BY <1>1, Zenon DEF Rows
  <2>5. new \in Rows /\ new.id = next
    BY <2>1, Zenon DEF Rows
  <2> HIDE DEF due, new
  <2> QED
    BY <1>2, <2>2, <2>3, <2>4, <2>5, Zenon
<1>3. CASE DeleteWatch
  <2>1. watch' = [watch EXCEPT !.set = FALSE, !.due = FALSE]
    BY <1>3, Zenon DEF DeleteWatch
  <2> QED
    BY <1>1, <2>1, Zenon DEF Rows
<1>4. CASE BecomesDue
  <2>1. watch' = [watch EXCEPT !.due = TRUE]
    BY <1>4, Zenon DEF BecomesDue
  <2> QED
    BY <1>1, <2>1, Zenon DEF Rows
<1>5. CASE RecordResult
  <2>1. watch' = watch \/ watch' = Recorded(watch, cycle.snapshot)
    BY <1>5, Zenon DEF RecordResult
  <2> QED
    BY <1>1, <2>1, RecordedRow, Zenon
<1>6. CASE RetryNotification
  <2>1. watch' = watch \/ watch' = [watch EXCEPT !.present = FALSE, !.due = FALSE]
    BY <1>6, Zenon DEF RetryNotification
  <2>2. [watch EXCEPT !.present = FALSE, !.due = FALSE] \in Rows
        /\ [watch EXCEPT !.present = FALSE, !.due = FALSE].id = watch.id
    BY <1>1, Zenon DEF Rows
  <2> QED
    BY <1>1, <2>1, <2>2, Zenon
<1>7. CASE ~ (AddWatch \/ DeleteWatch \/ BecomesDue \/ RecordResult \/ RetryNotification)
  <2>1. watch' = watch
    BY <1>7, Zenon DEF WatchNext, CycleSteps, ScanComplete, SendNotice, RunOnce, ReuseEnds,
       ScanPartial, ScanFails, SendFails, BotRestarts, Fly
  <2> QED
    BY <1>1, <2>1, Zenon
<1> QED
  BY <1>2, <1>3, <1>4, <1>5, <1>6, <1>7, Zenon

\* The snapshot that is used again, and the cycle of the bot.
LEMMA CycleKeeps ==
    ASSUME WatchInv, WatchNext
    PROVE  reuse' \in Kept /\ cycle' \in Cycles
<1>1. /\ there \in BOOLEAN /\ reuse \in Kept /\ cycle \in Cycles
      /\ TRUE \in BOOLEAN /\ FALSE \in BOOLEAN
  BY Zenon DEF WatchInv
<1>2. watch.id \in 0..MaxCommands /\ reuse.found \in BOOLEAN
  BY WatchFields
<1>3. NoSnapshot \in Snapshots
  BY <1>1, Zenon DEF NoSnapshot, Snapshots
<1>4. NoCycle \in Cycles
  <2>1. 0 \in 0..MaxCommands /\ "idle" \in {"idle", "scanning", "recording", "sending", "rearming"}
    BY WatchAssumption
  <2> QED
    BY <1>3, <2>1, Zenon DEF NoCycle, Cycles
<1>5. \A visible \in BOOLEAN, all \in BOOLEAN : [found |-> visible, complete |-> all] \in Snapshots
  BY Zenon DEF Snapshots
<1>6. ASSUME NEW shot \in Snapshots
      PROVE  /\ [step |-> "recording", id |-> watch.id, snapshot |-> shot] \in Cycles
             /\ [step |-> "scanning", id |-> watch.id, snapshot |-> shot] \in Cycles
             /\ [cycle EXCEPT !.step = "recording", !.snapshot = shot] \in Cycles
             /\ [cycle EXCEPT !.step = "sending"] \in Cycles
             /\ [cycle EXCEPT !.step = "rearming"] \in Cycles
  <2>1. [step |-> "recording", id |-> watch.id, snapshot |-> shot] \in Cycles
    BY <1>2, Zenon DEF Cycles
  <2>2. [step |-> "scanning", id |-> watch.id, snapshot |-> shot] \in Cycles
    BY <1>2, Zenon DEF Cycles
  <2>3. [cycle EXCEPT !.step = "recording", !.snapshot = shot] \in Cycles
    BY <1>1, Zenon DEF Cycles
  <2>4. [cycle EXCEPT !.step = "sending"] \in Cycles
    BY <1>1, Zenon DEF Cycles
  <2>5. [cycle EXCEPT !.step = "rearming"] \in Cycles
    BY <1>1, Zenon DEF Cycles
  <2> QED
    BY <2>1, <2>2, <2>3, <2>4, <2>5
<1>7. reuse' \in Kept
  <2>1. \/ reuse' = reuse
        \/ reuse' = [reuse EXCEPT !.fresh = FALSE]
        \/ reuse' = [fresh |-> TRUE, found |-> there]
        \/ reuse' = [fresh |-> FALSE, found |-> FALSE]
    BY Zenon DEF WatchNext, CycleSteps, ScanComplete, RecordResult, SendNotice,
       RetryNotification, RunOnce, BecomesDue, ReuseEnds, ScanPartial, ScanFails, SendFails,
       BotRestarts, AddWatch, DeleteWatch, Fly
  <2>2. [reuse EXCEPT !.fresh = FALSE] \in Kept
    BY <1>1, Zenon DEF Kept
  <2>3. [fresh |-> TRUE, found |-> there] \in Kept
    BY <1>1, Zenon DEF Kept
  <2>4. [fresh |-> FALSE, found |-> FALSE] \in Kept
    BY <1>1, Zenon DEF Kept
  <2> QED
    BY <1>1, <2>1, <2>2, <2>3, <2>4, Zenon
<1>8. cycle' \in Cycles
  <2>1. CASE ScanPartial
    <3>1. PICK visible \in BOOLEAN :
              cycle' = [cycle EXCEPT !.step = "recording",
                                     !.snapshot = [found |-> there /\ visible, complete |-> FALSE]]
      BY <2>1, Zenon DEF ScanPartial
    <3> DEFINE sight == there /\ visible
    <3>2. sight \in BOOLEAN
      BY Zenon
    <3>3. cycle' = [cycle EXCEPT !.step = "recording",
                                 !.snapshot = [found |-> sight, complete |-> FALSE]]
      BY <3>1, Zenon
    <3> HIDE DEF sight
    <3> DEFINE shot == [found |-> sight, complete |-> FALSE]
    <3>4. shot \in Snapshots /\ cycle' = [cycle EXCEPT !.step = "recording", !.snapshot = shot]
      BY <1>1, <1>5, <3>2, <3>3, Zenon
    <3> HIDE DEF shot
    <3> QED
      BY <1>6, <3>4, Zenon
  <2>2. CASE ScanComplete
    <3> DEFINE shot == [found |-> there, complete |-> TRUE]
    <3>1. shot \in Snapshots /\ cycle' = [cycle EXCEPT !.step = "recording", !.snapshot = shot]
      BY <1>1, <1>5, <2>2, Zenon DEF ScanComplete
    <3> HIDE DEF shot
    <3> QED
      BY <1>6, <3>1, Zenon
  <2>3. CASE RunOnce
    <3> DEFINE shot == [found |-> reuse.found, complete |-> TRUE]
    <3>1. shot \in Snapshots
      BY <1>1, <1>2, <1>5, Zenon
    <3>2. \/ cycle' = [step |-> "recording", id |-> watch.id, snapshot |-> shot]
          \/ cycle' = [step |-> "scanning", id |-> watch.id, snapshot |-> NoSnapshot]
      BY <2>3, Zenon DEF RunOnce
    <3> HIDE DEF shot
    <3> QED
      BY <1>3, <1>6, <3>1, <3>2, Zenon
  <2>4. CASE RecordResult
    <3>1. cycle' = NoCycle \/ cycle' = [cycle EXCEPT !.step = "sending"]
      BY <2>4, Zenon DEF RecordResult
    <3> QED
      BY <1>3, <1>4, <1>6, <3>1, Zenon
  <2>5. CASE SendFails
    <3>1. cycle' = [cycle EXCEPT !.step = "rearming"]
      BY <2>5, Zenon DEF SendFails
    <3> QED
      BY <1>3, <1>6, <3>1, Zenon
  <2>6. CASE ~ (ScanPartial \/ ScanComplete \/ RunOnce \/ RecordResult \/ SendFails)
    <3>1. cycle' = cycle \/ cycle' = NoCycle
      BY <2>6, Zenon DEF WatchNext, CycleSteps, SendNotice, RetryNotification, BecomesDue,
         ReuseEnds, ScanFails, BotRestarts, AddWatch, DeleteWatch, Fly
    <3> QED
      BY <1>1, <1>4, <3>1, Zenon
  <2> QED
    BY <2>1, <2>2, <2>3, <2>4, <2>5, <2>6, Zenon
<1> QED
  BY <1>7, <1>8

\* Every step of a watch keeps its types.
LEMMA WatchKeeps == WatchInv /\ WatchNext => WatchInv'
<1> SUFFICES ASSUME WatchInv, WatchNext
             PROVE  WatchInv'
  OBVIOUS
<1>1. there \in BOOLEAN /\ told \in BOOLEAN /\ mute \in BOOLEAN
  BY Zenon DEF WatchInv
<1>2. there' = there \/ there' = ~ there
  BY Zenon DEF WatchNext, CycleSteps, ScanComplete, RecordResult, SendNotice,
     RetryNotification, RunOnce, BecomesDue, ReuseEnds, ScanPartial, ScanFails, SendFails,
     BotRestarts, AddWatch, DeleteWatch, Fly
<1>3. \/ told' = told \/ told' = (watch.set /\ told)
      \/ told' = (told /\ watch'.present) \/ told' = (told \/ watch.id = cycle.id)
  BY Zenon DEF WatchNext, CycleSteps, ScanComplete, RecordResult, SendNotice,
     RetryNotification, RunOnce, BecomesDue, ReuseEnds, ScanPartial, ScanFails, SendFails,
     BotRestarts, AddWatch, DeleteWatch, Fly
<1>4. \/ mute' = mute \/ mute' = (watch.set /\ mute)
      \/ mute' = (mute /\ watch'.present) \/ mute' = (mute \/ cycle.step \in {"sending", "rearming"})
  BY Zenon DEF WatchNext, CycleSteps, ScanComplete, RecordResult, SendNotice,
     RetryNotification, RunOnce, BecomesDue, ReuseEnds, ScanPartial, ScanFails, SendFails,
     BotRestarts, AddWatch, DeleteWatch, Fly
<1>5. there' \in BOOLEAN
  BY <1>1, <1>2, Zenon
<1>6. told' \in BOOLEAN
  BY <1>1, <1>3, Zenon
<1>7. mute' \in BOOLEAN
  BY <1>1, <1>4, Zenon
<1>8. watch'.id <= spent'.commands
  <2>1. watch.id \in Nat /\ spent.commands \in Nat
    BY WatchFields, WatchAssumption
  <2>2. watch.id <= spent.commands
    BY Zenon DEF WatchInv
  <2>3. AddWatch => spent'.commands = spent.commands + 1
    <3> SUFFICES ASSUME AddWatch
                 PROVE  spent'.commands = spent.commands + 1
      OBVIOUS
    <3> DEFINE given == spent.commands + 1
    <3>1. spent' = [spent EXCEPT !.commands = given]
      BY Zenon DEF AddWatch, Command
    <3> HIDE DEF given
    <3>2. spent \in Spendings
      BY Zenon DEF WatchInv
    <3>3. spent'.commands = given
      BY <3>1, <3>2, Zenon DEF Spendings
    <3> QED
      BY <3>3 DEF given
  <2> QED
    BY <2>1, <2>2, <2>3, RowKeeps, Spending
<1> QED
  BY <1>5, <1>6, <1>7, <1>8, RowKeeps, CycleKeeps, Spending, Zenon DEF WatchInv

\* No watch is set at the start.
LEMMA WatchBegins == WatchInit => WatchInv
<1> SUFFICES ASSUME WatchInit
             PROVE  WatchInv
  OBVIOUS
<1>1. 0 \in 0..MaxCommands /\ 0 \in 0..MaxFlights /\ 0 \in 0..MaxUpsets /\ 0 \in 0..1 /\ 0 <= 0
  BY WatchAssumption
<1>2. watch \in Rows /\ watch.id = 0
  BY <1>1, Zenon DEF WatchInit, Rows
<1>3. spent \in Spendings /\ spent.commands = 0
  BY <1>1, Zenon DEF WatchInit, Spendings
<1>4. reuse \in Kept
  BY Zenon DEF WatchInit, Kept
<1>5. NoSnapshot \in Snapshots
  BY Zenon DEF NoSnapshot, Snapshots
<1>6. cycle \in Cycles
  <2>1. "idle" \in {"idle", "scanning", "recording", "sending", "rearming"}
    OBVIOUS
  <2> QED
    BY <1>1, <1>5, <2>1, Zenon DEF WatchInit, NoCycle, Cycles
<1>7. there \in BOOLEAN /\ told \in BOOLEAN /\ mute \in BOOLEAN
  BY Zenon DEF WatchInit
<1>8. watch.id <= spent.commands
  BY <1>1, <1>2, <1>3, Zenon
<1> QED
  BY <1>2, <1>3, <1>4, <1>6, <1>7, <1>8, Zenon DEF WatchInv

\* The variables of the watch have their types, and each row of it an id of its own
\* for as many as there were commands.
THEOREM WatchTypesCorrect == Spec => []WatchTypeOK
<1>1. Init => WatchInv
  BY WatchBegins DEF Init
<1>2. WatchInv /\ [Next]_vars => WatchInv'
  <2> SUFFICES ASSUME WatchInv, [Next]_vars
               PROVE  WatchInv'
    OBVIOUS
  <2>1. CASE ByWatch(WatchNext)
    BY <2>1, WatchKeeps DEF ByWatch
  <2>2. CASE UNCHANGED watches
    BY <2>2, Zenon DEF watches, WatchInv
  <2> QED
    BY <2>1, <2>2 DEF Next, vars, requests, JournalStep, ByBot, ByStream, ByReader, ByWorker, ByQuery
<1>3. WatchInv => WatchTypeOK
  BY Zenon DEF WatchInv, WatchTypeOK, Rows, Kept, Snapshots, Cycles, Spendings
<1> QED
  BY <1>1, <1>2, <1>3, PTL DEF Spec

-----------------------------------------------------------------------------
(* The reports of a channel: the programs.                                 *)

Stages == {"free", "arrived", "waiting", "writing"}

Logs == [offset : 0..MaxLines, next : 1..MaxLines + 1, last : 0..MaxLines,
         request : Threads \cup {"none"}]

\* A program that waits for an answer has a line of its batch in hand.
ProgramsInOrder ==
    /\ said \in 0..MaxLines
    /\ watching \in [Watchers -> Logs]
    /\ \A w \in Watchers : watching[w].request # "none" => watching[w].next <= watching[w].last
    /\ mishaps \in 0..MaxMishaps
    /\ forsaken \subseteq Watchers \X (1..MaxLines)

\* The bounds are numbers.
LEMMA LineNumbers == /\ MaxLines \in Nat /\ MaxByHand \in Nat /\ MaxMishaps \in Nat
                     /\ Clears \subseteq 1..MaxLines /\ "none" \notin Threads
  BY ReportAssumption

\* The lines that a broken batch drops are lines of the channel.
LEMMA DroppedLines ==
    ASSUME ProgramsInOrder, NEW w \in Watchers
    PROVE  Dropped(w) \subseteq Watchers \X (1..MaxLines)
<1>1. watching[w] \in Logs
  BY DEF ProgramsInOrder
<1>2. watching[w].next \in 1..MaxLines + 1 /\ watching[w].last \in 0..MaxLines
  BY <1>1 DEF Logs
<1>3. Batch(w) \subseteq 1..MaxLines
  BY <1>2, LineNumbers DEF Batch
<1> QED
  BY <1>3 DEF Dropped

\* What a program does, and what the server does to it, keeps its batch in order.
LEMMA ProgramsKeep == ProgramsInOrder /\ ReportNext => ProgramsInOrder'
<1> SUFFICES ASSUME ProgramsInOrder, ReportNext
             PROVE  ProgramsInOrder'
  OBVIOUS
<1>1. /\ said \in 0..MaxLines /\ said \in Nat /\ watching \in [Watchers -> Logs]
      /\ mishaps \in 0..MaxMishaps /\ forsaken \subseteq Watchers \X (1..MaxLines)
  BY LineNumbers DEF ProgramsInOrder
<1>2. ASSUME NEW w \in Watchers
      PROVE  /\ watching[w] \in Logs /\ watching[w].offset \in 0..MaxLines
             /\ watching[w].next \in 1..MaxLines + 1 /\ watching[w].last \in 0..MaxLines
             /\ watching[w].request \in Threads \cup {"none"}
             /\ watching[w].request # "none" => watching[w].next <= watching[w].last
  BY DEF ProgramsInOrder, Logs
<1>3. mishaps' \in 0..MaxMishaps
  <2>1. mishaps' = mishaps \/ Mishap
    BY DEF ReportNext, Say, Poll, Post, GiveUpLine, NewLogFile, KeepReport, AssignPosition,
       CommitReport, FailReport, AddReport, CommitManual, FailManual, DeleteReport,
       RestartReports, ReadPage, LoseCursor, history
  <2> QED
    BY <1>1, <2>1, LineNumbers DEF Mishap
<1>4. ASSUME NEW w \in Watchers
      PROVE  /\ Broken(w) \in Logs /\ Broken(w).request = "none"
             /\ watching[w].request # "none" => Committed(w) \in Logs
             /\ Committed(w).request = "none"
  <2>1. Broken(w) \in Logs /\ Broken(w).request = "none"
    <3>1. 1 \in 1..MaxLines + 1 /\ 0 \in 0..MaxLines
      BY LineNumbers
    <3> QED
      BY <1>2, <3>1, Zenon DEF Broken, Logs
  <2>2. ASSUME watching[w].request # "none"
        PROVE  Committed(w) \in Logs
    <3>1. watching[w].next <= MaxLines /\ watching[w].next \in Nat
      BY <1>2, <2>2, LineNumbers
    <3> DEFINE far == Later(watching[w].offset, watching[w].next)
               next == watching[w].next + 1
    <3>2. far \in 0..MaxLines /\ next \in 1..MaxLines + 1
      BY <1>2, <3>1, LineNumbers DEF Later
    <3>3. Committed(w) = [watching[w] EXCEPT !.offset = far, !.next = next, !.request = "none"]
      BY DEF Committed
    <3> HIDE DEF far, next
    <3> QED
      BY <1>2, <3>2, <3>3 DEF Logs
  <2>3. Committed(w).request = "none"
    BY <1>2 DEF Committed, Logs
  <2> QED
    BY <2>1, <2>2, <2>3
<1>5. CASE Say
  <2>1. said' \in 0..MaxLines /\ UNCHANGED <<watching, forsaken>>
    BY <1>1, <1>5, LineNumbers DEF Say, history
  <2> QED
    BY <1>1, <1>3, <2>1, Zenon DEF ProgramsInOrder
<1>6. ASSUME NEW w \in Watchers, Poll(w)
      PROVE  ProgramsInOrder'
  <2> DEFINE next == watching[w].offset + 1
             new == [watching[w] EXCEPT !.next = next, !.last = said]
  <2>1. watching' = [watching EXCEPT ![w] = new] /\ UNCHANGED <<said, forsaken>>
    BY <1>1, <1>6 DEF Poll, history
  <2>2. next \in 1..MaxLines + 1 /\ watching[w].offset < said
    BY <1>1, <1>2, <1>6, LineNumbers DEF Poll
  <2>3. next <= said
    BY <1>1, <1>2, <2>2, LineNumbers
  <2> HIDE DEF next
  <2>4. new \in Logs /\ new.next <= new.last
    BY <1>1, <1>2, <2>2, <2>3 DEF Logs
  <2> HIDE DEF new
  <2> QED
    BY <1>1, <1>2, <1>3, <2>1, <2>4 DEF ProgramsInOrder
<1>7. ASSUME NEW w \in Watchers, Post(w)
      PROVE  ProgramsInOrder'
  <2>1. Batch(w) # {} /\ UNCHANGED <<said, forsaken>>
    BY <1>7 DEF Post, history
  <2>2. PICK h \in Threads : watching' = [watching EXCEPT ![w].request = h]
    BY <1>7 DEF Post
  <2> DEFINE new == [watching[w] EXCEPT !.request = h]
  <2>3. watching' = [watching EXCEPT ![w] = new]
    BY <1>1, <2>2
  <2>4. new \in Logs /\ new.next <= new.last
    BY <1>2, <2>1, LineNumbers DEF Logs, Batch
  <2> HIDE DEF new
  <2> QED
    BY <1>1, <1>2, <1>3, <2>1, <2>3, <2>4 DEF ProgramsInOrder
<1>8. ASSUME NEW w \in Watchers, GiveUpLine(w)
      PROVE  ProgramsInOrder'
  <2>1. /\ watching' = [watching EXCEPT ![w] = Broken(w)] /\ said' = said
        /\ forsaken' = forsaken \cup Dropped(w)
    BY <1>8 DEF GiveUpLine
  <2>2. forsaken' \subseteq Watchers \X (1..MaxLines)
    BY <1>1, <2>1, DroppedLines
  <2> QED
    BY <1>1, <1>2, <1>3, <1>4, <2>1, <2>2 DEF ProgramsInOrder
<1>9. ASSUME NEW w \in Watchers, NewLogFile(w)
      PROVE  ProgramsInOrder'
  <2> DEFINE new == [watching[w] EXCEPT !.offset = said]
             dropped == {<<w, m>> : m \in (watching[w].offset + 1)..said \ Batch(w)}
  <2>1. /\ watching' = [watching EXCEPT ![w] = new] /\ said' = said
        /\ forsaken' = forsaken \cup dropped
    BY <1>1, <1>9 DEF NewLogFile
  <2>2. new \in Logs /\ new.next = watching[w].next /\ new.last = watching[w].last
        /\ new.request = watching[w].request
    BY <1>1, <1>2 DEF Logs
  <2>3. dropped \subseteq Watchers \X (1..MaxLines)
    BY <1>1, <1>2, LineNumbers
  <2> HIDE DEF new, dropped
  <2>4. forsaken' \subseteq Watchers \X (1..MaxLines)
    BY <1>1, <2>1, <2>3
  <2> QED
    BY <1>1, <1>2, <1>3, <2>1, <2>2, <2>4 DEF ProgramsInOrder
<1>10. ASSUME NEW h \in Threads, CommitReport(h)
       PROVE  ProgramsInOrder'
  <2>1. /\ UNCHANGED <<said, forsaken>>
        /\ watching' = [w \in Watchers |-> IF w \in Waits(h) THEN Committed(w) ELSE watching[w]]
    BY <1>10 DEF CommitReport
  <2>2. \A w \in Waits(h) : w \in Watchers /\ watching[w].request # "none"
    BY LineNumbers DEF Waits
  <2> QED
    BY <1>1, <1>2, <1>3, <1>4, <2>1, <2>2 DEF ProgramsInOrder
<1>11. ASSUME NEW h \in Threads, NEW done \in BOOLEAN, FailReport(h, done)
       PROVE  ProgramsInOrder'
  <2>1. /\ said' = said /\ forsaken' = forsaken \cup UNION {Dropped(w) : w \in Waits(h)}
        /\ watching' = [w \in Watchers |-> IF w \in Waits(h) THEN Broken(w) ELSE watching[w]]
    BY <1>11, Zenon DEF FailReport
  <2>2. forsaken' \subseteq Watchers \X (1..MaxLines)
    BY <1>1, <2>1, DroppedLines DEF Waits
  <2> QED
    BY <1>1, <1>2, <1>3, <1>4, <2>1, <2>2 DEF ProgramsInOrder
<1>12. CASE RestartReports
  <2> DEFINE lost == {v \in Watchers : watching[v].request # "none"}
  <2>1. /\ said' = said /\ forsaken' = forsaken \cup UNION {Dropped(w) : w \in lost}
        /\ watching' = [w \in Watchers |->
               IF watching[w].request = "none" THEN watching[w] ELSE Broken(w)]
    BY <1>12, Zenon DEF RestartReports
  <2>2. forsaken' \subseteq Watchers \X (1..MaxLines)
    BY <1>1, <2>1, DroppedLines
  <2> QED
    BY <1>1, <1>2, <1>3, <1>4, <2>1, <2>2 DEF ProgramsInOrder
<1>13. CASE \/ \E h \in Threads : KeepReport(h) \/ AssignPosition(h)
            \/ AddReport \/ CommitManual \/ FailManual \/ DeleteReport \/ ReadPage \/ LoseCursor
  <2>1. UNCHANGED <<said, watching, forsaken>>
    BY <1>13 DEF KeepReport, AssignPosition, AddReport, CommitManual, FailManual, DeleteReport,
       ReadPage, LoseCursor, programs, history
  <2> QED
    BY <1>1, <1>3, <2>1, Zenon DEF ProgramsInOrder
<1> QED
  BY <1>5, <1>6, <1>7, <1>8, <1>9, <1>10, <1>11, <1>12, <1>13, Zenon DEF ReportNext

-----------------------------------------------------------------------------
(* The row of the channel.                                                 *)

ChannelRows(ids) ==
    [exists : BOOLEAN, active : BOOLEAN, last : 0..MaxLines, cleared : 0..MaxLines,
     sources : SUBSET ids, newest : 0..MaxLines, late : BOOLEAN]

\* No time of a row is after the newest line, and as long as no late sighting has taken
\* its time back, an active row has that of the newest line, which is a sighting.
RowRight(row) ==
    /\ row.last <= row.newest /\ row.cleared <= row.newest
    /\ ~ row.late => /\ row.active => row.last = row.newest
                     /\ row.active <=> row.newest \notin Clears \cup {0}

\* The fields of a row.
LEMMA RowFields ==
    ASSUME NEW ids, NEW row \in ChannelRows(ids)
    PROVE  /\ row.last \in 0..MaxLines /\ row.cleared \in 0..MaxLines /\ row.newest \in 0..MaxLines
           /\ row.last \in Nat /\ row.cleared \in Nat /\ row.newest \in Nat
           /\ row.active \in BOOLEAN /\ row.late \in BOOLEAN /\ row.sources \subseteq ids
<1>1. /\ row.last \in 0..MaxLines /\ row.cleared \in 0..MaxLines /\ row.newest \in 0..MaxLines
      /\ row.active \in BOOLEAN /\ row.late \in BOOLEAN /\ row.sources \subseteq ids
  BY Zenon DEF ChannelRows
<1>2. \A n \in 0..MaxLines : n \in Nat
  BY LineNumbers
<1> QED
  BY <1>1, <1>2, Zenon

\* A row stays one when there are more reports.
LEMMA MoreReports ==
    ASSUME NEW ids, NEW more, ids \subseteq more, NEW row \in ChannelRows(ids)
    PROVE  row \in ChannelRows(more)
<1>1. SUBSET ids \subseteq SUBSET more
  OBVIOUS
<1> QED
  BY <1>1, Zenon DEF ChannelRows

\* A line applied to the row keeps it right, in whatever order the lines come.
LEMMA AppliedRow ==
    ASSUME NEW ids, NEW more, ids \subseteq more, live \in ChannelRows(ids), RowRight(live),
           NEW m \in 1..MaxLines, NEW id \in more
    PROVE  Applied(m, id) \in ChannelRows(more) /\ RowRight(Applied(m, id))
<1> DEFINE top == Later(live.newest, m)
           still == live.late /\ m <= live.newest
           later == still \/ m < live.newest
           from == live.sources \cup {id}
           clear == [live EXCEPT !.newest = top, !.late = still, !.active = FALSE, !.cleared = m]
           same == [live EXCEPT !.newest = top, !.late = still]
           sight == [live EXCEPT !.newest = top, !.late = later, !.exists = TRUE, !.active = TRUE,
                                 !.last = m, !.cleared = 0, !.sources = from]
           old == [live EXCEPT !.newest = top, !.late = still, !.sources = from]
<1>1. live \in ChannelRows(more)
  BY MoreReports
<1>2. /\ m \in Nat /\ m > 0 /\ m \in 0..MaxLines /\ 0 \in 0..MaxLines
      /\ top \in 0..MaxLines /\ top \in Nat /\ top >= m /\ top >= live.newest
      /\ top = m \/ top = live.newest
      /\ still \in BOOLEAN /\ later \in BOOLEAN
  BY <1>1, RowFields, LineNumbers DEF Later
<1>3. from \subseteq more /\ TRUE \in BOOLEAN /\ FALSE \in BOOLEAN
  BY <1>1, RowFields
<1>4. /\ m \in Clears /\ Ends(m) => Applied(m, id) = clear
      /\ m \in Clears /\ ~ Ends(m) => Applied(m, id) = same
      /\ m \notin Clears /\ Revives(m) => Applied(m, id) = sight
      /\ m \notin Clears /\ ~ Revives(m) => Applied(m, id) = old
  BY <1>1, Zenon DEF Applied, ChannelRows
<1> HIDE DEF top, still, later, from
<1>5. /\ clear \in ChannelRows(more) /\ clear.newest = top /\ clear.late = still
      /\ clear.active = FALSE /\ clear.cleared = m /\ clear.last = live.last
  BY <1>1, <1>2, <1>3, Zenon DEF ChannelRows
<1>6. /\ same \in ChannelRows(more) /\ same.newest = top /\ same.late = still
      /\ same.active = live.active /\ same.cleared = live.cleared /\ same.last = live.last
  BY <1>1, <1>2, <1>3, Zenon DEF ChannelRows
<1>7. /\ sight \in ChannelRows(more) /\ sight.newest = top /\ sight.late = later
      /\ sight.active = TRUE /\ sight.cleared = 0 /\ sight.last = m
  BY <1>1, <1>2, <1>3, Zenon DEF ChannelRows
<1>8. /\ old \in ChannelRows(more) /\ old.newest = top /\ old.late = still
      /\ old.active = live.active /\ old.cleared = live.cleared /\ old.last = live.last
  BY <1>1, <1>2, <1>3, Zenon DEF ChannelRows
<1> HIDE DEF clear, same, sight, old
<1>9. /\ live.last \in Nat /\ live.cleared \in Nat /\ live.newest \in Nat
      /\ live.last <= live.newest /\ live.cleared <= live.newest
      /\ ~ live.late => /\ live.active => live.last = live.newest
                        /\ live.active <=> live.newest \notin Clears \cup {0}
  BY <1>1, RowFields, Zenon DEF RowRight
<1>10. ~ still => ~ live.late \/ (m > live.newest /\ top = m)
  BY <1>2, <1>9 DEF still, top, Later
<1>11. ~ later => m >= live.newest /\ top = m
  BY <1>2, <1>9 DEF later, top, Later
<1>12. CASE m \in Clears /\ Ends(m)
  <2>1. live.active /\ m >= live.last
    BY <1>12 DEF Ends
  <2>2. ~ still => top \in Clears \cup {0}
    BY <1>2, <1>9, <1>10, <1>12, <2>1
  <2>3. RowRight(clear)
    <3>1. clear.last <= clear.newest /\ clear.cleared <= clear.newest
      BY <1>2, <1>5, <1>9
    <3>2. ~ clear.active
      BY <1>5
    <3>3. ~ clear.late => clear.newest \in Clears \cup {0}
      BY <1>5, <2>2
    <3> QED
      BY <3>1, <3>2, <3>3, Zenon DEF RowRight
  <2> QED
    BY <1>4, <1>5, <1>12, <2>3, Zenon
<1>13. CASE m \in Clears /\ ~ Ends(m)
  <2>1. ~ live.active \/ m < live.last
    BY <1>2, <1>9, <1>13 DEF Ends
  <2>2. ~ still => /\ live.active => live.last = top
                   /\ live.active <=> top \notin Clears \cup {0}
    BY <1>2, <1>9, <1>10, <1>13, <2>1
  <2>3. RowRight(same)
    <3>1. same.last <= same.newest /\ same.cleared <= same.newest
      BY <1>2, <1>6, <1>9
    <3>2. ~ same.late => /\ same.active => same.last = same.newest
                         /\ same.active <=> same.newest \notin Clears \cup {0}
      BY <1>6, <2>2, Zenon
    <3> QED
      BY <3>1, <3>2, Zenon DEF RowRight
  <2> QED
    BY <1>4, <1>6, <1>13, <2>3, Zenon
<1>14. CASE m \notin Clears /\ Revives(m)
  <2>1. RowRight(sight)
    <3>1. sight.last <= sight.newest /\ sight.cleared <= sight.newest
      BY <1>2, <1>7
    <3>2. ~ sight.late => sight.last = sight.newest /\ sight.newest \notin Clears \cup {0}
      BY <1>2, <1>7, <1>11, <1>14
    <3>3. sight.active
      BY <1>7
    <3> QED
      BY <3>1, <3>2, <3>3, Zenon DEF RowRight
  <2> QED
    BY <1>4, <1>7, <1>14, <2>1, Zenon
<1>15. CASE m \notin Clears /\ ~ Revives(m)
  <2>1. ~ live.active /\ m <= live.cleared
    BY <1>2, <1>9, <1>15 DEF Revives
  <2>2. top = live.newest
    BY <1>2, <1>9, <2>1
  <2>3. ~ still => ~ live.late
    BY <1>2, <1>9, <1>10, <2>1
  <2>4. RowRight(old)
    <3>1. old.last <= old.newest /\ old.cleared <= old.newest
      BY <1>2, <1>8, <1>9
    <3>2. ~ old.late => /\ old.active => old.last = old.newest
                        /\ old.active <=> old.newest \notin Clears \cup {0}
      BY <1>8, <1>9, <2>2, <2>3, Zenon
    <3> QED
      BY <3>1, <3>2, Zenon DEF RowRight
  <2> QED
    BY <1>4, <1>8, <1>15, <2>4, Zenon
<1> QED
  BY <1>12, <1>13, <1>14, <1>15, Zenon

-----------------------------------------------------------------------------
(* The reports and their stream.                                           *)

Blank == [exists |-> FALSE]

Servings == [at : Stages, line : 0..MaxLines, report : Nat,
             row : ChannelRows(Nat) \cup {Blank}]
Entries == [line : 0..MaxLines, position : Nat]
Filed == [id : Nat, position : Nat]
Followers == [cursor : Nat, start : Nat, anchored : BOOLEAN, told : SUBSET Nat]

Made == DOMAIN made

\* Thread h has a report in hand.
HasReport(h) == serving[h].at \in {"waiting", "writing"}

IsStored(id) == \E r \in stored : r.id = id

\* Somebody writes report id.
IsWritten(id) == \E h \in Threads : serving[h].at = "writing" /\ serving[h].report = id

ReportShape ==
    /\ serving \in [Threads -> Servings] /\ turns \in Seq(Threads)
    /\ made \in Seq(Entries) /\ manual \in Made \cup {0} /\ highest \in Nat
    /\ cached \subseteq Made /\ troubled \subseteq Made
    /\ stored \subseteq Filed /\ \A r \in stored : r.id \in Made
    /\ removed \subseteq 0..MaxLines /\ answered \subseteq 0..MaxLines

\* The row in memory, the row in the table and the rows the threads are to write are
\* right, and refer to reports.
RowsRight ==
    /\ live \in ChannelRows(Made) /\ RowRight(live)
    /\ liveRow \in ChannelRows(Made) /\ RowRight(liveRow)
    /\ \A h \in Threads : HasReport(h) =>
          serving[h].row \in ChannelRows(Made) /\ RowRight(serving[h].row)

\* A thread with a report has a turn of its own, and writes in its turn.
ThreadsInOrder ==
    /\ \A h \in Threads :
          /\ serving[h].at # "free" => serving[h].line \in 1..MaxLines
          /\ serving[h].report \in Made \cup {0}
          /\ HasReport(h) => /\ serving[h].report \in Made
                             /\ made[serving[h].report].line = serving[h].line
                             /\ \E i \in DOMAIN turns : turns[i] = h
          /\ serving[h].at = "writing" => turns # <<>> /\ turns[1] = h
    /\ \A i \in DOMAIN turns : HasReport(turns[i])
    /\ \A i, j \in DOMAIN turns : turns[i] = turns[j] => i = j

\* A line has one report, until one is removed, and what is stored or in hand is in
\* memory; a line that was answered has a row.
LinesInOrder ==
    /\ \A i, j \in cached :
          made[i].line = made[j].line /\ made[i].line \notin removed \cup {0} => i = j
    /\ \A r \in stored : made[r.id].line \notin removed \cup {0} => r.id \in cached
    /\ \A h \in Threads : HasReport(h) /\ serving[h].line \notin removed =>
          serving[h].report \in cached
    /\ \A m \in answered \ removed : m # 0 => \E r \in stored : made[r.id].line = m

\* One transaction at a time gives a position, each its own; a report in memory that has
\* one is stored, its first transaction has failed, or it is being written.
PositionsInOrder ==
    /\ \A i \in Made : made[i].position <= highest
    /\ \A i, j \in Made : made[i].position = made[j].position /\ made[i].position > 0 => i = j
    /\ \A r \in stored : r.position = made[r.id].position /\ r.position > 0
    /\ \A h \in Threads : serving[h].at = "writing" => manual = 0 /\ made[serving[h].report].position > 0
    /\ manual # 0 => made[manual].line = 0 /\ made[manual].position > 0
    /\ \A id \in cached : made[id].position > 0 /\ made[id].line \notin removed \cup {0} =>
          IsStored(id) \/ id \in troubled \/ IsWritten(id)

\* A row that report id may yet get is after all that was read.
IsAhead(id) ==
    /\ made[id].position > follower.cursor
    /\ \A r \in stored : r.position < made[id].position

\* The reader has been told what its cursor has passed, and what is being written
\* comes after it.
StreamInOrder ==
    /\ follower \in Followers /\ follower.told \subseteq Made
    /\ follower.cursor <= highest /\ follower.start <= highest
    /\ StreamSkipsNothing
    /\ \A h \in Threads : serving[h].at = "writing" =>
          \/ IsStored(serving[h].report)
          \/ serving[h].report \in troubled
          \/ serving[h].line \in removed
          \/ IsAhead(serving[h].report)
    /\ manual # 0 => IsAhead(manual)

ReportInv ==
    /\ ReportShape /\ RowsRight /\ ThreadsInOrder
    /\ LinesInOrder /\ PositionsInOrder /\ StreamInOrder

\* Only thread h goes on, and this is what it has then.
Serves(h, at, line, report, row) ==
    /\ serving' \in [Threads -> Servings]
    /\ serving'[h].at = at /\ serving'[h].line = line
    /\ serving'[h].report = report /\ serving'[h].row = row
    /\ \A g \in Threads : g # h => serving'[g] = serving[g]

\* The fields of what a thread has.
LEMMA ServingFields ==
    ASSUME serving \in [Threads -> Servings], NEW h \in Threads
    PROVE  /\ serving[h] \in Servings /\ serving[h].at \in Stages
           /\ serving[h].line \in 0..MaxLines /\ serving[h].report \in Nat
           /\ serving[h].row \in ChannelRows(Nat) \cup {Blank}
<1>1. serving[h] \in Servings
  BY Zenon
<1> QED
  BY <1>1, Zenon DEF Servings

\* A thread that has nothing.
LEMMA IdleThread == /\ Idle \in Servings /\ Idle.at = "free" /\ Idle.line = 0
                    /\ Idle.report = 0 /\ Idle.row = Blank
<1>1. "free" \in Stages /\ 0 \in 0..MaxLines /\ 0 \in Nat
  BY LineNumbers DEF Stages
<1>2. Blank \in ChannelRows(Nat) \cup {Blank}
  BY Zenon
<1> QED
  BY <1>1, <1>2, Zenon DEF Idle, Servings, Blank

\* A thread comes to a stage, takes a line, gets a report, or is through.
LEMMA ThreadGoes ==
    ASSUME serving \in [Threads -> Servings], NEW h \in Threads, NEW at \in Stages,
           NEW line \in 0..MaxLines, NEW report \in Nat, NEW row \in ChannelRows(Nat)
    PROVE  /\ serving' = [serving EXCEPT ![h].at = at, ![h].line = line] =>
                  Serves(h, at, line, serving[h].report, serving[h].row)
           /\ serving' = [serving EXCEPT ![h].at = at, ![h].report = report, ![h].row = row] =>
                  Serves(h, at, serving[h].line, report, row)
           /\ serving' = [serving EXCEPT ![h].at = at] =>
                  Serves(h, at, serving[h].line, serving[h].report, serving[h].row)
           /\ serving' = [serving EXCEPT ![h] = Idle] => Serves(h, "free", 0, 0, Blank)
<1> DEFINE comes == [serving[h] EXCEPT !.at = at, !.line = line]
           gets == [serving[h] EXCEPT !.at = at, !.report = report, !.row = row]
           goes == [serving[h] EXCEPT !.at = at]
           Bears(new, l, r, w) == /\ new \in Servings /\ new.line = l
                                 /\ new.report = r /\ new.row = w
<1>1. serving[h] \in Servings
  BY Zenon
<1>2. Bears(comes, line, serving[h].report, serving[h].row) /\ comes.at = at
  BY <1>1, Zenon DEF Servings
<1>3. Bears(gets, serving[h].line, report, row) /\ gets.at = at
  BY <1>1, Zenon DEF Servings
<1>4. Bears(goes, serving[h].line, serving[h].report, serving[h].row) /\ goes.at = at
  BY <1>1, Zenon DEF Servings
<1>5. Bears(Idle, 0, 0, Blank) /\ Idle.at = "free"
  BY IdleThread
<1>6. ASSUME NEW new, NEW stage, NEW l, NEW r, NEW w, Bears(new, l, r, w), new.at = stage,
             serving' = [serving EXCEPT ![h] = new]
      PROVE  Serves(h, stage, l, r, w)
  <2>1. serving' \in [Threads -> Servings] /\ serving'[h] = new
        /\ \A g \in Threads : g # h => serving'[g] = serving[g]
    BY <1>6
  <2> QED
    BY <1>6, <2>1 DEF Serves
<1>7. /\ serving' = [serving EXCEPT ![h].at = at, ![h].line = line] =>
            serving' = [serving EXCEPT ![h] = comes]
      /\ serving' = [serving EXCEPT ![h].at = at, ![h].report = report, ![h].row = row] =>
            serving' = [serving EXCEPT ![h] = gets]
      /\ serving' = [serving EXCEPT ![h].at = at] => serving' = [serving EXCEPT ![h] = goes]
  OBVIOUS
<1> HIDE DEF comes, gets, goes, Bears
<1> QED
  BY <1>2, <1>3, <1>4, <1>5, <1>6, <1>7, Zenon

\* The fields of a report.
LEMMA EntryFields ==
    ASSUME made \in Seq(Entries), NEW i \in Made
    PROVE  /\ i \in Nat \ {0} /\ i \in 1..Len(made) /\ made[i] \in Entries
           /\ made[i].line \in 0..MaxLines /\ made[i].position \in Nat
<1>1. DOMAIN made = 1..Len(made) /\ Len(made) \in Nat
  OBVIOUS
<1>2. i \in 1..Len(made) /\ i \in Nat \ {0}
  BY <1>1 DEF Made
<1>3. made[i] \in Entries
  BY <1>2
<1> QED
  BY <1>2, <1>3 DEF Entries

\* A report gets a position, the next one unless it has one.
LEMMA GetsPosition ==
    ASSUME NEW reports \in Seq(Entries), NEW id \in DOMAIN reports, highest \in Nat,
           Positioned(reports, id)
    PROVE  /\ made' \in Seq(Entries) /\ Made' = DOMAIN reports
           /\ \A i \in DOMAIN reports : i # id => made'[i] = reports[i]
           /\ made'[id].line = reports[id].line /\ made'[id].position > 0
           /\ highest' \in Nat
           /\ \/ reports[id].position > 0 /\ highest' = highest
                 /\ made'[id].position = reports[id].position
              \/ reports[id].position = 0 /\ highest' = highest + 1
                 /\ made'[id].position = highest'
<1>1. reports[id] \in Entries
  OBVIOUS
<1>2. reports[id].line \in 0..MaxLines /\ reports[id].position \in Nat
  BY <1>1 DEF Entries
<1> DEFINE place == IF reports[id].position > 0 THEN reports[id].position ELSE highest'
           new == [reports[id] EXCEPT !.position = place]
<1>3. highest' \in Nat /\ place \in Nat /\ place > 0
  BY <1>2 DEF Positioned
<1>4. made' = [reports EXCEPT ![id] = new]
  BY DEF Positioned
<1>5. \/ reports[id].position > 0 /\ highest' = highest /\ place = reports[id].position
      \/ reports[id].position = 0 /\ highest' = highest + 1 /\ place = highest'
  BY <1>2 DEF Positioned
<1> HIDE DEF place
<1>6. new \in Entries /\ new.line = reports[id].line /\ new.position = place
  BY <1>1, <1>3 DEF Entries
<1> HIDE DEF new
<1>7. /\ made' \in Seq(Entries) /\ DOMAIN made' = DOMAIN reports /\ made'[id] = new
      /\ \A i \in DOMAIN reports : i # id => made'[i] = reports[i]
  BY <1>4, <1>6
<1> QED
  BY <1>3, <1>5, <1>6, <1>7 DEF Made

\* What there is of the reports.
reportState == <<serving, turns, manual, made, cached, stored, highest, live, liveRow,
                 follower, troubled, removed, answered>>

\* Nothing happens to the reports.
LEMMA ReportsRest == ReportInv /\ UNCHANGED reportState => ReportInv'
<1> SUFFICES ASSUME ReportInv, UNCHANGED reportState
             PROVE  ReportInv'
  OBVIOUS
<1>1. /\ serving' = serving /\ turns' = turns /\ manual' = manual /\ made' = made
      /\ cached' = cached /\ stored' = stored /\ highest' = highest /\ live' = live
      /\ liveRow' = liveRow /\ follower' = follower /\ troubled' = troubled
      /\ removed' = removed /\ answered' = answered
  BY DEF reportState
<1>2. ReportShape'
  BY <1>1, Zenon DEF ReportInv, ReportShape, Made
<1>3. RowsRight'
  BY <1>1, Zenon DEF ReportInv, RowsRight, HasReport, Made
<1>4. ThreadsInOrder'
  BY <1>1, Zenon DEF ReportInv, ThreadsInOrder, HasReport, Made
<1>5. LinesInOrder'
  BY <1>1, Zenon DEF ReportInv, LinesInOrder, HasReport
<1>6. PositionsInOrder'
  BY <1>1, Zenon DEF ReportInv, PositionsInOrder, IsStored, IsWritten, Made
<1>7. StreamInOrder'
  BY <1>1, Zenon DEF ReportInv, StreamInOrder, StreamSkipsNothing, IsStored, IsAhead, Made
<1> QED
  BY <1>2, <1>3, <1>4, <1>5, <1>6, <1>7 DEF ReportInv

\* A thread that has no report yet, or gives up none, leaves the others as they are.
LEMMA PostKeeps ==
    ASSUME ReportInv, ProgramsInOrder, NEW w \in Watchers, Post(w)
    PROVE  ReportInv'
<1> DEFINE line == watching[w].next
<1>1. /\ turns' = turns /\ manual' = manual /\ made' = made
      /\ cached' = cached /\ stored' = stored /\ highest' = highest /\ live' = live
      /\ liveRow' = liveRow /\ follower' = follower /\ troubled' = troubled
      /\ removed' = removed /\ answered' = answered
  BY DEF Post, caches, tables, history
<1>2. PICK h \in Threads : /\ serving[h] = Idle
                           /\ serving' = [serving EXCEPT ![h].at = "arrived", ![h].line = line]
  BY DEF Post
<1>3. line \in 1..MaxLines /\ line \in 0..MaxLines
  <2>1. /\ line \in 1..MaxLines + 1 /\ watching[w].last \in 0..MaxLines
    BY DEF ProgramsInOrder, Logs
  <2> QED
    BY <2>1, LineNumbers DEF Post, Batch
<1>4. serving \in [Threads -> Servings]
  BY DEF ReportInv, ReportShape
<1> HIDE DEF line
<1>5. Serves(h, "arrived", line, serving[h].report, serving[h].row)
  <2>1. "arrived" \in Stages
    BY DEF Stages
  <2>2. live \in ChannelRows(Nat)
    <3>1. Made \subseteq Nat
      BY EntryFields DEF ReportInv, ReportShape
    <3> QED
      BY <3>1, MoreReports DEF ReportInv, RowsRight
  <2> QED
    BY <1>2, <1>3, <1>4, <2>1, <2>2, ThreadGoes
<1>6. /\ serving' \in [Threads -> Servings] /\ serving'[h].at = "arrived"
      /\ serving'[h].line = line /\ serving'[h].report = 0 /\ serving[h].at = "free"
      /\ \A g \in Threads : g # h => serving'[g] = serving[g]
  BY <1>2, <1>5, IdleThread DEF Serves
<1>7. \A g \in Threads : (HasReport(g)' <=> HasReport(g)) /\ (HasReport(g) => g # h)
  BY <1>6 DEF HasReport
<1>8. \A g \in Threads : serving'[g].at = "writing" => g # h
  BY <1>6
<1>9. \A g \in Threads : serving[g].at = "writing" => g # h
  BY <1>6
<1>10. ReportShape'
  BY <1>1, <1>6, Zenon DEF ReportInv, ReportShape, Made
<1>11. RowsRight'
  <2>1. \A g \in Threads : HasReport(g)' => serving'[g] = serving[g] /\ HasReport(g)
    BY <1>6, <1>7
  <2> QED
    BY <1>1, <2>1, Zenon DEF ReportInv, RowsRight, Made
<1>12. ThreadsInOrder'
  <2>1. ASSUME NEW g \in Threads
        PROVE  /\ serving'[g].at # "free" => serving'[g].line \in 1..MaxLines
               /\ serving'[g].report \in Made \cup {0}
               /\ HasReport(g)' => /\ serving'[g].report \in Made
                                  /\ made[serving'[g].report].line = serving'[g].line
                                  /\ \E i \in DOMAIN turns : turns[i] = g
               /\ serving'[g].at = "writing" => turns # <<>> /\ turns[1] = g
    BY <1>3, <1>6, <1>7, <1>8 DEF ReportInv, ThreadsInOrder
  <2>2. \A i \in DOMAIN turns : HasReport(turns[i])'
    <3>1. \A i \in DOMAIN turns : turns[i] \in Threads
      BY DEF ReportInv, ReportShape
    <3> QED
      BY <1>1, <1>7, <3>1 DEF ReportInv, ThreadsInOrder
  <2>3. \A i, j \in DOMAIN turns : turns[i] = turns[j] => i = j
    BY DEF ReportInv, ThreadsInOrder
  <2>4. Made' = Made
    BY <1>1 DEF Made
  <2> QED
    BY <1>1, <2>1, <2>2, <2>3, <2>4, Zenon DEF ThreadsInOrder
<1>13. LinesInOrder'
  <2>1. \A g \in Threads : HasReport(g)' => serving'[g] = serving[g] /\ HasReport(g)
    BY <1>6, <1>7
  <2> QED
    BY <1>1, <2>1, Zenon DEF ReportInv, LinesInOrder
<1>14. \A g \in Threads : serving'[g].at = "writing" => serving'[g] = serving[g]
  BY <1>6
<1>15. \A id : IsWritten(id) => IsWritten(id)'
  BY <1>6, <1>9 DEF IsWritten
<1>16. \A id : IsStored(id)' <=> IsStored(id)
  BY <1>1 DEF IsStored
<1>17. PositionsInOrder'
  BY <1>1, <1>14, <1>15, <1>16, Zenon DEF ReportInv, PositionsInOrder, Made
<1>18. StreamInOrder'
  BY <1>1, <1>14, <1>16, Zenon DEF ReportInv, StreamInOrder, StreamSkipsNothing, IsAhead, Made
<1> QED
  BY <1>10, <1>11, <1>12, <1>13, <1>17, <1>18 DEF ReportInv

\* A thread finds the report of its line in memory, or makes one; the line is applied to
\* the row, and the thread takes a turn.
LEMMA KeepKeeps ==
    ASSUME ReportInv, NEW h \in Threads, KeepReport(h)
    PROVE  ReportInv'
<1> DEFINE line == serving[h].line
<1>1. /\ serving \in [Threads -> Servings] /\ turns \in Seq(Threads) /\ made \in Seq(Entries)
      /\ cached \subseteq Made /\ live \in ChannelRows(Made) /\ RowRight(live)
  BY DEF ReportInv, ReportShape, RowsRight
<1>2. /\ manual = 0 /\ serving[h].at = "arrived" /\ line \in 1..MaxLines /\ line # 0
      /\ manual' = manual /\ stored' = stored /\ highest' = highest /\ liveRow' = liveRow
      /\ follower' = follower /\ troubled' = troubled /\ removed' = removed
      /\ answered' = answered
  BY DEF KeepReport, tables, history, ReportInv, ThreadsInOrder
<1>3. DOMAIN made = 1..Len(made) /\ Len(made) \in Nat /\ Made = 1..Len(made)
  BY <1>1 DEF Made
<1> DEFINE fresh == [line |-> line, position |-> 0]
           id0 == Len(made) + 1
<1>4. fresh \in Entries /\ fresh.line = line /\ fresh.position = 0
  BY <1>2, LineNumbers DEF Entries
<1>5. \/ /\ \E id \in Duplicates(line) : Reserved(h, id)
         /\ made' = made /\ cached' = cached
      \/ /\ Duplicates(line) = {} /\ Reserved(h, id0)
         /\ made' = Append(made, fresh) /\ cached' = cached \cup {id0}
  <2>1. made' = Append(made, fresh) => Len(made') = id0
    BY <1>1
  <2> QED
    BY <2>1 DEF KeepReport
<1> HIDE DEF fresh
<1>6. \E id \in Nat :
         /\ Reserved(h, id) /\ cached' = cached \cup {id}
         /\ made' \in Seq(Entries) /\ Made' = Made \cup {id} /\ made'[id].line = line
         /\ \A i \in Made : made'[i] = made[i]
         /\ id \in Made => id \in cached
         /\ id \notin Made => made'[id].position = 0
         /\ \A i \in cached : made[i].line = line => id \in cached
  <2>1. ASSUME NEW id \in Duplicates(line), Reserved(h, id), made' = made, cached' = cached
        PROVE  /\ Reserved(h, id) /\ cached' = cached \cup {id}
               /\ made' \in Seq(Entries) /\ Made' = Made \cup {id} /\ made'[id].line = line
               /\ \A i \in Made : made'[i] = made[i]
               /\ id \in Made => id \in cached
               /\ id \notin Made => made'[id].position = 0
               /\ \A i \in cached : made[i].line = line => id \in cached
    <3>1. id \in cached /\ made[id].line = line
      BY <2>1 DEF Duplicates
    <3> QED
      BY <1>1, <2>1, <3>1 DEF Made
  <2>2. ASSUME Duplicates(line) = {}, Reserved(h, id0),
               made' = Append(made, fresh), cached' = cached \cup {id0}
        PROVE  /\ Reserved(h, id0) /\ cached' = cached \cup {id0}
               /\ made' \in Seq(Entries) /\ Made' = Made \cup {id0} /\ made'[id0].line = line
               /\ \A i \in Made : made'[i] = made[i]
               /\ id0 \in Made => id0 \in cached
               /\ id0 \notin Made => made'[id0].position = 0
               /\ \A i \in cached : made[i].line = line => id0 \in cached
    <3>1. made' \in Seq(Entries) /\ DOMAIN made' = 1..id0 /\ made'[id0] = fresh
          /\ \A i \in 1..Len(made) : made'[i] = made[i]
      BY <1>1, <1>4, <2>2
    <3>2. id0 \notin Made /\ Made' = Made \cup {id0}
      BY <1>3, <3>1 DEF Made
    <3>3. \A i \in cached : made[i].line # line
      BY <2>2 DEF Duplicates
    <3> QED
      BY <1>3, <1>4, <2>2, <3>1, <3>2, <3>3
  <2>3. \A id \in Duplicates(line) : id \in Nat
    BY <1>1, <1>3 DEF Duplicates
  <2>4. id0 \in Nat
    BY <1>3
  <2> HIDE DEF id0
  <2> QED
    BY <1>5, <2>1, <2>2, <2>3, <2>4
<1>7. PICK id \in Nat :
         /\ Reserved(h, id) /\ cached' = cached \cup {id}
         /\ made' \in Seq(Entries) /\ Made' = Made \cup {id} /\ made'[id].line = line
         /\ \A i \in Made : made'[i] = made[i]
         /\ id \in Made => id \in cached
         /\ id \notin Made => made'[id].position = 0
         /\ \A i \in cached : made[i].line = line => id \in cached
  BY <1>6
<1>8. live' = Applied(line, id) /\ live' \in ChannelRows(Made') /\ RowRight(live')
  <2>1. live' = Applied(line, id)
    BY <1>7 DEF Reserved
  <2>2. Made \subseteq Made' /\ id \in Made'
    BY <1>7
  <2> QED
    BY <1>1, <1>2, <2>1, <2>2, AppliedRow, Zenon
<1>9. /\ serving' = [serving EXCEPT ![h].at = "waiting", ![h].report = id, ![h].row = live']
      /\ turns' = Append(turns, h)
  BY <1>7 DEF Reserved
<1>10. Serves(h, "waiting", line, id, live')
  <2>1. "waiting" \in Stages /\ line \in 0..MaxLines
    BY <1>2, LineNumbers DEF Stages
  <2>2. Made' \subseteq Nat
    BY <1>3, <1>7
  <2>3. live' \in ChannelRows(Nat)
    BY <1>8, <2>2, MoreReports
  <2> QED
    BY <1>1, <1>9, <2>1, <2>3, ThreadGoes
<1> HIDE DEF line
<1>11. /\ serving' \in [Threads -> Servings] /\ serving'[h].at = "waiting"
       /\ serving'[h].line = line /\ serving'[h].report = id /\ serving'[h].row = live'
       /\ \A g \in Threads : g # h => serving'[g] = serving[g]
       /\ ~ HasReport(h) /\ HasReport(h)'
       /\ \A g \in Threads : g # h => (HasReport(g)' <=> HasReport(g))
  BY <1>2, <1>10 DEF Serves, HasReport
<1>12. \A g \in Threads : serving'[g].at = "writing" => g # h /\ serving[g].at = "writing"
  BY <1>11
<1>13. /\ \A i : IsStored(i)' <=> IsStored(i)
       /\ \A i : IsWritten(i) => IsWritten(i)'
  BY <1>2, <1>11 DEF IsStored, IsWritten
<1>14. ReportShape'
  <2>1. turns' \in Seq(Threads)
    BY <1>1, <1>9
  <2>2. /\ cached' \subseteq Made' /\ troubled' \subseteq Made' /\ manual' \in Made' \cup {0}
        /\ \A r \in stored' : r.id \in Made'
    BY <1>2, <1>7 DEF ReportInv, ReportShape
  <2> QED
    BY <1>2, <1>7, <1>11, <2>1, <2>2, Zenon DEF ReportInv, ReportShape
<1>15. RowsRight'
  <2>1. Made \subseteq Made'
    BY <1>7
  <2>2. liveRow' \in ChannelRows(Made') /\ RowRight(liveRow')
    BY <1>2, <2>1, MoreReports DEF ReportInv, RowsRight
  <2>3. ASSUME NEW g \in Threads, HasReport(g)'
        PROVE  serving'[g].row \in ChannelRows(Made') /\ RowRight(serving'[g].row)
    <3>1. CASE g = h
      BY <1>8, <1>11, <3>1
    <3>2. CASE g # h
      <4>1. HasReport(g) /\ serving'[g] = serving[g]
        BY <1>11, <2>3, <3>2
      <4>2. serving[g].row \in ChannelRows(Made) /\ RowRight(serving[g].row)
        BY <4>1 DEF ReportInv, RowsRight
      <4> QED
        BY <2>1, <4>1, <4>2, MoreReports
    <3> QED
      BY <3>1, <3>2
  <2> QED
    BY <1>8, <2>2, <2>3 DEF RowsRight
<1>16. ThreadsInOrder'
  <2>1. ASSUME NEW g \in Threads
        PROVE  /\ serving'[g].at # "free" => serving'[g].line \in 1..MaxLines
               /\ serving'[g].report \in Made' \cup {0}
               /\ HasReport(g)' => /\ serving'[g].report \in Made'
                                  /\ made'[serving'[g].report].line = serving'[g].line
                                  /\ \E i \in DOMAIN turns' : turns'[i] = g
               /\ serving'[g].at = "writing" => turns' # <<>> /\ turns'[1] = g
    <3>1. CASE g = h
      <4>1. Len(turns) + 1 \in DOMAIN turns' /\ turns'[Len(turns) + 1] = h
        BY <1>1, <1>9
      <4> QED
        BY <1>2, <1>7, <1>11, <3>1, <4>1 DEF line
    <3>2. CASE g # h
      <4>1. /\ serving[g].at # "free" => serving[g].line \in 1..MaxLines
            /\ serving[g].report \in Made \cup {0}
            /\ HasReport(g) => /\ serving[g].report \in Made
                               /\ made[serving[g].report].line = serving[g].line
                               /\ \E i \in DOMAIN turns : turns[i] = g
            /\ serving[g].at = "writing" => turns # <<>> /\ turns[1] = g
        BY DEF ReportInv, ThreadsInOrder
      <4>2. /\ turns # <<>> => turns' # <<>> /\ turns'[1] = turns[1]
            /\ \A i \in DOMAIN turns : i \in DOMAIN turns' /\ turns'[i] = turns[i]
        BY <1>1, <1>9
      <4> QED
        BY <1>7, <1>11, <3>2, <4>1, <4>2
    <3> QED
      BY <3>1, <3>2
  <2>2. \A i \in DOMAIN turns : turns[i] # h /\ turns[i] \in Threads /\ HasReport(turns[i])
    BY <1>1, <1>11 DEF ReportInv, ThreadsInOrder
  <2>3. DOMAIN turns' = 1..(Len(turns) + 1) /\ turns'[Len(turns) + 1] = h
        /\ \A i \in 1..Len(turns) : turns'[i] = turns[i]
        /\ DOMAIN turns = 1..Len(turns) /\ Len(turns) \in Nat
    BY <1>1, <1>9
  <2>4. \A i \in DOMAIN turns' : i \in DOMAIN turns \/ i = Len(turns) + 1
    BY <2>3
  <2>5. (\A i \in DOMAIN turns : HasReport(turns[i]))'
    <3>1. \A g : g \in Threads /\ (g = h \/ HasReport(g)) => HasReport(g)'
      BY <1>11
    <3> QED
      BY <2>2, <2>3, <2>4, <3>1
  <2>6. \A i, j \in DOMAIN turns' : turns'[i] = turns'[j] => i = j
    <3>1. \A i, j \in DOMAIN turns : turns[i] = turns[j] => i = j
      BY DEF ReportInv, ThreadsInOrder
    <3> QED
      BY <2>2, <2>3, <2>4, <3>1
  <2> QED
    BY <2>1, <2>5, <2>6 DEF ThreadsInOrder, HasReport
<1>17. LinesInOrder'
  <2>1. \A i, j \in cached' :
            made'[i].line = made'[j].line /\ made'[i].line \notin removed \cup {0} => i = j
    <3>1. \A i \in cached : i \in Made
      BY <1>1
    <3>2. \A i, j \in cached :
              made[i].line = made[j].line /\ made[i].line \notin removed \cup {0} => i = j
      BY DEF ReportInv, LinesInOrder
    <3>3. id \notin cached => \A i \in cached : made[i].line # line
      BY <1>7
    <3> QED
      BY <1>7, <3>1, <3>2, <3>3
  <2>2. \A r \in stored : made'[r.id].line \notin removed \cup {0} => r.id \in cached'
    BY <1>7 DEF ReportInv, ReportShape, LinesInOrder
  <2>3. \A g \in Threads : HasReport(g)' /\ serving'[g].line \notin removed =>
            serving'[g].report \in cached'
    BY <1>7, <1>11 DEF ReportInv, LinesInOrder
  <2>4. \A m \in answered \ removed : m # 0 => \E r \in stored : made'[r.id].line = m
    BY <1>7 DEF ReportInv, ReportShape, LinesInOrder
  <2> QED
    BY <1>2, <2>1, <2>2, <2>3, <2>4, Zenon DEF LinesInOrder
<1>18. PositionsInOrder'
  <2>0. \A i \in Made : made[i].position \in Nat
    BY <1>1, EntryFields
  <2>1. \A i \in Made' : made'[i].position <= highest
    BY <1>7 DEF ReportInv, ReportShape, PositionsInOrder
  <2>2. \A i, j \in Made' : made'[i].position = made'[j].position /\ made'[i].position > 0 => i = j
    BY <1>7, <2>0 DEF ReportInv, PositionsInOrder
  <2>3. \A r \in stored : r.position = made'[r.id].position /\ r.position > 0
    BY <1>7 DEF ReportInv, ReportShape, PositionsInOrder
  <2>4. \A g \in Threads : serving'[g].at = "writing" =>
            manual = 0 /\ made'[serving'[g].report].position > 0
    <3>1. \A g \in Threads : serving[g].at = "writing" => serving[g].report \in Made
      BY DEF ReportInv, ThreadsInOrder, HasReport
    <3> QED
      BY <1>7, <1>11, <1>12, <3>1 DEF ReportInv, PositionsInOrder
  <2>5. \A i \in cached' : made'[i].position > 0 /\ made'[i].line \notin removed \cup {0} =>
            IsStored(i) \/ i \in troubled \/ IsWritten(i)
    <3>1. \A i \in cached' : made'[i].position > 0 => i \in cached /\ made'[i] = made[i]
      BY <1>1, <1>7
    <3> QED
      BY <3>1 DEF ReportInv, PositionsInOrder
  <2> QED
    BY <1>2, <1>13, <2>1, <2>2, <2>3, <2>4, <2>5, Zenon DEF PositionsInOrder
<1>19. StreamInOrder'
  <2>1. follower.told \subseteq Made'
    BY <1>7 DEF ReportInv, StreamInOrder
  <2>2. StreamSkipsNothing'
    <3>1. \A r \in stored : made'[r.id].line = made[r.id].line
      BY <1>7 DEF ReportInv, ReportShape
    <3> QED
      BY <1>2, <3>1, Zenon DEF ReportInv, StreamInOrder, StreamSkipsNothing
  <2>3. ASSUME NEW g \in Threads, serving'[g].at = "writing"
        PROVE  (\/ IsStored(serving[g].report)
                \/ serving[g].report \in troubled
                \/ serving[g].line \in removed
                \/ IsAhead(serving[g].report))'
    <3>1. g # h /\ serving'[g] = serving[g] /\ serving[g].report \in Made
      BY <1>11, <1>12, <2>3 DEF ReportInv, ThreadsInOrder, HasReport
    <3>2. IsAhead(serving[g].report) => IsAhead(serving[g].report)'
      BY <1>2, <1>7, <3>1 DEF IsAhead
    <3> QED
      BY <1>2, <1>12, <2>3, <3>1, <3>2 DEF ReportInv, StreamInOrder, IsStored
  <2> QED
    BY <1>2, <2>1, <2>2, <2>3 DEF ReportInv, StreamInOrder
<1> QED
  BY <1>14, <1>15, <1>16, <1>17, <1>18, <1>19 DEF ReportInv

\* In its turn, and when no other transaction has given a position, a thread gives its
\* report the next one, unless it has one: then its row is there, or will not be waited
\* for.
LEMMA AssignKeeps ==
    ASSUME ReportInv, NEW h \in Threads, AssignPosition(h)
    PROVE  ReportInv'
<1>0. PICK id \in Made : id = serving[h].report
  BY DEF AssignPosition, ReportInv, ThreadsInOrder, HasReport
<1>1. /\ serving \in [Threads -> Servings] /\ turns \in Seq(Threads) /\ made \in Seq(Entries)
      /\ highest \in Nat /\ live \in ChannelRows(Made)
  BY DEF ReportInv, ReportShape, RowsRight
<1>2. /\ serving[h].at = "waiting" /\ h = Head(turns) /\ manual = 0
      /\ \A g \in Threads : serving[g].at # "writing"
      /\ Positioned(made, id) /\ serving' = [serving EXCEPT ![h].at = "writing"]
      /\ turns' = turns /\ manual' = manual /\ stored' = stored /\ liveRow' = liveRow
      /\ live' = live /\ cached' = cached /\ follower' = follower /\ troubled' = troubled
      /\ removed' = removed /\ answered' = answered
  BY <1>0 DEF AssignPosition, PositionsFree, history
<1>3. /\ HasReport(h) /\ id \in Made /\ made[id].line = serving[h].line
      /\ serving[h].line \in 1..MaxLines /\ serving[h].line # 0
  BY <1>0, <1>2 DEF ReportInv, ThreadsInOrder, HasReport
<1>4. /\ made' \in Seq(Entries) /\ Made' = Made
      /\ \A i \in Made : i # id => made'[i] = made[i]
      /\ made'[id].line = made[id].line /\ made'[id].position > 0 /\ highest' \in Nat
      /\ \/ made[id].position > 0 /\ highest' = highest
            /\ made'[id].position = made[id].position
         \/ made[id].position = 0 /\ highest' = highest + 1
            /\ made'[id].position = highest'
  BY <1>1, <1>2, <1>3, GetsPosition DEF Made
<1>5. Serves(h, "writing", serving[h].line, id, serving[h].row)
  <2>1. "writing" \in Stages /\ live \in ChannelRows(Nat)
    <3>1. Made \subseteq Nat
      BY <1>1, EntryFields
    <3> QED
      BY <1>1, <3>1, MoreReports DEF Stages
  <2>2. serving[h].line \in 0..MaxLines /\ id \in Nat
    BY <1>0, <1>1, ServingFields
  <2> QED
    BY <1>0, <1>1, <1>2, <2>1, <2>2, ThreadGoes
<1>6. /\ serving' \in [Threads -> Servings] /\ serving'[h].at = "writing"
      /\ serving'[h].line = serving[h].line /\ serving'[h].report = id
      /\ serving'[h].row = serving[h].row /\ serving[h].report = id
      /\ \A g \in Threads : g # h => serving'[g] = serving[g]
      /\ \A g \in Threads : HasReport(g)' <=> HasReport(g)
      /\ \A g \in Threads : serving'[g].at = "writing" => g = h
      /\ \A g \in Threads : /\ serving'[g].line = serving[g].line
                            /\ serving'[g].report = serving[g].report
                            /\ serving'[g].row = serving[g].row
                            /\ serving'[g].at = "free" <=> serving[g].at = "free"
  BY <1>0, <1>2, <1>5 DEF Serves, HasReport
<1>7. \A i \in Made : made'[i].line = made[i].line
  BY <1>4
<1>8. \A i : IsStored(i)' <=> IsStored(i)
  BY <1>2 DEF IsStored
<1>9. ReportShape'
  BY <1>2, <1>4, <1>6, Zenon DEF ReportInv, ReportShape
<1>10. RowsRight'
  BY <1>2, <1>4, <1>6, Zenon DEF ReportInv, RowsRight
<1>11. ThreadsInOrder'
  <2>1. \A g \in Threads : HasReport(g)' => made'[serving'[g].report].line = serving'[g].line
    BY <1>6, <1>7 DEF ReportInv, ThreadsInOrder
  <2>2. turns # <<>> /\ turns[1] = h
    <3>1. PICK i \in DOMAIN turns : turns[i] = h
      BY <1>3 DEF ReportInv, ThreadsInOrder
    <3>2. turns # <<>>
      BY <3>1
    <3> QED
      BY <1>1, <1>2, <3>2
  <2>3. ASSUME NEW g \in Threads
        PROVE  /\ serving'[g].at # "free" => serving'[g].line \in 1..MaxLines
               /\ serving'[g].report \in Made \cup {0}
               /\ HasReport(g)' => /\ serving'[g].report \in Made
                                  /\ \E i \in DOMAIN turns : turns[i] = g
               /\ serving'[g].at = "writing" => turns # <<>> /\ turns[1] = g
    BY <1>6, <2>2 DEF ReportInv, ThreadsInOrder
  <2>4. (\A i \in DOMAIN turns : HasReport(turns[i]))'
    <3>1. \A i \in DOMAIN turns : turns[i] \in Threads /\ HasReport(turns[i])
      BY <1>1 DEF ReportInv, ThreadsInOrder
    <3> QED
      BY <1>2, <1>6, <3>1
  <2> QED
    BY <1>2, <1>4, <2>1, <2>3, <2>4 DEF ReportInv, ThreadsInOrder
<1>12. LinesInOrder'
  <2>1. \A i, j \in cached :
            made'[i].line = made'[j].line /\ made'[i].line \notin removed \cup {0} => i = j
    BY <1>7 DEF ReportInv, ReportShape, LinesInOrder
  <2>2. \A r \in stored : made'[r.id].line \notin removed \cup {0} => r.id \in cached
    BY <1>7 DEF ReportInv, ReportShape, LinesInOrder
  <2>3. \A g \in Threads : HasReport(g)' /\ serving'[g].line \notin removed =>
            serving'[g].report \in cached
    BY <1>6 DEF ReportInv, LinesInOrder
  <2>4. \A m \in answered \ removed : m # 0 => \E r \in stored : made'[r.id].line = m
    BY <1>7 DEF ReportInv, ReportShape, LinesInOrder
  <2> QED
    BY <1>2, <2>1, <2>2, <2>3, <2>4, Zenon DEF LinesInOrder
<1>13. \A i \in Made : made[i].position \in Nat /\ made[i].position <= highest
  BY <1>1, EntryFields DEF ReportInv, PositionsInOrder
<1>14. made[id].position > 0 => IsStored(id) \/ id \in troubled \/ serving[h].line \in removed
  <2>1. ~ IsWritten(id)
    BY <1>2 DEF IsWritten
  <2>2. serving[h].line \notin removed => id \in cached
    BY <1>3, <1>6 DEF ReportInv, LinesInOrder
  <2> QED
    BY <1>3, <2>1, <2>2 DEF ReportInv, PositionsInOrder
<1>15. made[id].position = 0 => ~ IsStored(id)
  BY DEF IsStored, ReportInv, PositionsInOrder
<1>16. PositionsInOrder'
  <2>1. \A i \in Made' : made'[i].position <= highest'
    BY <1>1, <1>3, <1>4, <1>13
  <2>2. \A i, j \in Made' : made'[i].position = made'[j].position /\ made'[i].position > 0 => i = j
    <3>1. \A i, j \in Made : made[i].position = made[j].position /\ made[i].position > 0 => i = j
      BY DEF ReportInv, PositionsInOrder
    <3>2. CASE made[id].position > 0
      <4>1. \A i \in Made : made'[i].position = made[i].position
        BY <1>4, <3>2
      <4> QED
        BY <1>4, <3>1, <4>1
    <3>3. CASE made[id].position = 0
      <4>1. /\ made'[id].position = highest + 1
            /\ \A i \in Made : i # id => made'[i].position = made[i].position
        BY <1>4, <3>3
      <4>2. \A i \in Made : i # id => made'[i].position # made'[id].position
        BY <1>1, <1>13, <4>1
      <4> QED
        BY <1>4, <3>1, <4>1, <4>2
    <3> QED
      BY <1>13, <3>2, <3>3
  <2>3. \A r \in stored : r.position = made'[r.id].position /\ r.position > 0
    <3>1. \A r \in stored : r.id \in Made /\ r.position = made[r.id].position /\ r.position > 0
      BY DEF ReportInv, ReportShape, PositionsInOrder
    <3>2. \A r \in stored : r.id = id => made'[id].position = made[id].position
      BY <1>4, <1>15 DEF IsStored
    <3> QED
      BY <1>4, <3>1, <3>2
  <2>4. \A g \in Threads : serving'[g].at = "writing" =>
            manual = 0 /\ made'[serving'[g].report].position > 0
    BY <1>2, <1>4, <1>6
  <2>5. \A i \in cached : made'[i].position > 0 /\ made'[i].line \notin removed \cup {0} =>
            IsStored(i)' \/ i \in troubled \/ IsWritten(i)'
    <3>1. IsWritten(id)'
      BY <1>6 DEF IsWritten
    <3>2. ASSUME NEW i \in cached, i # id, made'[i].position > 0,
                 made'[i].line \notin removed \cup {0}
          PROVE  IsStored(i) \/ i \in troubled
      <4>1. made'[i] = made[i]
        BY <1>4, <3>2 DEF ReportInv, ReportShape
      <4>2. ~ IsWritten(i)
        BY <1>2 DEF IsWritten
      <4> QED
        BY <3>2, <4>1, <4>2 DEF ReportInv, PositionsInOrder
    <3> QED
      BY <1>8, <3>1, <3>2
  <2> QED
    BY <1>2, <2>1, <2>2, <2>3, <2>4, <2>5, Zenon DEF PositionsInOrder
<1>17. StreamInOrder'
  <2>1. follower.cursor <= highest' /\ follower.start <= highest' /\ follower \in Followers
        /\ follower.cursor \in Nat /\ follower.start \in Nat
    <3>1. follower.cursor \in Nat /\ follower.start \in Nat
      BY Zenon DEF ReportInv, StreamInOrder, Followers
    <3>2. follower.cursor <= highest /\ follower.start <= highest /\ follower \in Followers
      BY DEF ReportInv, StreamInOrder
    <3> QED
      BY <1>1, <1>4, <3>1, <3>2
  <2>2. StreamSkipsNothing'
    <3>1. \A r \in stored : made'[r.id].line = made[r.id].line
      BY <1>7 DEF ReportInv, ReportShape
    <3> QED
      BY <1>2, <3>1, Zenon DEF ReportInv, StreamInOrder, StreamSkipsNothing
  <2>3. IsAhead(id)' \/ IsStored(id)' \/ id \in troubled' \/ serving[h].line \in removed'
    <3>1. CASE made[id].position > 0
      BY <1>2, <1>8, <1>14, <3>1
    <3>2. CASE made[id].position = 0
      <4>1. made'[id].position = highest + 1
        BY <1>4, <3>2
      <4>2. \A r \in stored : r.position <= highest /\ r.position \in Nat
        BY <1>13 DEF ReportInv, ReportShape, PositionsInOrder
      <4>3. follower.cursor <= highest
        BY DEF ReportInv, StreamInOrder
      <4>4. IsAhead(id)'
        BY <1>1, <1>2, <2>1, <4>1, <4>2, <4>3 DEF IsAhead
      <4> QED
        BY <4>4
    <3> QED
      BY <1>3, <1>13, <3>1, <3>2
  <2>4. ASSUME NEW g \in Threads, serving'[g].at = "writing"
        PROVE  (\/ IsStored(serving[g].report)
                \/ serving[g].report \in troubled
                \/ serving[g].line \in removed
                \/ IsAhead(serving[g].report))'
    <3>1. g = h
      BY <1>6, <2>4
    <3> QED
      BY <1>6, <2>3, <3>1 DEF IsStored, IsAhead
  <2> QED
    BY <1>2, <1>4, <2>1, <2>2, <2>4 DEF ReportInv, StreamInOrder
<1> QED
  BY <1>9, <1>10, <1>11, <1>12, <1>16, <1>17 DEF ReportInv

\* A row is put there with the position its report has in memory; one that is there
\* stays as it is.
LEMMA RowIsPut ==
    ASSUME ReportInv, NEW id \in Made, made[id].position > 0, stored' = Upserted(id)
    PROVE  /\ stored \subseteq stored' /\ stored' \subseteq Filed
           /\ \E r \in stored' : r.id = id
           /\ \A r \in stored' : \/ r \in stored
                                 \/ r.id = id /\ r.position = made[id].position /\ ~ IsStored(id)
           /\ \A r \in stored' : r.id \in Made /\ r.position = made[r.id].position /\ r.position > 0
<1>1. made \in Seq(Entries) /\ stored \subseteq Filed
  BY DEF ReportInv, ReportShape
<1>2. id \in Nat /\ made[id].position \in Nat
  BY <1>1, EntryFields
<1> DEFINE fresh == [id |-> id, position |-> made[id].position]
<1>3. fresh \in Filed /\ fresh.id = id /\ fresh.position = made[id].position
  BY <1>2 DEF Filed
<1>4. \/ IsStored(id) /\ stored' = stored
      \/ ~ IsStored(id) /\ stored' = stored \cup {fresh}
  BY DEF Upserted, IsStored
<1>5. \A r \in stored : r.id \in Made /\ r.position = made[r.id].position /\ r.position > 0
  BY DEF ReportInv, ReportShape, PositionsInOrder
<1> HIDE DEF fresh
<1> QED
  BY <1>1, <1>3, <1>4, <1>5 DEF IsStored

\* A thread is through with its report: the row is there, or its first transaction has
\* failed.
LEMMA EndKeeps ==
    ASSUME ReportInv, NEW h \in Threads, serving[h].at = "writing",
           serving' = [serving EXCEPT ![h] = Idle], turns' = Tail(turns),
           UNCHANGED <<manual, made, cached, highest, live, follower, removed>>,
           \/ /\ stored' = Upserted(serving[h].report) /\ liveRow' = serving[h].row
              /\ troubled' = troubled
              /\ answered' = answered \/ answered' = answered \cup {serving[h].line}
           \/ /\ stored' = stored /\ liveRow' = liveRow
              /\ troubled' = troubled \cup {serving[h].report} /\ answered' = answered
    PROVE  ReportInv'
<1>0. PICK id \in Made : id = serving[h].report
  BY DEF ReportInv, ThreadsInOrder, HasReport
<1>1. /\ serving \in [Threads -> Servings] /\ turns \in Seq(Threads) /\ made \in Seq(Entries)
      /\ highest \in Nat /\ live \in ChannelRows(Made) /\ stored \subseteq Filed
  BY DEF ReportInv, ReportShape, RowsRight
<1>2. /\ HasReport(h) /\ made[id].line = serving[h].line /\ serving[h].line \in 1..MaxLines
      /\ serving[h].line # 0 /\ turns # <<>> /\ turns[1] = h
      /\ manual = 0 /\ made[id].position > 0
      /\ serving[h].row \in ChannelRows(Made) /\ RowRight(serving[h].row)
      /\ serving[h].line \notin removed => id \in cached
  BY <1>0 DEF ReportInv, ThreadsInOrder, HasReport, PositionsInOrder, RowsRight, LinesInOrder
<1>3. Serves(h, "free", 0, 0, Blank)
  <2>1. "free" \in Stages /\ 0 \in 0..MaxLines /\ 0 \in Nat /\ live \in ChannelRows(Nat)
    <3>1. Made \subseteq Nat
      BY <1>1, EntryFields
    <3>2. live \in ChannelRows(Nat)
      BY <1>1, <3>1, MoreReports
    <3> QED
      BY <3>2, LineNumbers DEF Stages
  <2> QED
    BY <1>1, <2>1, ThreadGoes
<1>4. /\ serving' \in [Threads -> Servings] /\ serving'[h].at = "free" /\ serving'[h].report = 0
      /\ \A g \in Threads : g # h => serving'[g] = serving[g]
  BY <1>3 DEF Serves
<1>5. \A g \in Threads : g # h => serving[g].at # "writing"
  BY <1>2 DEF ReportInv, ThreadsInOrder
<1>6. \A g \in Threads : /\ serving'[g].at # "writing"
                         /\ HasReport(g)' <=> (g # h /\ HasReport(g))
  BY <1>4, <1>5 DEF HasReport
<1>7. /\ stored \subseteq stored' /\ stored' \subseteq Filed
      /\ \A r \in stored' : \/ r \in stored
                            \/ r.id = id /\ r.position = made[id].position /\ ~ IsStored(id)
      /\ \A r \in stored' : r.id \in Made /\ r.position = made[r.id].position /\ r.position > 0
      /\ (\E r \in stored' : r.id = id) \/ (answered' = answered /\ id \in troubled')
      /\ answered' = answered \/ answered' = answered \cup {serving[h].line}
      /\ troubled \subseteq troubled' /\ troubled' \subseteq troubled \cup {id}
  <2>1. CASE stored' = Upserted(id) /\ troubled' = troubled
             /\ (answered' = answered \/ answered' = answered \cup {serving[h].line})
    BY <1>2, <2>1, RowIsPut
  <2>2. CASE stored' = stored /\ troubled' = troubled \cup {id} /\ answered' = answered
    BY <1>1, <2>2 DEF ReportInv, ReportShape, PositionsInOrder
  <2> QED
    BY <1>0, <2>1, <2>2
<1>8. /\ manual' = manual /\ made' = made /\ cached' = cached /\ highest' = highest
      /\ live' = live /\ follower' = follower /\ removed' = removed /\ Made' = Made
  BY DEF Made
<1>9. /\ DOMAIN turns = 1..Len(turns) /\ Len(turns) \in Nat /\ turns' \in Seq(Threads)
      /\ DOMAIN turns' = 1..(Len(turns) - 1)
      /\ \A i \in 1..(Len(turns) - 1) : turns'[i] = turns[i + 1]
  BY <1>1, <1>2
<1>10. ReportShape'
  <2>1. troubled' \subseteq Made /\ \A r \in stored' : r.id \in Made
    BY <1>7 DEF ReportInv, ReportShape
  <2>2. answered' \subseteq 0..MaxLines
    <3>1. answered \subseteq 0..MaxLines /\ serving[h].line \in 0..MaxLines
      BY <1>1, ServingFields DEF ReportInv, ReportShape
    <3> QED
      BY <1>7, <3>1
  <2> QED
    BY <1>4, <1>7, <1>8, <1>9, <2>1, <2>2, Zenon DEF ReportInv, ReportShape
<1>11. RowsRight'
  <2>1. liveRow' \in ChannelRows(Made) /\ RowRight(liveRow')
    <3>1. liveRow \in ChannelRows(Made) /\ RowRight(liveRow)
      BY DEF ReportInv, RowsRight
    <3>2. liveRow' = liveRow \/ liveRow' = serving[h].row
      OBVIOUS
    <3> QED
      BY <1>2, <3>1, <3>2, Zenon
  <2>2. \A g \in Threads : HasReport(g)' =>
            serving'[g].row \in ChannelRows(Made) /\ RowRight(serving'[g].row)
    <3>1. \A g \in Threads : HasReport(g)' => serving'[g] = serving[g] /\ HasReport(g)
      BY <1>4, <1>6
    <3> QED
      BY <3>1, Zenon DEF ReportInv, RowsRight
  <2> QED
    BY <1>8, <2>1, <2>2, Zenon DEF ReportInv, RowsRight
<1>12. ThreadsInOrder'
  <2>1. ASSUME NEW g \in Threads, HasReport(g)'
        PROVE  /\ serving'[g].report \in Made
               /\ made[serving'[g].report].line = serving'[g].line
               /\ \E i \in DOMAIN turns' : turns'[i] = g
    <3>1. g # h /\ HasReport(g) /\ serving'[g] = serving[g]
      BY <1>4, <1>6, <2>1
    <3>2. PICK i \in DOMAIN turns : turns[i] = g
      BY <3>1 DEF ReportInv, ThreadsInOrder
    <3>3. i # 1
      BY <1>2, <3>1, <3>2
    <3>4. i - 1 \in DOMAIN turns' /\ turns'[i - 1] = g
      BY <1>9, <3>2, <3>3
    <3> QED
      BY <3>1, <3>4 DEF ReportInv, ThreadsInOrder
  <2>2. \A i \in DOMAIN turns' : i + 1 \in DOMAIN turns /\ turns'[i] = turns[i + 1]
    BY <1>9
  <2>3. (\A i \in DOMAIN turns : HasReport(turns[i]))'
    <3>1. ASSUME NEW i \in DOMAIN turns'
          PROVE  turns'[i] \in Threads /\ turns'[i] # h /\ HasReport(turns[i + 1])
                 /\ turns'[i] = turns[i + 1]
      <4>1. i + 1 \in DOMAIN turns /\ turns'[i] = turns[i + 1] /\ i + 1 # 1 /\ 1 \in DOMAIN turns
        BY <1>2, <1>9
      <4> QED
        BY <1>2, <1>9, <4>1 DEF ReportInv, ThreadsInOrder
    <3>2. \A g : g \in Threads /\ g # h /\ HasReport(g) => HasReport(g)'
      BY <1>6
    <3> QED
      BY <3>1, <3>2
  <2>4. \A i, j \in DOMAIN turns' : turns'[i] = turns'[j] => i = j
    <3>1. \A i, j \in DOMAIN turns : turns[i] = turns[j] => i = j
      BY DEF ReportInv, ThreadsInOrder
    <3> QED
      BY <1>9, <2>2, <3>1
  <2>5. ASSUME NEW g \in Threads
        PROVE  /\ serving'[g].at # "free" => serving'[g].line \in 1..MaxLines
               /\ serving'[g].report \in Made \cup {0}
    BY <1>4 DEF ReportInv, ThreadsInOrder
  <2> QED
    BY <1>6, <1>8, <2>1, <2>3, <2>4, <2>5 DEF ThreadsInOrder
<1>13. LinesInOrder'
  <2>1. \A i, j \in cached :
            made[i].line = made[j].line /\ made[i].line \notin removed \cup {0} => i = j
    BY DEF ReportInv, LinesInOrder
  <2>2. \A r \in stored' : made[r.id].line \notin removed \cup {0} => r.id \in cached
    BY <1>2, <1>7 DEF ReportInv, LinesInOrder
  <2>3. \A g \in Threads : HasReport(g)' /\ serving'[g].line \notin removed =>
            serving'[g].report \in cached
    BY <1>4, <1>6 DEF ReportInv, LinesInOrder
  <2>4. \A m \in answered' \ removed : m # 0 => \E r \in stored' : made[r.id].line = m
    <3>1. ASSUME NEW m \in answered \ removed, m # 0
          PROVE  \E r \in stored' : made[r.id].line = m
      BY <1>7, <3>1 DEF ReportInv, LinesInOrder
    <3>2. answered' # answered => \E r \in stored' : made[r.id].line = serving[h].line
      BY <1>2, <1>7
    <3> QED
      BY <1>7, <3>1, <3>2
  <2> QED
    BY <1>8, <2>1, <2>2, <2>3, <2>4, Zenon DEF LinesInOrder
<1>14. \A i : IsStored(i) => IsStored(i)'
  BY <1>7 DEF IsStored
<1>15. PositionsInOrder'
  <2>1. \A i \in cached : made[i].position > 0 /\ made[i].line \notin removed \cup {0} =>
            IsStored(i)' \/ i \in troubled' \/ IsWritten(i)'
    <3>1. \A i \in cached : IsWritten(i) => i = id
      BY <1>0, <1>5 DEF IsWritten
    <3>2. IsStored(id)' \/ id \in troubled'
      BY <1>7 DEF IsStored
    <3> QED
      BY <1>7, <1>14, <3>1, <3>2 DEF ReportInv, PositionsInOrder
  <2> QED
    BY <1>2, <1>6, <1>7, <1>8, <2>1 DEF ReportInv, PositionsInOrder
<1>16. StreamInOrder'
  <2>1. StreamSkipsNothing'
    <3> SUFFICES ASSUME NEW r \in stored', r.position \in (follower.start + 1)..follower.cursor,
                        r.id \notin troubled', made[r.id].line \notin removed
                 PROVE  r.id \in follower.told
      BY <1>8, Zenon DEF StreamSkipsNothing
    <3>1. r.id \notin troubled
      BY <1>7
    <3>2. CASE r \in stored
      BY <3>1, <3>2 DEF ReportInv, StreamInOrder, StreamSkipsNothing
    <3>3. CASE r \notin stored
      <4>1. r.id = id /\ r.position = made[id].position /\ ~ IsStored(id)
        BY <1>7, <3>3
      <4>2. IsAhead(id)
        BY <1>0, <1>2, <3>1, <4>1 DEF ReportInv, StreamInOrder
      <4>3. follower.cursor \in Nat /\ follower.start \in Nat /\ made[id].position \in Nat
        <5>1. follower.cursor \in Nat /\ follower.start \in Nat
          BY Zenon DEF ReportInv, StreamInOrder, Followers
        <5> QED
          BY <1>1, <5>1, EntryFields
      <4> QED
        BY <4>1, <4>2, <4>3 DEF IsAhead
    <3> QED
      BY <3>2, <3>3
  <2> QED
    BY <1>2, <1>6, <1>8, <2>1, Zenon DEF ReportInv, StreamInOrder
<1> QED
  BY <1>10, <1>11, <1>12, <1>13, <1>15, <1>16 DEF ReportInv

\* A report written by hand is made and has its position at once.
LEMMA AddKeeps ==
    ASSUME ReportInv, AddReport
    PROVE  ReportInv'
<1> DEFINE fresh == [line |-> 0, position |-> 0]
           reports == Append(made, fresh)
<1>1. /\ serving \in [Threads -> Servings] /\ made \in Seq(Entries) /\ highest \in Nat
      /\ stored \subseteq Filed
  BY DEF ReportInv, ReportShape
<1>2. PICK id \in Nat : id = Len(made) + 1
  BY <1>1
<1>3. fresh \in Entries /\ fresh.line = 0 /\ fresh.position = 0
  BY LineNumbers DEF Entries
<1>4. /\ manual = 0 /\ \A g \in Threads : serving[g].at # "writing"
      /\ Positioned(reports, id) /\ cached' = cached \cup {Len(made')} /\ manual' = Len(made')
      /\ serving' = serving /\ turns' = turns /\ live' = live /\ stored' = stored
      /\ liveRow' = liveRow /\ follower' = follower /\ troubled' = troubled
      /\ removed' = removed /\ answered' = answered
  BY <1>2 DEF AddReport, PositionsFree, history
<1> HIDE DEF fresh
<1>5. /\ DOMAIN made = 1..Len(made) /\ Len(made) \in Nat /\ Made = 1..Len(made)
      /\ reports \in Seq(Entries) /\ DOMAIN reports = 1..id /\ reports[id] = fresh
      /\ \A i \in 1..Len(made) : reports[i] = made[i]
  BY <1>1, <1>2, <1>3 DEF Made
<1> HIDE DEF reports
<1>6. /\ made' \in Seq(Entries) /\ Made' = DOMAIN reports
      /\ \A i \in DOMAIN reports : i # id => made'[i] = reports[i]
      /\ made'[id].line = reports[id].line /\ made'[id].position > 0 /\ highest' \in Nat
      /\ \/ reports[id].position > 0
         \/ highest' = highest + 1 /\ made'[id].position = highest'
  <2>1. id \in DOMAIN reports
    BY <1>2, <1>5
  <2> QED
    BY <1>1, <1>4, <1>5, <2>1, GetsPosition
<1>7. /\ Made' = Made \cup {id} /\ id \notin Made /\ \A i \in Made : made'[i] = made[i]
      /\ made'[id].line = 0 /\ made'[id].position = highest + 1 /\ highest' = highest + 1
      /\ cached' = cached \cup {id} /\ manual' = id /\ id # 0
  <2>1. Len(made') = id
    BY <1>2, <1>5, <1>6 DEF Made
  <2>2. Made' = Made \cup {id} /\ id \notin Made /\ \A i \in Made : i # id /\ i \in DOMAIN reports
    BY <1>2, <1>5, <1>6
  <2> QED
    BY <1>2, <1>3, <1>4, <1>5, <1>6, <2>1, <2>2
<1>8. \A i \in Made : made[i].position \in Nat /\ made[i].position <= highest
  BY <1>1, EntryFields DEF ReportInv, PositionsInOrder
<1>9. (\A i : IsStored(i)' <=> IsStored(i)) /\ (\A i : IsWritten(i)' <=> IsWritten(i))
  BY <1>4 DEF IsStored, IsWritten
<1>10. ReportShape'
  BY <1>4, <1>6, <1>7 DEF ReportInv, ReportShape
<1>11. RowsRight'
  <2>1. Made \subseteq Made'
    BY <1>7
  <2>2. \A row \in ChannelRows(Made) : row \in ChannelRows(Made')
    BY <2>1, MoreReports
  <2> QED
    BY <1>4, <2>2, Zenon DEF ReportInv, RowsRight, HasReport
<1>12. ThreadsInOrder'
  BY <1>4, <1>7 DEF ReportInv, ThreadsInOrder, HasReport
<1>13. LinesInOrder'
  <2>1. \A i, j \in cached' :
            made'[i].line = made'[j].line /\ made'[i].line \notin removed \cup {0} => i = j
    BY <1>7 DEF ReportInv, ReportShape, LinesInOrder
  <2>2. \A r \in stored : made'[r.id].line \notin removed \cup {0} => r.id \in cached'
    BY <1>7 DEF ReportInv, ReportShape, LinesInOrder
  <2>3. \A m \in answered \ removed : m # 0 => \E r \in stored : made'[r.id].line = m
    BY <1>7 DEF ReportInv, ReportShape, LinesInOrder
  <2>4. \A h \in Threads : HasReport(h) /\ serving[h].line \notin removed =>
            serving[h].report \in cached'
    BY <1>7 DEF ReportInv, LinesInOrder
  <2> QED
    BY <1>4, <2>1, <2>2, <2>3, <2>4, Zenon DEF LinesInOrder, HasReport
<1>14. PositionsInOrder'
  <2>1. \A i \in Made' : made'[i].position <= highest'
    BY <1>1, <1>7, <1>8
  <2>2. \A i, j \in Made' : made'[i].position = made'[j].position /\ made'[i].position > 0 => i = j
    <3>1. \A i, j \in Made : made[i].position = made[j].position /\ made[i].position > 0 => i = j
      BY DEF ReportInv, PositionsInOrder
    <3>2. \A i \in Made : made'[i].position # made'[id].position
      BY <1>1, <1>7, <1>8
    <3> QED
      BY <1>7, <3>1, <3>2
  <2>3. \A r \in stored : r.position = made'[r.id].position /\ r.position > 0
    BY <1>7 DEF ReportInv, ReportShape, PositionsInOrder
  <2>4. \A i \in cached' : made'[i].position > 0 /\ made'[i].line \notin removed \cup {0} =>
            IsStored(i) \/ i \in troubled \/ IsWritten(i)
    BY <1>7 DEF ReportInv, ReportShape, PositionsInOrder
  <2> QED
    BY <1>4, <1>6, <1>7, <1>9, <2>1, <2>2, <2>3, <2>4 DEF PositionsInOrder
<1>15. StreamInOrder'
  <2>1. follower.cursor <= highest' /\ follower.start <= highest'
        /\ follower.cursor \in Nat /\ follower.cursor < made'[id].position
    <3>1. follower.cursor \in Nat /\ follower.start \in Nat
      BY Zenon DEF ReportInv, StreamInOrder, Followers
    <3>2. follower.cursor <= highest /\ follower.start <= highest
      BY DEF ReportInv, StreamInOrder
    <3> QED
      BY <1>1, <1>7, <3>1, <3>2
  <2>2. StreamSkipsNothing'
    <3>1. \A r \in stored : made'[r.id].line = made[r.id].line
      BY <1>7 DEF ReportInv, ReportShape
    <3> QED
      BY <1>4, <3>1, Zenon DEF ReportInv, StreamInOrder, StreamSkipsNothing
  <2>3. IsAhead(manual)'
    <3>1. \A r \in stored : r.position < made'[id].position
      BY <1>1, <1>7, <1>8 DEF ReportInv, ReportShape, PositionsInOrder
    <3> QED
      BY <1>4, <1>7, <2>1, <3>1 DEF IsAhead
  <2>4. follower.told \subseteq Made'
    BY <1>7 DEF ReportInv, StreamInOrder
  <2> QED
    BY <1>4, <2>1, <2>2, <2>3, <2>4 DEF ReportInv, StreamInOrder
<1> QED
  BY <1>10, <1>11, <1>12, <1>13, <1>14, <1>15 DEF ReportInv

\* Its row is put there, or its transaction fails and nobody tries again.
LEMMA ManualKeeps ==
    ASSUME ReportInv, CommitManual \/ FailManual
    PROVE  ReportInv'
<1>1. /\ manual # 0 /\ manual' = 0
      /\ UNCHANGED <<serving, turns, made, cached, live, highest, liveRow, follower, troubled,
                     removed, answered>>
      /\ stored' = stored \/ stored' = Upserted(manual)
  BY DEF CommitManual, FailManual, caches, tables, history
<1>2. PICK id \in Made : id = manual /\ made[id].line = 0 /\ made[id].position > 0
  BY <1>1 DEF ReportInv, ReportShape, PositionsInOrder
<1>3. /\ stored \subseteq stored' /\ stored' \subseteq Filed
      /\ \A r \in stored' : \/ r \in stored
                            \/ r.id = id /\ r.position = made[id].position /\ ~ IsStored(id)
      /\ \A r \in stored' : r.id \in Made /\ r.position = made[r.id].position /\ r.position > 0
  <2>1. CASE stored' = stored
    BY <2>1 DEF ReportInv, ReportShape, PositionsInOrder
  <2>2. CASE stored' = Upserted(id)
    BY <1>2, <2>2, RowIsPut
  <2> QED
    BY <1>1, <1>2, <2>1, <2>2
<1>4. /\ serving' = serving /\ turns' = turns /\ made' = made /\ cached' = cached /\ live' = live
      /\ highest' = highest /\ liveRow' = liveRow /\ follower' = follower
      /\ troubled' = troubled /\ removed' = removed /\ answered' = answered /\ Made' = Made
  BY <1>1 DEF Made
<1>5. (\A i : IsStored(i) => IsStored(i)') /\ (\A i : IsWritten(i)' <=> IsWritten(i))
  BY <1>3, <1>4 DEF IsStored, IsWritten
<1>6. ReportShape'
  BY <1>1, <1>3, <1>4 DEF ReportInv, ReportShape
<1>7. RowsRight'
  BY <1>4, Zenon DEF ReportInv, RowsRight, HasReport
<1>8. ThreadsInOrder'
  BY <1>4, Zenon DEF ReportInv, ThreadsInOrder, HasReport
<1>9. LinesInOrder'
  <2>1. \A r \in stored' : made[r.id].line \notin removed \cup {0} => r.id \in cached
    BY <1>2, <1>3 DEF ReportInv, LinesInOrder
  <2>2. \A m \in answered \ removed : m # 0 => \E r \in stored' : made[r.id].line = m
    BY <1>3 DEF ReportInv, LinesInOrder
  <2> QED
    BY <1>4, <2>1, <2>2, Zenon DEF ReportInv, LinesInOrder, HasReport
<1>10. PositionsInOrder'
  <2>1. \A i \in cached : made[i].position > 0 /\ made[i].line \notin removed \cup {0} =>
            IsStored(i)' \/ i \in troubled \/ IsWritten(i)'
    BY <1>5 DEF ReportInv, PositionsInOrder
  <2>2. \A h \in Threads : serving[h].at # "writing"
    BY <1>1 DEF ReportInv, PositionsInOrder
  <2> QED
    BY <1>1, <1>3, <1>4, <2>1, <2>2 DEF ReportInv, PositionsInOrder
<1>11. StreamInOrder'
  <2>1. StreamSkipsNothing'
    <3> SUFFICES ASSUME NEW r \in stored', r.position \in (follower.start + 1)..follower.cursor,
                        r.id \notin troubled, made[r.id].line \notin removed
                 PROVE  r.id \in follower.told
      BY <1>4, Zenon DEF StreamSkipsNothing
    <3>1. follower.cursor \in Nat /\ follower.start \in Nat
      BY Zenon DEF ReportInv, StreamInOrder, Followers
    <3>2. made[id].position > follower.cursor /\ made[id].position \in Nat
      BY <1>1, <1>2, EntryFields DEF ReportInv, ReportShape, StreamInOrder, IsAhead
    <3>3. r \in stored
      BY <1>3, <3>1, <3>2
    <3> QED
      BY <3>3 DEF ReportInv, StreamInOrder, StreamSkipsNothing
  <2>2. \A h \in Threads : serving[h].at # "writing"
    BY <1>1 DEF ReportInv, PositionsInOrder
  <2> QED
    BY <1>1, <1>4, <2>1, <2>2, Zenon DEF ReportInv, StreamInOrder
<1> QED
  BY <1>6, <1>7, <1>8, <1>9, <1>10, <1>11 DEF ReportInv

\* A transaction is through, or has failed.
LEMMA CommitReportKeeps ==
    ASSUME ReportInv, NEW h \in Threads, CommitReport(h)
    PROVE  ReportInv'
<1>1. /\ serving[h].at = "writing" /\ serving' = [serving EXCEPT ![h] = Idle]
      /\ turns' = Tail(turns) /\ stored' = Upserted(serving[h].report)
      /\ liveRow' = serving[h].row /\ troubled' = troubled
      /\ answered' = answered \cup {serving[h].line}
      /\ UNCHANGED <<manual, made, cached, highest, live, follower, removed>>
  BY DEF CommitReport, caches
<1>2. answered' = answered \/ answered' = answered \cup {serving[h].line}
  BY <1>1
<1> QED
  BY <1>1, <1>2, EndKeeps, Zenon

LEMMA FailReportKeeps ==
    ASSUME ReportInv, NEW h \in Threads, NEW done \in BOOLEAN, FailReport(h, done)
    PROVE  ReportInv'
<1>1. /\ serving[h].at = "writing" /\ serving' = [serving EXCEPT ![h] = Idle]
      /\ turns' = Tail(turns) /\ answered' = answered
      /\ UNCHANGED <<manual, made, cached, highest, live, follower, removed>>
      /\ stored' = IF done THEN Upserted(serving[h].report) ELSE stored
      /\ liveRow' = IF done THEN serving[h].row ELSE liveRow
      /\ troubled' = troubled \cup (IF done THEN {} ELSE {serving[h].report})
  BY Zenon DEF FailReport, caches
<1>2. CASE done
  <2>1. troubled' = troubled
    BY <1>1, <1>2
  <2>2. stored' = Upserted(serving[h].report) /\ liveRow' = serving[h].row
    BY <1>1, <1>2, Zenon
  <2> QED
    BY <1>1, <2>1, <2>2, EndKeeps
<1>3. CASE ~ done
  <2>1. troubled' = troubled \cup {serving[h].report}
    BY <1>1, <1>3, Zenon
  <2>2. stored' = stored /\ liveRow' = liveRow
    BY <1>1, <1>3, Zenon
  <2> QED
    BY <1>1, <2>1, <2>2, EndKeeps
<1> QED
  BY <1>2, <1>3

\* A report is deleted, in memory and in the table.
LEMMA DeleteReportKeeps ==
    ASSUME ReportInv, DeleteReport
    PROVE  ReportInv'
<1>1. /\ manual = 0
      /\ serving' = serving /\ turns' = turns /\ manual' = manual /\ made' = made
      /\ live' = live /\ highest' = highest /\ liveRow' = liveRow /\ follower' = follower
      /\ troubled' = troubled /\ answered' = answered /\ Made' = Made
  BY DEF DeleteReport, Made
<1>2. PICK r \in stored : /\ stored' = stored \ {r} /\ cached' = cached \ {r.id}
                          /\ removed' = removed \cup {made[r.id].line}
  BY DEF DeleteReport, Deletable
<1>3. \A id : IsWritten(id)' <=> IsWritten(id)
  BY <1>1 DEF IsWritten
<1>4. \A id : IsStored(id) => IsStored(id)' \/ made[id].line \in removed'
  BY <1>2 DEF IsStored
<1>5. ReportShape'
  <2>1. r.id \in Made /\ made \in Seq(Entries)
    BY DEF ReportInv, ReportShape
  <2>2. made[r.id].line \in 0..MaxLines
    BY <2>1, EntryFields
  <2> QED
    BY <1>1, <1>2, <2>2 DEF ReportInv, ReportShape
<1>6. RowsRight'
  BY <1>1, Zenon DEF ReportInv, RowsRight, HasReport
<1>7. ThreadsInOrder'
  BY <1>1, Zenon DEF ReportInv, ThreadsInOrder, HasReport
<1>8. LinesInOrder'
  <2>1. \A i, j \in cached' :
            made[i].line = made[j].line /\ made[i].line \notin removed' \cup {0} => i = j
    BY <1>2 DEF ReportInv, LinesInOrder
  <2>2. \A q \in stored' : made[q.id].line \notin removed' \cup {0} => q.id \in cached'
    BY <1>2 DEF ReportInv, LinesInOrder
  <2>3. \A h \in Threads : HasReport(h) /\ serving[h].line \notin removed' =>
            serving[h].report \in cached'
    BY <1>2 DEF ReportInv, LinesInOrder, ThreadsInOrder
  <2>4. \A m \in answered \ removed' : m # 0 => \E q \in stored' : made[q.id].line = m
    BY <1>2 DEF ReportInv, LinesInOrder
  <2> QED
    BY <1>1, <2>1, <2>2, <2>3, <2>4, Zenon DEF LinesInOrder, HasReport
<1>9. PositionsInOrder'
  <2>1. \A id \in cached' : made[id].position > 0 /\ made[id].line \notin removed' \cup {0} =>
            IsStored(id)' \/ id \in troubled \/ IsWritten(id)
    BY <1>2, <1>4 DEF ReportInv, PositionsInOrder
  <2>2. \A q \in stored' : q \in stored
    BY <1>2
  <2> QED
    BY <1>1, <1>3, <2>1, <2>2, Zenon DEF ReportInv, PositionsInOrder
<1>10. StreamInOrder'
  <2>1. StreamSkipsNothing'
    BY <1>1, <1>2 DEF ReportInv, StreamInOrder, StreamSkipsNothing
  <2>2. ASSUME NEW h \in Threads, serving[h].at = "writing"
        PROVE  (\/ IsStored(serving[h].report)
                \/ serving[h].report \in troubled
                \/ serving[h].line \in removed
                \/ IsAhead(serving[h].report))'
    <3>1. made[serving[h].report].line = serving[h].line
      BY <2>2 DEF ReportInv, ThreadsInOrder, HasReport
    <3>2. IsStored(serving[h].report) =>
              IsStored(serving[h].report)' \/ serving[h].line \in removed'
      BY <1>1, <1>2, <3>1 DEF IsStored
    <3>3. IsAhead(serving[h].report) => IsAhead(serving[h].report)'
      BY <1>1, <1>2 DEF IsAhead
    <3> QED
      BY <1>1, <1>2, <2>2, <3>2, <3>3 DEF ReportInv, StreamInOrder
  <2> QED
    BY <1>1, <2>1, <2>2, Zenon DEF ReportInv, StreamInOrder
<1> QED
  BY <1>5, <1>6, <1>7, <1>8, <1>9, <1>10 DEF ReportInv

\* A new process: no thread has anything in hand, and memory is what is stored.
LEMMA RestartReportsKeeps ==
    ASSUME ReportInv, RestartReports
    PROVE  ReportInv'
<1>1. /\ serving \in [Threads -> Servings] /\ made \in Seq(Entries) /\ stored \subseteq Filed
      /\ \A r \in stored : r.id \in Made /\ r.position = made[r.id].position
  BY DEF ReportInv, ReportShape, PositionsInOrder
<1>2. /\ live' = liveRow /\ serving' = [g \in Threads |-> Idle] /\ turns' = <<>> /\ manual' = 0
      /\ highest' = highest /\ liveRow' = liveRow /\ follower' = follower
      /\ troubled' = troubled /\ answered' = answered
  BY DEF RestartReports
<1> DEFINE read == [id \in DOMAIN made |->
                IF \E r \in stored : r.id = id
                THEN [made[id] EXCEPT !.position = (CHOOSE r \in stored : r.id = id).position]
                ELSE made[id]]
<1>3. PICK old \in SUBSET Deletable :
        /\ stored' = stored \ old /\ cached' = {r.id : r \in stored'}
        /\ removed' = removed \cup {made[r.id].line : r \in old}
        /\ made' = read
  BY DEF RestartReports
<1>4. made' = made
  <2>1. ASSUME NEW id \in DOMAIN made
        PROVE  read[id] = made[id]
    <3>1. made[id] \in Entries
      BY <1>1
    <3>2. CASE \E r \in stored : r.id = id
      <4>1. PICK r \in stored : r = CHOOSE q \in stored : q.id = id
        BY <3>2
      <4>2. r.id = id
        BY <3>2, <4>1
      <4>3. r.position = made[id].position
        BY <1>1, <4>2
      <4>4. read[id] = [made[id] EXCEPT !.position = r.position]
        BY <3>2, <4>1
      <4> QED
        BY <3>1, <4>3, <4>4 DEF Entries
    <3>3. CASE ~ \E r \in stored : r.id = id
      BY <3>3
    <3> QED
      BY <3>2, <3>3
  <2>2. DOMAIN read = DOMAIN made /\ read = [id \in DOMAIN made |-> read[id]]
    OBVIOUS
  <2> HIDE DEF read
  <2>3. made = [id \in DOMAIN made |-> made[id]]
    BY <1>1
  <2> QED
    BY <1>3, <2>1, <2>2, <2>3
<1> HIDE DEF read
<1>5. stored' \subseteq stored /\ Made' = Made
      /\ \A r \in stored : made[r.id].line \notin removed' => r \in stored'
  BY <1>3, <1>4 DEF Made
<1>6. \A g \in Threads : serving'[g].at = "free" /\ serving'[g].report = 0 /\ ~ HasReport(g)'
  BY <1>2, IdleThread DEF HasReport
<1>7. ReportShape'
  <2>1. serving' \in [Threads -> Servings]
    BY <1>2, IdleThread
  <2>2. ASSUME NEW r \in old
        PROVE  made[r.id].line \in 0..MaxLines
    <3>1. r.id \in Made
      BY <1>1 DEF Deletable
    <3> QED
      BY <1>1, <3>1, EntryFields
  <2>3. removed' \subseteq 0..MaxLines
    BY <1>3, <2>2 DEF ReportInv, ReportShape
  <2>4. turns' \in Seq(Threads)
    BY <1>2
  <2> QED
    BY <1>1, <1>2, <1>3, <1>4, <1>5, <2>1, <2>3, <2>4 DEF ReportInv, ReportShape
<1>8. RowsRight'
  BY <1>2, <1>5, <1>6, Zenon DEF ReportInv, RowsRight
<1>9. ThreadsInOrder'
  BY <1>2, <1>6 DEF ThreadsInOrder
<1>10. LinesInOrder'
  <2>1. \A i, j \in cached' :
            made[i].line = made[j].line /\ made[i].line \notin removed' \cup {0} => i = j
    <3>1. ASSUME NEW i \in cached', made[i].line \notin removed' \cup {0}
          PROVE  i \in cached /\ made[i].line \notin removed \cup {0}
      <4>1. PICK r \in stored' : r.id = i
        BY <1>3, <3>1
      <4>2. r \in stored /\ made[r.id].line \notin removed \cup {0}
        BY <1>3, <3>1, <4>1
      <4> QED
        BY <4>1, <4>2 DEF ReportInv, LinesInOrder
    <3> QED
      BY <3>1 DEF ReportInv, LinesInOrder
  <2>2. \A q \in stored' : q.id \in cached'
    BY <1>3
  <2>3. \A m \in answered \ removed' : m # 0 => \E q \in stored' : made[q.id].line = m
    <3>1. ASSUME NEW m \in answered \ removed', m # 0
          PROVE  \E q \in stored' : made[q.id].line = m
      <4>1. m \in answered \ removed
        BY <1>3, <3>1
      <4>2. PICK q \in stored : made[q.id].line = m
        BY <3>1, <4>1 DEF ReportInv, LinesInOrder
      <4> QED
        BY <1>5, <3>1, <4>2
    <3> QED
      BY <3>1
  <2> QED
    BY <1>2, <1>4, <1>6, <2>1, <2>2, <2>3, Zenon DEF LinesInOrder
<1>11. PositionsInOrder'
  <2>1. \A id \in cached' : IsStored(id)'
    BY <1>3 DEF IsStored
  <2> QED
    BY <1>2, <1>4, <1>5, <1>6, <2>1 DEF ReportInv, PositionsInOrder
<1>12. StreamInOrder'
  <2>1. StreamSkipsNothing'
    BY <1>2, <1>3, <1>4 DEF ReportInv, StreamInOrder, StreamSkipsNothing
  <2>2. \A g \in Threads : serving'[g].at # "writing"
    BY <1>6
  <2> QED
    BY <1>2, <1>5, <2>1, <2>2, Zenon DEF ReportInv, StreamInOrder
<1> QED
  BY <1>7, <1>8, <1>9, <1>10, <1>11, <1>12 DEF ReportInv

\* Of some rows there is one of the lowest position, and one of the highest.
LEMMA EndsOfPages ==
    ASSUME ReportInv, NEW S, S \subseteq stored, S # {}
    PROVE  /\ Lowest(S) \in S /\ \A q \in S : Lowest(S).position <= q.position
           /\ Topmost(S) \in S /\ \A q \in S : q.position <= Topmost(S).position
<1> DEFINE places == {r.position : r \in S}
           depths == {highest - r.position : r \in S}
<1>1. \A r \in S : r.position \in Nat /\ r.position <= highest /\ highest \in Nat
  BY DEF ReportInv, ReportShape, PositionsInOrder, Filed
<1>2. \E x \in places : \A y \in places : x <= y
  <2>1. places \subseteq Nat /\ places # {}
    BY <1>1
  <2> HIDE DEF places
  <2> QED
    BY <2>1, LeastNumber
<1>3. \E x \in depths : \A y \in depths : x <= y
  <2>1. depths \subseteq Nat /\ depths # {}
    BY <1>1
  <2> HIDE DEF depths
  <2> QED
    BY <2>1, LeastNumber
<1>4. \E r \in S : \A q \in S : r.position <= q.position
  BY <1>2
<1>5. \E r \in S : \A q \in S : q.position <= r.position
  <2>1. PICK r \in S : \A q \in S : highest - r.position <= highest - q.position
    BY <1>3
  <2> QED
    BY <1>1, <2>1
<1> QED
  BY <1>4, <1>5 DEF Lowest, Topmost

\* A reader reads one page: whatever is written then comes after it.
LEMMA ReadPageKeeps ==
    ASSUME ReportInv, ReadPage
    PROVE  ReportInv'
<1>1. /\ serving' = serving /\ turns' = turns /\ manual' = manual /\ made' = made
      /\ cached' = cached /\ stored' = stored /\ highest' = highest /\ live' = live
      /\ liveRow' = liveRow /\ troubled' = troubled /\ removed' = removed
      /\ answered' = answered /\ Made' = Made
  BY DEF ReadPage, caches, tables, history, Made
<1>2. /\ follower \in Followers /\ follower.cursor \in Nat /\ follower.start \in Nat
      /\ follower.told \subseteq Made /\ follower.start <= highest /\ highest \in Nat
  <2>1. follower \in Followers /\ follower.told \subseteq Made /\ follower.start <= highest
        /\ highest \in Nat
    BY DEF ReportInv, StreamInOrder, ReportShape
  <2> QED
    BY <2>1, Zenon DEF Followers
<1>3. \A r \in stored : /\ r.position \in Nat /\ r.position > 0 /\ r.position <= highest
                        /\ r.id \in Made /\ r.position = made[r.id].position
  BY DEF ReportInv, ReportShape, PositionsInOrder, Filed
<1>4. \A r, q \in stored : r.position = q.position => r.id = q.id
  BY <1>3 DEF ReportInv, PositionsInOrder
<1> DEFINE after == {r \in stored : r.position > follower.cursor}
           Reads(r, start) == /\ follower' \in Followers /\ follower'.start = start
                              /\ follower'.cursor = r.position
                              /\ follower'.told = follower.told \cup {r.id}
<1>5. \E r \in stored : \E start \in Nat :
          /\ Reads(r, start) /\ start <= highest
          /\ \A q \in stored : q.position \in (start + 1)..r.position =>
                \/ q.position = r.position
                \/ q.position \in (follower.start + 1)..follower.cursor
  <2>1. ASSUME NEW r \in stored
        PROVE  /\ {r.id} \subseteq Nat /\ follower.told \cup {r.id} \in SUBSET Nat
               /\ r.position - 1 \in Nat /\ r.position \in Nat /\ TRUE \in BOOLEAN
    BY <1>2, <1>3, EntryFields DEF ReportInv, ReportShape
  <2>2. CASE follower.anchored
    <3>1. PICK r \in stored : r = Lowest(after) /\ r \in after
                              /\ \A q \in after : r.position <= q.position
      BY <2>2, EndsOfPages DEF ReadPage
    <3> DEFINE known == follower.told \cup {r.id}
               place == r.position
    <3>2. follower' = [follower EXCEPT !.cursor = place, !.told = known]
      BY <2>2, <3>1 DEF ReadPage
    <3>3. known \in SUBSET Nat /\ place \in Nat
      BY <2>1
    <3> HIDE DEF known, place
    <3>4. follower' \in Followers /\ follower'.start = follower.start
          /\ follower'.cursor = place /\ follower'.told = known
      BY <1>2, <3>2, <3>3, Zenon DEF Followers
    <3>5. Reads(r, follower.start)
      BY <3>4 DEF known, place
    <3>6. ASSUME NEW q \in stored, q.position \in (follower.start + 1)..r.position
          PROVE  \/ q.position = r.position
                 \/ q.position \in (follower.start + 1)..follower.cursor
      <4>1. q.position > follower.cursor => r.position <= q.position
        BY <3>1
      <4> QED
        BY <1>2, <1>3, <3>6, <4>1
    <3> QED
      BY <1>2, <3>5, <3>6
  <2>3. CASE ~ follower.anchored
    <3>1. PICK r \in stored : r = Topmost(stored)
      BY <2>3, EndsOfPages DEF ReadPage
    <3> DEFINE known == follower.told \cup {r.id}
               place == r.position
               start == r.position - 1
    <3>2. follower' = [follower EXCEPT !.anchored = TRUE, !.start = start, !.cursor = place,
                                       !.told = known]
      BY <2>3, <3>1, Zenon DEF ReadPage
    <3>3. known \in SUBSET Nat /\ place \in Nat /\ start \in Nat /\ TRUE \in BOOLEAN
      BY <2>1
    <3> HIDE DEF known, place, start
    <3>4. follower' \in Followers /\ follower'.start = start
          /\ follower'.cursor = place /\ follower'.told = known
      BY <1>2, <3>2, <3>3, Zenon DEF Followers
    <3>5. Reads(r, start)
      BY <3>4 DEF known, place
    <3>6. start <= highest /\ \A q \in stored : q.position \in (start + 1)..r.position =>
              q.position = r.position
      BY <1>2, <1>3 DEF start
    <3> QED
      BY <3>3, <3>5, <3>6
  <2> QED
    BY <2>2, <2>3
<1>6. PICK r \in stored, start \in Nat :
          /\ Reads(r, start) /\ start <= highest
          /\ \A q \in stored : q.position \in (start + 1)..r.position =>
                \/ q.position = r.position
                \/ q.position \in (follower.start + 1)..follower.cursor
  BY <1>5
<1>7. ReportShape'
  BY <1>1, Zenon DEF ReportInv, ReportShape
<1>8. RowsRight'
  BY <1>1, Zenon DEF ReportInv, RowsRight, HasReport
<1>9. ThreadsInOrder'
  BY <1>1, Zenon DEF ReportInv, ThreadsInOrder, HasReport
<1>10. LinesInOrder'
  BY <1>1, Zenon DEF ReportInv, LinesInOrder, HasReport
<1>11. PositionsInOrder'
  BY <1>1, Zenon DEF ReportInv, PositionsInOrder, IsStored, IsWritten
<1>12. StreamInOrder'
  <2>1. StreamSkipsNothing'
    <3> SUFFICES ASSUME NEW q \in stored, q.position \in (start + 1)..r.position,
                        q.id \notin troubled, made[q.id].line \notin removed
                 PROVE  q.id \in follower'.told
      BY <1>1, <1>6, Zenon DEF StreamSkipsNothing
    <3>1. CASE q.position = r.position
      BY <1>4, <1>6, <3>1
    <3>2. CASE q.position \in (follower.start + 1)..follower.cursor
      <4>1. q.id \in follower.told
        BY <3>2 DEF ReportInv, StreamInOrder, StreamSkipsNothing
      <4> QED
        BY <1>6, <4>1
    <3> QED
      BY <1>6, <3>1, <3>2
  <2>2. \A id : IsAhead(id) => IsAhead(id)'
    BY <1>1, <1>6 DEF IsAhead
  <2>3. \A id : IsStored(id)' <=> IsStored(id)
    BY <1>1 DEF IsStored
  <2>4. /\ follower' \in Followers /\ follower'.told \subseteq Made
        /\ follower'.cursor <= highest /\ follower'.start <= highest
    BY <1>2, <1>3, <1>6
  <2> QED
    BY <1>1, <2>1, <2>2, <2>3, <2>4, Zenon DEF ReportInv, StreamInOrder
<1> QED
  BY <1>7, <1>8, <1>9, <1>10, <1>11, <1>12 DEF ReportInv

\* A reader without a cursor has still been told what it was.
LEMMA LoseCursorKeeps ==
    ASSUME ReportInv, LoseCursor
    PROVE  ReportInv'
<1>1. /\ serving' = serving /\ turns' = turns /\ manual' = manual /\ made' = made
      /\ cached' = cached /\ stored' = stored /\ highest' = highest /\ live' = live
      /\ liveRow' = liveRow /\ troubled' = troubled /\ removed' = removed
      /\ answered' = answered /\ Made' = Made
  BY DEF LoseCursor, caches, tables, history, Made
<1>2. follower \in Followers /\ follower' = [follower EXCEPT !.anchored = FALSE]
  BY Zenon DEF LoseCursor, ReportInv, StreamInOrder
<1>3. FALSE \in BOOLEAN
  OBVIOUS
<1>4. /\ follower' \in Followers /\ follower'.cursor = follower.cursor
      /\ follower'.start = follower.start /\ follower'.told = follower.told
  BY <1>2, <1>3, Zenon DEF Followers
<1>5. ReportShape'
  BY <1>1, Zenon DEF ReportInv, ReportShape
<1>6. RowsRight'
  BY <1>1, Zenon DEF ReportInv, RowsRight, HasReport
<1>7. ThreadsInOrder'
  BY <1>1, Zenon DEF ReportInv, ThreadsInOrder, HasReport
<1>8. LinesInOrder'
  BY <1>1, Zenon DEF ReportInv, LinesInOrder, HasReport
<1>9. PositionsInOrder'
  BY <1>1, Zenon DEF ReportInv, PositionsInOrder, IsStored, IsWritten
<1>10. StreamInOrder'
  BY <1>1, <1>4, Zenon DEF ReportInv, StreamInOrder, StreamSkipsNothing, IsStored, IsAhead
<1> QED
  BY <1>5, <1>6, <1>7, <1>8, <1>9, <1>10 DEF ReportInv

\* Every step of the programs, the server and the reader keeps what was said of the
\* reports.
LEMMA ReportsKeep == ProgramsInOrder /\ ReportInv /\ ReportNext => ReportInv'
<1> SUFFICES ASSUME ProgramsInOrder, ReportInv, ReportNext
             PROVE  ReportInv'
  OBVIOUS
<1>1. CASE Say \/ \E w \in Watchers : Poll(w) \/ GiveUpLine(w) \/ NewLogFile(w)
  <2>1. UNCHANGED reportState
    BY <1>1 DEF Say, Poll, GiveUpLine, NewLogFile, caches, tables, history, reportState
  <2> QED
    BY <2>1, ReportsRest
<1>2. ASSUME NEW w \in Watchers, Post(w)
      PROVE  ReportInv'
  BY <1>2, PostKeeps
<1>3. ASSUME NEW h \in Threads, KeepReport(h)
      PROVE  ReportInv'
  BY <1>3, KeepKeeps
<1>4. ASSUME NEW h \in Threads, AssignPosition(h)
      PROVE  ReportInv'
  BY <1>4, AssignKeeps
<1>5. ASSUME NEW h \in Threads, CommitReport(h)
      PROVE  ReportInv'
  BY <1>5, CommitReportKeeps
<1>6. ASSUME NEW h \in Threads, NEW done \in BOOLEAN, FailReport(h, done)
      PROVE  ReportInv'
  BY <1>6, FailReportKeeps
<1>7. CASE AddReport \/ CommitManual \/ FailManual
  BY <1>7, AddKeeps, ManualKeeps
<1>8. CASE DeleteReport \/ RestartReports
  BY <1>8, DeleteReportKeeps, RestartReportsKeeps
<1>9. CASE ReadPage \/ LoseCursor
  BY <1>9, ReadPageKeeps, LoseCursorKeeps
<1> QED
  BY <1>1, <1>2, <1>3, <1>4, <1>5, <1>6, <1>7, <1>8, <1>9, Zenon DEF ReportNext

\* There are no reports at the start.
LEMMA ReportsBegin == ReportInit => ProgramsInOrder /\ ReportInv
<1> SUFFICES ASSUME ReportInit
             PROVE  ProgramsInOrder /\ ReportInv
  OBVIOUS
<1>1. /\ said = 0 /\ serving = [h \in Threads |-> Idle] /\ turns = <<>> /\ manual = 0
      /\ watching = [w \in Watchers |-> [offset |-> 0, next |-> 1, last |-> 0,
                                         request |-> "none"]]
      /\ made = <<>> /\ cached = {} /\ stored = {} /\ highest = 0
      /\ live = NoRow /\ liveRow = NoRow /\ mishaps = 0 /\ troubled = {} /\ removed = {}
      /\ forsaken = {} /\ answered = {}
      /\ follower = [cursor |-> 0, start |-> 0, anchored |-> FALSE, told |-> {}]
  BY Zenon DEF ReportInit
<1>2. /\ 0 \in 0..MaxLines /\ 1 \in 1..MaxLines + 1 /\ 0 \in 0..MaxMishaps /\ 0 \in Nat /\ 0 <= 0
      /\ made \in Seq(Entries) /\ turns \in Seq(Threads) /\ Made = {} /\ DOMAIN turns = {}
  BY <1>1, LineNumbers DEF Made
<1>3. ProgramsInOrder
  <2> DEFINE log == [offset |-> 0, next |-> 1, last |-> 0, request |-> "none"]
  <2>1. log \in Logs /\ log.request = "none"
    BY <1>2, Zenon DEF Logs
  <2> HIDE DEF log
  <2>2. watching = [w \in Watchers |-> log]
    BY <1>1 DEF log
  <2>3. watching \in [Watchers -> Logs] /\ \A w \in Watchers : watching[w].request = "none"
    BY <2>1, <2>2
  <2> QED
    BY <1>1, <1>2, <2>3 DEF ProgramsInOrder
<1>4. /\ follower \in Followers /\ follower.told = {} /\ follower.cursor = 0 /\ follower.start = 0
  <2>1. {} \in SUBSET Nat /\ FALSE \in BOOLEAN
    OBVIOUS
  <2> QED
    BY <1>1, <1>2, <2>1, Zenon DEF Followers
<1>5. live \in ChannelRows(Made) /\ RowRight(live)
  <2>1. {} \in SUBSET Made /\ FALSE \in BOOLEAN
    OBVIOUS
  <2>2. live \in ChannelRows(Made) /\ live.last = 0 /\ live.newest = 0 /\ live.cleared = 0
        /\ ~ live.active
    BY <1>1, <1>2, <2>1, Zenon DEF NoRow, ChannelRows
  <2>3. live.last <= live.newest /\ live.cleared <= live.newest /\ live.newest \in Clears \cup {0}
    BY <2>2
  <2> QED
    BY <2>2, <2>3, Zenon DEF RowRight
<1>6. \A h \in Threads : serving[h].at = "free" /\ serving[h].report = 0 /\ ~ HasReport(h)
  BY <1>1, IdleThread DEF HasReport
<1>7. ReportShape
  <2>1. serving \in [Threads -> Servings]
    BY <1>1, IdleThread
  <2> QED
    BY <1>1, <1>2, <2>1 DEF ReportShape
<1>8. RowsRight
  <2>1. liveRow = live
    BY <1>1
  <2> QED
    BY <1>5, <1>6, <2>1, Zenon DEF RowsRight
<1>9. ThreadsInOrder
  BY <1>2, <1>6 DEF ThreadsInOrder
<1>10. LinesInOrder
  BY <1>1, <1>6 DEF LinesInOrder
<1>11. PositionsInOrder
  BY <1>1, <1>2, <1>6 DEF PositionsInOrder
<1>12. StreamInOrder
  <2>1. StreamSkipsNothing
    BY <1>1 DEF StreamSkipsNothing
  <2> QED
    BY <1>1, <1>2, <1>4, <1>6, <2>1 DEF StreamInOrder
<1> QED
  BY <1>3, <1>7, <1>8, <1>9, <1>10, <1>11, <1>12 DEF ReportInv

\* A line that was answered has one row, and the row of the channel shows the newest
\* line.
LEMMA KeptFollows == ReportInv => ReportsAreKept
<1> SUFFICES ASSUME ReportInv
             PROVE  ReportsAreKept
  OBVIOUS
<1>1. \A r \in stored : /\ r \in Filed /\ r.id \in Made
                        /\ r.position = made[r.id].position
                        /\ made[r.id].line \notin removed \cup {0} => r.id \in cached
  BY DEF ReportInv, ReportShape, PositionsInOrder, LinesInOrder
<1>2. ASSUME NEW m \in 1..MaxLines, m \notin removed
      PROVE  LET rowsOf == {r \in stored : made[r.id].line = m}
             IN  (m \in answered => rowsOf # {}) /\ Cardinality(rowsOf) <= 1
  <2> DEFINE rowsOf == {r \in stored : made[r.id].line = m}
  <2>1. m # 0
    BY LineNumbers
  <2>2. m \in answered => rowsOf # {}
    BY <1>2, <2>1 DEF ReportInv, LinesInOrder
  <2>3. ASSUME NEW r \in rowsOf, NEW q \in rowsOf
        PROVE  r = q
    <3>1. r.id \in cached /\ q.id \in cached /\ made[r.id].line = made[q.id].line
      BY <1>1, <1>2, <2>1
    <3>2. r.id = q.id
      BY <1>2, <2>1, <3>1 DEF ReportInv, LinesInOrder
    <3>3. r.position = q.position
      BY <1>1, <3>2
    <3>4. r \in Filed /\ q \in Filed
      BY <1>1
    <3> QED
      BY <3>2, <3>3, <3>4 DEF Filed
  <2>4. rowsOf = {} \/ \E r \in rowsOf : rowsOf = {r}
    BY <2>3
  <2> HIDE DEF rowsOf
  <2>5. Cardinality(rowsOf) <= 1
    <3>1. Cardinality({}) = 0
      BY FS_EmptySet
    <3>2. \A r \in rowsOf : Cardinality({r}) = 1
      BY FS_Singleton
    <3> QED
      BY <2>4, <3>1, <3>2
  <2> QED
    BY <2>2, <2>5 DEF rowsOf
<1>3. AnsweredIsStored
  BY <1>2, Zenon DEF AnsweredIsStored
<1>4. ChannelShowsNewest
  BY Zenon DEF ReportInv, RowsRight, RowRight, ChannelShowsNewest
<1> QED
  BY <1>3, <1>4 DEF ReportsAreKept

\* The variables of the reports have their types.
LEMMA ReportTypesFollow == ProgramsInOrder /\ ReportInv => ReportTypeOK
<1> SUFFICES ASSUME ProgramsInOrder, ReportInv
             PROVE  ReportTypeOK
  OBVIOUS
<1>1. /\ said \in 0..MaxLines /\ watching \in [Watchers -> Logs] /\ mishaps \in 0..MaxMishaps
      /\ forsaken \subseteq Watchers \X (1..MaxLines)
  BY DEF ProgramsInOrder
<1>2. \A h \in Threads : /\ serving[h].at \in Stages /\ serving[h].line \in 0..MaxLines
                         /\ serving[h].report \in Made \cup {0}
  BY ServingFields DEF ReportInv, ReportShape, ThreadsInOrder
<1>3. \A i \in DOMAIN turns : serving[turns[i]].at \in {"waiting", "writing"}
  BY DEF ReportInv, ThreadsInOrder, HasReport
<1>4. ASSUME NEW id \in Made
      PROVE  made[id] \in [line : 0..MaxLines, position : 0..highest]
  <2>1. made \in Seq(Entries) /\ highest \in Nat /\ made[id].position <= highest
    BY DEF ReportInv, ReportShape, PositionsInOrder
  <2>2. made[id] \in Entries /\ made[id].line \in 0..MaxLines /\ made[id].position \in 0..highest
    BY <2>1, EntryFields
  <2> QED
    BY <2>2 DEF Entries
<1>5. ASSUME NEW r \in stored
      PROVE  r \in [id : Made, position : 1..highest]
  <2>1. /\ r \in Filed /\ r.id \in Made /\ highest \in Nat
        /\ r.position = made[r.id].position /\ r.position > 0 /\ made[r.id].position <= highest
    BY DEF ReportInv, ReportShape, PositionsInOrder
  <2> QED
    BY <2>1 DEF Filed
<1>6. live \in ChannelRows(Made) /\ liveRow \in ChannelRows(Made)
  BY DEF ReportInv, RowsRight
<1>7. follower \in [cursor : 0..highest, start : 0..highest, anchored : BOOLEAN,
                    told : SUBSET Made]
  <2>1. /\ follower \in Followers /\ follower.told \in SUBSET Made /\ highest \in Nat
        /\ follower.cursor <= highest /\ follower.start <= highest
    BY DEF ReportInv, ReportShape, StreamInOrder
  <2>2. follower.cursor \in Nat /\ follower.start \in Nat
    BY <2>1, Zenon DEF Followers
  <2>3. follower.cursor \in 0..highest /\ follower.start \in 0..highest
    BY <2>1, <2>2
  <2> QED
    BY <2>1, <2>3, Zenon DEF Followers
<1>8. /\ manual \in Made \cup {0} /\ cached \subseteq Made /\ troubled \subseteq Made
      /\ removed \cup answered \subseteq 0..MaxLines
  BY DEF ReportInv, ReportShape
<1>9. stored \subseteq [id : Made, position : 1..highest]
  BY <1>5
<1>10. {live, liveRow} \subseteq [exists : BOOLEAN, active : BOOLEAN, last : 0..MaxLines,
                    cleared : 0..MaxLines, sources : SUBSET Made,
                    newest : 0..MaxLines, late : BOOLEAN]
  BY <1>6, Zenon DEF ChannelRows
<1> QED
  BY <1>1, <1>2, <1>3, <1>4, <1>7, <1>8, <1>9, <1>10, Zenon DEF ReportTypeOK, Made, Logs, Stages

\* What is said of the programs and of the reports, together.
ReportsInOrder == ProgramsInOrder /\ ReportInv

\* The reports stay in order whatever the others do.
LEMMA ReportStepKeeps == ReportsInOrder /\ [Next]_vars => ReportsInOrder'
<1> SUFFICES ASSUME ReportsInOrder, [Next]_vars
             PROVE  ReportsInOrder'
  OBVIOUS
<1>1. CASE ByReader(ReportNext)
  BY <1>1, ProgramsKeep, ReportsKeep DEF ByReader, ReportsInOrder
<1>2. CASE UNCHANGED channel
  <2>1. UNCHANGED reportState /\ UNCHANGED <<said, watching, mishaps, forsaken>>
    BY <1>2 DEF channel, programs, caches, tables, history, reportState
  <2>2. ReportInv'
    BY <2>1, ReportsRest DEF ReportsInOrder
  <2>3. ProgramsInOrder'
    BY <2>1, Zenon DEF ReportsInOrder, ProgramsInOrder
  <2> QED
    BY <2>2, <2>3 DEF ReportsInOrder
<1> QED
  BY <1>1, <1>2 DEF Next, vars, JournalStep, ByBot, ByStream, ByWorker, ByQuery, ByWatch

\* A line has one report in memory until one is removed, each report one position and
\* each position one report, positions are given in turn, and what is being written is
\* ahead of every reader, unless a transaction of it failed before.
THEOREM ReportsStayInOrder == Spec => []ReportsInOrder
<1>1. Init => ReportsInOrder
  BY ReportsBegin DEF Init, ReportsInOrder
<1> QED
  BY <1>1, ReportStepKeeps, PTL DEF Spec

\* A line whose post was answered is stored once, however many programs post it and
\* post it again, over lost requests, failed transactions and restarts, until it is
\* deleted; and the channel's row is active exactly when the newest line applied to it is
\* a sighting, in whatever order lines come (intel_store.py 3300, 4460).
THEOREM ReportsStayKept == Spec => []ReportsAreKept
<1>1. ReportsInOrder => ReportsAreKept
  BY KeptFollows DEF ReportsInOrder
<1> QED
  BY <1>1, ReportsStayInOrder, PTL

\* A reader has been told every report its cursor has passed since it started, although
\* positions are given before the commit, except for those whose first transaction
\* failed (postgres_store.py 3555).
THEOREM ReaderSkipsNothing == Spec => []StreamSkipsNothing
<1>1. ReportsInOrder => StreamSkipsNothing
  BY DEF ReportsInOrder, ReportInv, StreamInOrder
<1> QED
  BY <1>1, ReportsStayInOrder, PTL

\* The variables of the reports have their types.
THEOREM ReportTypesCorrect == Spec => []ReportTypeOK
<1>1. ReportsInOrder => ReportTypeOK
  BY ReportTypesFollow DEF ReportsInOrder
<1> QED
  BY <1>1, ReportsStayInOrder, PTL

\* So do all variables of the module: those of the journal, its consumers, the reports
\* and the requests of groups.
THEOREM EventDeliveryTypesCorrect == Spec => []TypeOK
<1>1. JournalInv => JournalTypeOK
  BY DEF JournalInv
<1>2. JournalTypeOK /\ BotTypeOK /\ StreamTypeOK /\ ReportTypeOK
      /\ AnalysisTypeOK /\ QueryTypeOK /\ WatchTypeOK => TypeOK
  BY DEF TypeOK
<1> QED
  BY <1>1, <1>2, JournalStaysOrdered, BotTypesCorrect, StreamTypesCorrect, ReportTypesCorrect,
     RequestTypesCorrect, WatchTypesCorrect, PTL
=============================================================================
