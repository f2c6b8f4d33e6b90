------------------------ MODULE ServerClients_proofs ------------------------
(***************************************************************************)
(* Proofs about what the server believes of its clients: accounts, client  *)
(* keys and streams (module AccessControl), the online time that is billed *)
(* (module OnlineTime) and the heartbeats (module Heartbeats), for any     *)
(* users, sessions, systems, windows, accounts and request threads and     *)
(* whatever the bounds, as parts of the specification that the runs check  *)
(* (module ServerClients).                                                 *)
(***************************************************************************)
EXTENDS ServerClients, Monitoring_proofs, FiniteSetTheorems, TLAPS

AccessSpec == AccessInit /\ [][AccessNext]_access

-----------------------------------------------------------------------------
(* Access control: the inductive invariant.                                *)

Kinds == {"none", "login", "create_key", "revoke_key", "logout",
          "create", "enable", "disable", "reset", "delete"}

Subjects == Users \cup Sessions \cup SeatRequests \cup SeatKeys \cup {"none"}

Calls == [kind : Kinds, of : Subjects, by : Sessions \cup {"none"},
          at : {"free", "authorised", "checked", "changed"}]

Principals == {BySession(s) : s \in Sessions} \cup {BySeatKey(k) : k \in SeatKeys}

Watching == [who : Principals \cup {NoOne}, at : {"off", "idle", "read", "cleared", "sending"},
             read : Nat, seen : Nat, due : BOOLEAN]

Spending == [requests : Nat, faults : Nat, untold : BOOLEAN]

\* The rows that the tables may hold.
TablesTyped ==
    /\ users \in [Users -> {"none", "active", "disabled", "deleted"}]
    /\ sessions \in [Sessions -> [user : Users, state : {"none", "open", "gone", "ended"}]]
    /\ seats \in [SeatKeys -> {"absent", "active", "revoked"}]
    /\ operations \in [Operations -> SeatRequests \cup {NoOne}]

\* What a request is about is of the sort that its kind says.
CallsTyped ==
    /\ call \in [Callers -> Calls]
    /\ \A c \in Callers :
        /\ call[c].kind = "login" => call[c].of \in Users
        /\ call[c].kind = "logout" => call[c].of \in Sessions
        /\ call[c].kind = "create_key" => call[c].of \in SeatRequests
        /\ call[c].kind = "revoke_key" => call[c].of \in SeatKeys

\* A stream that is on belongs to a session or a key, and has not seen the future.
StreamTyped ==
    /\ notices \in Nat
    /\ watch \in Watching
    /\ watch.at # "off" => watch.who \in Principals
    /\ watch.read <= notices /\ watch.seen <= notices

\* The operations that a key was made by.
MadeBy(k) == {o \in Operations : operations[o] # NoOne /\ operations[o].key = k}

\* A key was made by one operation, and an operation is noted under its own name.
OneOperation ==
    /\ \A o \in Operations : operations[o] # NoOne => operations[o].operation = o
    /\ \A k \in SeatKeys : seats[k] = "absent" => MadeBy(k) = {}
    /\ \A k \in SeatKeys : seats[k] # "absent" => \E o \in Operations : MadeBy(k) = {o}

SomeChanged == \E c \in Callers : call[c].at = "changed"

\* The stream will see at its next pass that something has changed.
Told(generation) == notices > generation \/ SomeChanged

\* Between reading the generation and checking its principal the stream relies on
\* its last check, too.
OnItsWay ==
    /\ watch.at = "cleared" /\ TakenAway(watch.who) => Told(watch.read)
    /\ watch.at \in {"idle", "read", "sending"} /\ ~watch.due /\ TakenAway(watch.who) =>
        Told(watch.seen)

NoticeOnItsWay == ~spent.untold => OnItsWay

AccessInv ==
    /\ TablesTyped /\ CallsTyped /\ StreamTyped /\ spent \in Spending
    /\ OneOperation
    /\ NoticeOnItsWay

-----------------------------------------------------------------------------
\* What is noted for no operation is no request of SeAT.
LEMMA NobodyAsks == NoOne \notin SeatRequests
<1> SUFFICES ASSUME NoOne \in SeatRequests
             PROVE  FALSE
  OBVIOUS
<1>1. DOMAIN NoOne = {"operation", "key", "text"}
  BY AccessAssumption
<1>2. DOMAIN NoOne = {"kind", "of"}
  BY DEF NoOne
<1>3. "operation" \in {"kind", "of"}
  BY <1>1, <1>2
<1>4. QED
  BY <1>3

\* No key, request or stream when the server starts for the first time.
LEMMA AccessInitEstablishes == AccessInit => AccessInv
<1> SUFFICES ASSUME AccessInit
             PROVE  AccessInv
  OBVIOUS
<1>1. TablesTyped
  BY AccessAssumption DEF AccessInit, TablesTyped, NoSession
<1>2. CallsTyped
  BY DEF AccessInit, CallsTyped, Calls, NoCall, Kinds, Subjects
<1>3. StreamTyped
  BY DEF AccessInit, StreamTyped, Watching
<1>4. spent \in Spending
  BY DEF AccessInit, Spending
<1>5. OneOperation
  BY DEF AccessInit, OneOperation, MadeBy
<1>6. NoticeOnItsWay
  BY DEF AccessInit, NoticeOnItsWay, OnItsWay
<1>7. QED
  BY <1>1, <1>2, <1>3, <1>4, <1>5, <1>6 DEF AccessInv

-----------------------------------------------------------------------------
(* What the parts of a step do.                                            *)

\* A request goes on.
LEMMA StepGoesOn ==
    ASSUME CallsTyped, NEW c \in Callers, NEW at \in {"checked", "changed"}, Step(c, at),
           call[c].at # "changed"
    PROVE  /\ CallsTyped'
           /\ SomeChanged => SomeChanged'
           /\ at = "changed" => SomeChanged'
<1>1. call' = [call EXCEPT ![c].at = at]
  BY DEF Step
<1>2. call' \in [Callers -> Calls]
  BY <1>1 DEF CallsTyped, Calls
<1>3. /\ call'[c].at = at
      /\ \A d \in Callers : call'[d].kind = call[d].kind /\ call'[d].of = call[d].of
      /\ \A d \in Callers : d # c => call'[d] = call[d]
  BY <1>1 DEF CallsTyped, Calls
<1>4. CallsTyped'
  BY <1>2, <1>3 DEF CallsTyped
<1>5. QED
  BY <1>3, <1>4 DEF SomeChanged

\* A request ends.
LEMMA AnswerEnds ==
    ASSUME CallsTyped, NEW c \in Callers, Answer(c)
    PROVE  /\ CallsTyped'
           /\ call[c].at # "changed" => (SomeChanged => SomeChanged')
<1>1. call' = [call EXCEPT ![c] = NoCall]
  BY DEF Answer
<1>2. NoCall \in Calls
  BY DEF NoCall, Calls, Kinds, Subjects
<1>3. call' \in [Callers -> Calls]
  BY <1>1, <1>2 DEF CallsTyped
<1>4. /\ call'[c] = NoCall
      /\ \A d \in Callers : d # c => call'[d] = call[d]
  BY <1>1 DEF CallsTyped
<1>5. CallsTyped'
  BY <1>3, <1>4 DEF CallsTyped, NoCall
<1>6. QED
  BY <1>4, <1>5 DEF SomeChanged

\* What the stream relies on stays true when nothing happens to the stream and
\* whoever takes its principal away has yet to tell.
LEMMA StreamUndisturbed ==
    ASSUME NoticeOnItsWay, notices' = notices, watch' = watch, spent'.untold = spent.untold,
           SomeChanged => SomeChanged',
           TakenAway(watch.who)' => TakenAway(watch.who) \/ SomeChanged'
    PROVE  NoticeOnItsWay'
<1> SUFFICES ASSUME ~spent'.untold
             PROVE  OnItsWay'
  BY DEF NoticeOnItsWay
<1>1. OnItsWay
  BY DEF NoticeOnItsWay
<1>2. \A n : Told(n) => (notices' > n \/ SomeChanged')
  BY DEF Told
<1>3. QED
  BY <1>1, <1>2, Zenon DEF OnItsWay, Told

\* Where no row of users, sessions or keys changes, nobody is taken away.
LEMMA SamePrincipals ==
    ASSUME UNCHANGED <<users, sessions, seats, watch>>
    PROVE  TakenAway(watch.who)' <=> TakenAway(watch.who)
BY DEF TakenAway, Good, SessionGood

\* The operations stand with their keys.
LEMMA SameOperations ==
    ASSUME OneOperation, UNCHANGED <<seats, operations>>
    PROVE  OneOperation'
BY DEF OneOperation, MadeBy

-----------------------------------------------------------------------------
(* Each step keeps the invariant.                                          *)

\* A request comes in.
LEMMA BeginsKeeps ==
    ASSUME AccessInv, NEW c \in Callers, Authorised(c)
    PROVE  AccessInv'
<1> USE DEF AccessInv
<1>1. PICK kind \in Kinds, of \in Subjects, by \in Sessions \cup {"none"} :
        /\ Begins(c, kind, of, by)
        /\ kind = "login" => of \in Users
        /\ kind = "logout" => of \in Sessions
        /\ kind = "create_key" => of \in SeatRequests
        /\ kind = "revoke_key" => of \in SeatKeys
  <2>1. CASE \E u \in Users : Begins(c, "login", u, "none")
    BY <2>1 DEF Kinds, Subjects
  <2>2. CASE \E r \in SeatRequests : Begins(c, "create_key", r, "none")
    BY <2>2 DEF Kinds, Subjects
  <2>3. CASE \E k \in SeatKeys : Begins(c, "revoke_key", k, "none")
    BY <2>3 DEF Kinds, Subjects
  <2>4. CASE \E s \in Sessions : Begins(c, "logout", s, s)
    BY <2>4 DEF Kinds, Subjects
  <2>5. CASE \E s \in Sessions, u \in Users,
                kind \in {"create", "enable", "disable", "reset", "delete"} : Begins(c, kind, u, s)
    BY <2>5 DEF Kinds, Subjects
  <2>6. QED
    BY <2>1, <2>2, <2>3, <2>4, <2>5 DEF Authorised
<1>2. /\ UNCHANGED <<users, sessions, seats, operations, notices, watch>>
      /\ call' = [call EXCEPT ![c] = [kind |-> kind, of |-> of, by |-> by, at |-> "authorised"]]
      /\ spent' = [spent EXCEPT !.requests = @ + 1]
      /\ call[c] = NoCall
  BY <1>1 DEF Begins, Tables
<1>3. call' \in [Callers -> Calls]
  BY <1>2 DEF CallsTyped, Calls
<1>4. /\ call'[c] = [kind |-> kind, of |-> of, by |-> by, at |-> "authorised"]
      /\ \A d \in Callers : d # c => call'[d] = call[d]
  BY <1>2 DEF CallsTyped
<1>5. CallsTyped'
  BY <1>1, <1>3, <1>4 DEF CallsTyped
<1>6. SomeChanged => SomeChanged'
  BY <1>2, <1>4 DEF SomeChanged, NoCall
<1>7. spent' \in Spending
  BY <1>2 DEF Spending
<1>8. spent'.untold = spent.untold
  BY <1>2, Zenon DEF Spending
<1>9. TablesTyped' /\ StreamTyped' /\ OneOperation'
  BY <1>2, SameOperations DEF TablesTyped, StreamTyped
<1>10. NoticeOnItsWay'
  BY <1>2, <1>6, <1>8, StreamUndisturbed, SamePrincipals
<1>11. QED
  BY <1>5, <1>7, <1>9, <1>10

\* A session whose user is not good goes: it was of no use before.
LEMMA DropSessionKeeps ==
    ASSUME AccessInv, NEW s \in Sessions, DropSession(s)
    PROVE  AccessInv'
<1> USE DEF AccessInv
<1>1. /\ UNCHANGED <<users, seats, operations, notices, call, watch, spent>>
      /\ sessions' = [sessions EXCEPT ![s].state = "gone"]
      /\ sessions[s].state = "open" /\ ~SessionGood(s)
  BY DEF DropSession
<1>2. TablesTyped'
  BY <1>1 DEF TablesTyped
<1>3. TakenAway(watch.who)' => TakenAway(watch.who)
  BY <1>1 DEF TakenAway, Good, SessionGood, TablesTyped
<1>4. NoticeOnItsWay'
  BY <1>1, <1>3, StreamUndisturbed DEF SomeChanged
<1>5. QED
  BY <1>1, <1>2, <1>4, SameOperations DEF CallsTyped, StreamTyped

\* An end by time is not taken away by anybody.
LEMMA SessionEndsKeeps ==
    ASSUME AccessInv, NEW s \in Sessions, SessionEnds(s)
    PROVE  AccessInv'
<1> USE DEF AccessInv
<1>1. /\ UNCHANGED <<users, seats, operations, notices, call, watch>>
      /\ sessions' = [sessions EXCEPT ![s].state = "ended"]
      /\ spent' = [spent EXCEPT !.faults = @ + 1]
  BY DEF SessionEnds, AccessFault
<1>2. TablesTyped'
  BY <1>1 DEF TablesTyped
<1>3. spent' \in Spending
  BY <1>1 DEF Spending
<1>4. spent'.untold = spent.untold
  BY <1>1, Zenon DEF Spending
<1>5. TakenAway(watch.who)' => TakenAway(watch.who)
  BY <1>1 DEF TakenAway, Good, SessionGood, TablesTyped
<1>6. NoticeOnItsWay'
  BY <1>1, <1>4, <1>5, StreamUndisturbed DEF SomeChanged
<1>7. QED
  BY <1>1, <1>2, <1>3, <1>6, SameOperations DEF CallsTyped, StreamTyped

\* The handler looks before it changes anything.
LEMMA CheckKeeps ==
    ASSUME AccessInv, NEW c \in Callers, Check(c)
    PROVE  AccessInv'
<1> USE DEF AccessInv
<1>1. /\ UNCHANGED <<users, sessions, seats, operations, notices, watch, spent>>
      /\ call[c].at = "authorised"
      /\ Step(c, "checked") \/ Answer(c)
  BY DEF Check, Tables
<1>2. CallsTyped' /\ (SomeChanged => SomeChanged')
  BY <1>1, StepGoesOn, AnswerEnds
<1>3. NoticeOnItsWay'
  BY <1>1, <1>2, StreamUndisturbed, SamePrincipals
<1>4. QED
  BY <1>1, <1>2, <1>3, SameOperations DEF TablesTyped, StreamTyped

\* A new user or session takes nothing from anybody.
LEMMA EnterKeeps ==
    ASSUME AccessInv, NEW c \in Callers, Enter(c)
    PROVE  AccessInv'
<1> USE DEF AccessInv
<1>1. /\ UNCHANGED <<seats, operations, notices, watch, spent>>
      /\ Answer(c)
      /\ call[c].at = "checked"
  BY DEF Enter
<1>2. CallsTyped' /\ (SomeChanged => SomeChanged')
  BY <1>1, AnswerEnds
<1>3. TablesTyped' /\ (TakenAway(watch.who)' => TakenAway(watch.who))
  <2>1. CASE call[c].kind = "create"
    <3>1. /\ UNCHANGED sessions
          /\ users' = [users EXCEPT ![call[c].of] = IF @ = "none" THEN "active" ELSE @]
      BY <2>1 DEF Enter
    <3>2. users' \in [Users -> {"none", "active", "disabled", "deleted"}]
      BY <3>1 DEF TablesTyped
    <3>3. \A u \in Users : users[u] = "active" => users'[u] = "active"
      BY <3>1 DEF TablesTyped
    <3>4. TakenAway(watch.who)' => TakenAway(watch.who)
      <4>1. watch' = watch /\ seats' = seats /\ sessions' = sessions
        BY <1>1, <3>1
      <4>2. CASE watch.who \in {BySession(s) : s \in Sessions}
        <5>1. PICK s \in Sessions : watch.who = [kind |-> "session", of |-> s]
          BY <4>2 DEF BySession
        <5>2. sessions[s].user \in Users
          BY DEF TablesTyped
        <5>3. SessionGood(s) => SessionGood(s)'
          BY <3>3, <4>1, <5>2 DEF SessionGood
        <5>4. QED
          BY <4>1, <5>1, <5>3 DEF TakenAway, Good
      <4>3. CASE watch.who \notin {BySession(s) : s \in Sessions}
        <5>1. watch.who.kind # "session"
          BY <4>3 DEF StreamTyped, Watching, Principals, NoOne, BySeatKey
        <5>2. QED
          BY <4>1, <5>1 DEF TakenAway, Good
      <4>4. QED
        BY <4>2, <4>3
    <3>5. QED
      BY <1>1, <3>1, <3>2, <3>4 DEF TablesTyped
  <2>2. CASE call[c].kind = "login"
    <3>1. users' = users
      BY <2>2 DEF Enter
    <3>2. PICK s \in Sessions :
            /\ sessions[s].state = "none"
            /\ sessions' = [sessions EXCEPT ![s] = [user |-> call[c].of, state |-> "open"]]
      BY <2>2 DEF Enter
    <3>3. call[c].of \in Users
      BY <2>2 DEF CallsTyped
    <3>4. TablesTyped'
      BY <1>1, <3>1, <3>2, <3>3 DEF TablesTyped
    <3>5. TakenAway(watch.who)' => TakenAway(watch.who)
      BY <1>1, <3>1, <3>2 DEF TakenAway, Good, SessionGood, TablesTyped
    <3>6. QED
      BY <3>4, <3>5
  <2>3. QED
    BY <2>1, <2>2 DEF Enter
<1>4. NoticeOnItsWay'
  BY <1>1, <1>2, <1>3, StreamUndisturbed
<1>5. QED
  BY <1>1, <1>2, <1>3, <1>4, SameOperations DEF StreamTyped

\* A user's sessions go with a change of his.
LEMMA SessionsGo ==
    ASSUME TablesTyped, NEW u
    PROVE  WithoutSessionsOf(u) \in
            [Sessions -> [user : Users, state : {"none", "open", "gone", "ended"}]]
BY DEF TablesTyped, WithoutSessionsOf

\* Whatever an account's change does, its request has yet to tell.
LEMMA ChangeAccountKeeps ==
    ASSUME AccessInv, NEW c \in Callers, ChangeAccount(c)
    PROVE  AccessInv'
<1> USE DEF AccessInv
<1>1. /\ UNCHANGED <<seats, operations, notices, watch, spent>>
      /\ Step(c, "changed")
      /\ call[c].at = "checked"
  BY DEF ChangeAccount
<1>2. CallsTyped' /\ SomeChanged'
  BY <1>1, StepGoesOn
<1>3. TablesTyped'
  <2> DEFINE of == call[c].of
  <2>1. /\ users' \in [Users -> {"none", "active", "disabled", "deleted"}]
        /\ sessions' \in [Sessions -> [user : Users, state : {"none", "open", "gone", "ended"}]]
    <3>1. CASE EndsSession(of)
      BY <3>1 DEF EndsSession, TablesTyped
    <3>2. ASSUME NEW status \in {"active", "disabled"}, SetsStatus(of, status)
          PROVE  <2>1!1 /\ <2>1!2
      BY <3>2, SessionsGo DEF SetsStatus, TablesTyped
    <3>3. CASE ResetsPassword(of)
      BY <3>3, SessionsGo DEF ResetsPassword, TablesTyped
    <3>4. CASE DeletesUser(of)
      BY <3>4, SessionsGo DEF DeletesUser, TablesTyped
    <3>5. QED
      BY <3>1, <3>2, <3>3, <3>4 DEF ChangeAccount
  <2>2. QED
    BY <1>1, <2>1 DEF TablesTyped
<1>4. NoticeOnItsWay'
  BY <1>1, <1>2, StreamUndisturbed
<1>5. QED
  BY <1>1, <1>2, <1>3, <1>4, SameOperations DEF StreamTyped

\* A key comes together with its operation, or neither does.
LEMMA ProjectKeyKeeps ==
    ASSUME AccessInv, NEW c \in Callers, ProjectKey(c)
    PROVE  AccessInv'
<1> USE DEF AccessInv
<1>0. PICK r \in SeatRequests : r = call[c].of
  BY DEF ProjectKey, CallsTyped
<1>1. /\ UNCHANGED <<users, sessions, notices, watch, spent>>
      /\ Answer(c)
      /\ call[c].at = "checked"
      /\ Projected(r)
  BY <1>0 DEF ProjectKey
<1>2. CallsTyped' /\ (SomeChanged => SomeChanged')
  BY <1>1, AnswerEnds
<1>3. r.key \in SeatKeys /\ r.operation \in Operations
  BY <1>1 DEF SeatKeys, Operations
<1>4. TablesTyped' /\ OneOperation' /\ (TakenAway(watch.who)' => TakenAway(watch.who))
  <2>1. CASE UNCHANGED <<seats, operations>>
    BY <1>1, <2>1, SameOperations, SamePrincipals DEF TablesTyped
  <2>2. CASE /\ seats[r.key] = "absent" /\ operations[r.operation] = NoOne
             /\ seats' = [seats EXCEPT ![r.key] = "active"]
             /\ operations' = [operations EXCEPT ![r.operation] = r]
    <3>1. TablesTyped'
      BY <1>1, <1>3, <2>2 DEF TablesTyped
    <3>2. /\ seats'[r.key] = "active" /\ operations'[r.operation] = r
          /\ \A k \in SeatKeys : k # r.key => seats'[k] = seats[k]
          /\ \A o \in Operations : o # r.operation => operations'[o] = operations[o]
          /\ r # NoOne
      BY <1>1, <1>3, <2>2, NobodyAsks DEF TablesTyped
    <3>3. \A o \in Operations : operations'[o] # NoOne => operations'[o].operation = o
      BY <3>2 DEF OneOperation
    <3>4. \A k \in SeatKeys : k # r.key => MadeBy(k)' = MadeBy(k)
      BY <2>2, <3>2 DEF MadeBy
    <3>5. MadeBy(r.key)' = {r.operation}
      <4>1. MadeBy(r.key) = {}
        BY <1>3, <2>2 DEF OneOperation
      <4>2. \A o \in Operations : ~(operations[o] # NoOne /\ operations[o].key = r.key)
        BY <4>1 DEF MadeBy
      <4>3. \A o \in Operations :
                (operations'[o] # NoOne /\ operations'[o].key = r.key) <=> o = r.operation
        BY <1>3, <3>2, <4>2
      <4>4. QED
        BY <1>3, <4>3 DEF MadeBy
    <3>6. \A k \in SeatKeys :
            /\ seats'[k] = "absent" => MadeBy(k)' = {}
            /\ seats'[k] # "absent" => \E o \in Operations : MadeBy(k)' = {o}
      <4>1. ASSUME NEW k \in SeatKeys, k # r.key
            PROVE  /\ seats'[k] = "absent" => MadeBy(k)' = {}
                   /\ seats'[k] # "absent" => \E o \in Operations : MadeBy(k)' = {o}
        <5>1. seats'[k] = seats[k] /\ MadeBy(k)' = MadeBy(k)
          BY <3>2, <3>4, <4>1
        <5>2. QED
          BY <5>1 DEF OneOperation
      <4>2. \E o \in Operations : MadeBy(r.key)' = {o}
        BY <1>3, <3>5
      <4>3. seats'[r.key] # "absent"
        BY <3>2
      <4>4. QED
        BY <4>1, <4>2, <4>3, Zenon
    <3>7. OneOperation'
      BY <3>3, <3>6 DEF OneOperation
    <3>8. TakenAway(watch.who)' => TakenAway(watch.who)
      <4>1. watch' = watch /\ sessions' = sessions /\ users' = users
        BY <1>1
      <4>2. CASE watch.who \in {BySeatKey(k) : k \in SeatKeys}
        <5>1. PICK k \in SeatKeys : watch.who = [kind |-> "key", of |-> k]
          BY <4>2 DEF BySeatKey
        <5>2. seats[k] = "active" => seats'[k] = "active"
          BY <3>2
        <5>3. QED
          BY <4>1, <5>1, <5>2 DEF TakenAway, Good
      <4>3. CASE watch.who \notin {BySeatKey(k) : k \in SeatKeys}
        <5>1. watch.who.kind # "key"
          BY <4>3 DEF StreamTyped, Watching, Principals, NoOne, BySession
        <5>2. QED
          BY <4>1, <5>1 DEF TakenAway, Good, SessionGood
      <4>4. QED
        BY <4>2, <4>3
    <3>9. QED
      BY <3>1, <3>7, <3>8
  <2>3. QED
    BY <1>1, <2>1, <2>2 DEF Projected
<1>5. NoticeOnItsWay'
  BY <1>1, <1>2, <1>4, StreamUndisturbed
<1>6. QED
  BY <1>1, <1>2, <1>4, <1>5 DEF StreamTyped

\* A revocation that changes the key has yet to tell.
LEMMA RevokeKeyKeeps ==
    ASSUME AccessInv, NEW c \in Callers, RevokeKey(c)
    PROVE  AccessInv'
<1> USE DEF AccessInv
<1> DEFINE k == call[c].of
<1>1. /\ UNCHANGED <<users, sessions, operations, notices, watch, spent>>
      /\ call[c].at = "checked" /\ call[c].kind = "revoke_key"
      /\ seats' = Revoked(k)
      /\ IF seats[k] = "active" THEN Step(c, "changed") ELSE Answer(c)
      /\ k \in SeatKeys
  BY DEF RevokeKey, CallsTyped
<1> HIDE DEF k
<1>2. CallsTyped'
  BY <1>1, StepGoesOn, AnswerEnds
<1>3. /\ SomeChanged => SomeChanged'
      /\ seats[k] = "active" => SomeChanged'
  BY <1>1, StepGoesOn, AnswerEnds
<1>4. TablesTyped'
  BY <1>1 DEF TablesTyped, Revoked
<1>5. TakenAway(watch.who)' => TakenAway(watch.who) \/ SomeChanged'
  <2>1. CASE seats[k] = "active"
    BY <1>3, <2>1
  <2>2. CASE seats[k] # "active"
    <3>1. seats' = seats
      BY <1>1, <2>2 DEF TablesTyped, Revoked
    <3>2. QED
      BY <1>1, <3>1, SamePrincipals
  <2>3. QED
    BY <2>1, <2>2
<1>6. OneOperation'
  <2>1. \A j \in SeatKeys : seats'[j] = "absent" <=> seats[j] = "absent"
    BY <1>1 DEF TablesTyped, Revoked
  <2>2. \A j \in SeatKeys : MadeBy(j)' = MadeBy(j)
    BY <1>1 DEF MadeBy
  <2>3. QED
    BY <1>1, <2>1, <2>2 DEF OneOperation
<1>7. NoticeOnItsWay'
  BY <1>1, <1>3, <1>5, StreamUndisturbed
<1>8. QED
  BY <1>1, <1>2, <1>4, <1>6, <1>7 DEF StreamTyped

\* After a notice the generation is past all that the stream has seen.
LEMMA NotifyKeeps ==
    ASSUME AccessInv, NEW c \in Callers, Notify(c)
    PROVE  AccessInv'
<1> USE DEF AccessInv
<1>1. /\ UNCHANGED <<users, sessions, seats, operations, watch, spent>>
      /\ notices' = notices + 1
      /\ Answer(c)
  BY DEF Notify, Tables
<1>2. CallsTyped'
  BY <1>1, AnswerEnds
<1>3. notices' \in Nat /\ watch.read < notices' /\ watch.seen < notices'
  BY <1>1 DEF StreamTyped, Watching
<1>4. StreamTyped'
  BY <1>1, <1>3 DEF StreamTyped, Watching
<1>5. OnItsWay'
  BY <1>1, <1>3 DEF OnItsWay, Told
<1>6. QED
  BY <1>1, <1>2, <1>4, <1>5, SameOperations DEF NoticeOnItsWay, TablesTyped

\* A change that nobody is told of is remembered as such.
LEMMA CallFailsKeeps ==
    ASSUME AccessInv, NEW c \in Callers, CallFails(c)
    PROVE  AccessInv'
<1> USE DEF AccessInv
<1>1. /\ UNCHANGED <<users, sessions, seats, operations, notices, watch>>
      /\ Answer(c)
  BY DEF CallFails, Tables
<1>2. CallsTyped' /\ (call[c].at # "changed" => (SomeChanged => SomeChanged'))
  BY <1>1, AnswerEnds
<1>3. spent' = [spent EXCEPT !.faults = @ + 1, !.untold = @ \/ call[c].at = "changed"]
  BY DEF CallFails
<1>4. spent' \in Spending
  <2>1. spent.faults + 1 \in Nat
    BY DEF Spending
  <2>2. (spent.untold \/ call[c].at = "changed") \in BOOLEAN
    OBVIOUS
  <2>3. QED
    BY <1>3, <2>1, <2>2, Zenon DEF Spending
<1>5. spent'.untold <=> spent.untold \/ call[c].at = "changed"
  BY <1>3, Zenon DEF Spending
<1>6. NoticeOnItsWay'
  <2>1. CASE call[c].at = "changed"
    BY <1>5, <2>1 DEF NoticeOnItsWay
  <2>2. CASE call[c].at # "changed"
    <3>1. spent'.untold <=> spent.untold
      BY <1>5, <2>2
    <3>2. \A n : Told(n) => Told(n)'
      BY <1>1, <1>2, <2>2 DEF Told
    <3>3. OnItsWay => OnItsWay'
      BY <1>1, <3>2, SamePrincipals, Zenon DEF OnItsWay
    <3>4. QED
      BY <3>1, <3>3 DEF NoticeOnItsWay
  <2>3. QED
    BY <2>1, <2>2
<1>7. QED
  BY <1>1, <1>2, <1>4, <1>6, SameOperations DEF TablesTyped, StreamTyped

\* A stream that opens has a check before it.
LEMMA OpenStreamKeeps ==
    ASSUME AccessInv, OpenStream
    PROVE  AccessInv'
<1> USE DEF AccessInv
<1>1. UNCHANGED <<users, sessions, seats, operations, notices, call, spent>>
  BY DEF OpenStream, Tables
<1>2. PICK who \in Principals :
        watch' = [who |-> who, at |-> "idle", read |-> 0, seen |-> 0, due |-> TRUE]
  BY DEF OpenStream, Principals
<1>3. watch' \in Watching
  BY <1>2 DEF Watching
<1>4. StreamTyped'
  BY <1>1, <1>2, <1>3 DEF StreamTyped
<1>5. watch'.due = TRUE /\ watch'.at = "idle"
  BY <1>2
<1>6. NoticeOnItsWay'
  BY <1>5, Zenon DEF NoticeOnItsWay, OnItsWay
<1>7. QED
  BY <1>1, <1>4, <1>6, SameOperations DEF TablesTyped, CallsTyped

\* Told is about what a step of the stream leaves alone.
LEMMA SameTold ==
    ASSUME UNCHANGED <<notices, call>>
    PROVE  \A n : Told(n)' <=> Told(n)
BY DEF Told, SomeChanged

\* A step of the stream looks at the principal, or relies on what it knew.
LEMMA StreamRelies ==
    ASSUME AccessInv, UNCHANGED <<users, sessions, seats, operations, notices, call, spent>>,
           watch' \in Watching, watch'.read \in {watch.read, notices, 0},
           watch'.seen \in {watch.seen, watch.read, 0},
           watch'.at # "off" => watch.at # "off" /\ watch'.who = watch.who,
           OnItsWay => OnItsWay'
    PROVE  AccessInv'
<1> USE DEF AccessInv
<1>1. StreamTyped'
  <2>1. notices \in Nat /\ watch.read <= notices /\ watch.seen <= notices /\ notices' = notices
    BY DEF StreamTyped
  <2>2. watch'.read <= notices /\ watch'.seen <= notices
    BY <2>1 DEF StreamTyped, Watching
  <2>3. watch'.at # "off" => watch'.who \in Principals
    BY DEF StreamTyped
  <2>4. QED
    BY <2>1, <2>2, <2>3 DEF StreamTyped
<1>2. NoticeOnItsWay'
  BY DEF NoticeOnItsWay
<1>3. QED
  BY <1>1, <1>2, SameOperations DEF TablesTyped, CallsTyped

\* The generation is read before the principal is looked up.
LEMMA StartPassKeeps ==
    ASSUME AccessInv, StartPass
    PROVE  AccessInv'
<1>1. /\ UNCHANGED <<users, sessions, seats, operations, notices, call, spent>>
      /\ watch.at = "idle"
      /\ watch' = [watch EXCEPT !.at = "read", !.read = notices]
  BY DEF StartPass, Tables
<1>2. watch \in Watching /\ notices \in Nat
  BY DEF AccessInv, StreamTyped
<1>3. watch' \in Watching
  BY <1>1, <1>2, Zenon DEF Watching
<1>4. /\ watch'.at = "read" /\ watch'.read = notices
      /\ watch'.who = watch.who /\ watch'.seen = watch.seen
  BY <1>1, <1>2 DEF Watching
<1>5. watch'.due = watch.due
  BY <1>1, <1>2, Zenon DEF Watching
<1>6. TakenAway(watch.who)' <=> TakenAway(watch.who)
  BY <1>1, <1>4 DEF TakenAway, Good, SessionGood
<1>7. OnItsWay => OnItsWay'
  BY <1>1, <1>4, <1>5, <1>6, SameTold, Zenon DEF OnItsWay
<1>8. QED
  BY <1>1, <1>3, <1>4, <1>7, StreamRelies

\* The check passes over a principal only on the strength of the last one.
LEMMA CheckPrincipalKeeps ==
    ASSUME AccessInv, CheckPrincipal
    PROVE  AccessInv'
<1>1. /\ UNCHANGED <<users, sessions, seats, operations, notices, call, spent>>
      /\ watch.at = "read"
  BY DEF CheckPrincipal, Tables
<1>2. watch \in Watching /\ notices \in Nat
  BY DEF AccessInv, StreamTyped
<1>3. CASE watch' = [watch EXCEPT !.at = "sending"]
  <2>1. watch' \in Watching
    BY <1>2, <1>3, Zenon DEF Watching
  <2>2. /\ watch'.at = "sending" /\ watch'.read = watch.read
        /\ watch'.who = watch.who /\ watch'.seen = watch.seen
    BY <1>2, <1>3 DEF Watching
  <2>3. watch'.due = watch.due
    BY <1>2, <1>3, Zenon DEF Watching
  <2>4. TakenAway(watch.who)' <=> TakenAway(watch.who)
    BY <1>1, <2>2 DEF TakenAway, Good, SessionGood
  <2>5. OnItsWay => OnItsWay'
    BY <1>1, <2>2, <2>3, <2>4, SameTold, Zenon DEF OnItsWay
  <2>6. QED
    BY <1>1, <2>1, <2>2, <2>5, StreamRelies
<1>4. CASE Good(watch.who) /\ watch' = [watch EXCEPT !.at = "cleared"]
  <2>1. watch' \in Watching
    BY <1>2, <1>4, Zenon DEF Watching
  <2>2. /\ watch'.at = "cleared" /\ watch'.read = watch.read
        /\ watch'.who = watch.who /\ watch'.seen = watch.seen
    BY <1>2, <1>4 DEF Watching
  <2>3. ~TakenAway(watch.who)'
    BY <1>1, <1>4, <2>2 DEF TakenAway, Good, SessionGood
  <2>4. OnItsWay'
    BY <2>2, <2>3, Zenon DEF OnItsWay
  <2>5. QED
    BY <1>1, <2>1, <2>2, <2>4, StreamRelies
<1>5. CASE watch' = [watch EXCEPT !.who = NoOne, !.at = "off", !.read = 0, !.seen = 0,
                                  !.due = FALSE]
  <2>1. watch' \in Watching
    BY <1>2, <1>5, Zenon DEF Watching
  <2>2. watch'.at = "off" /\ watch'.read = 0 /\ watch'.seen = 0
    BY <1>2, <1>5 DEF Watching
  <2>3. OnItsWay'
    BY <2>2, Zenon DEF OnItsWay
  <2>4. QED
    BY <1>1, <2>1, <2>2, <2>3, StreamRelies
<1>6. QED
  BY <1>3, <1>4, <1>5, Zenon DEF CheckPrincipal

\* What was read before the check is what the check is remembered for.
LEMMA RememberCheckKeeps ==
    ASSUME AccessInv, RememberCheck
    PROVE  AccessInv'
<1>1. /\ UNCHANGED <<users, sessions, seats, operations, notices, call, spent>>
      /\ watch.at = "cleared"
      /\ watch' = [watch EXCEPT !.at = "sending", !.seen = watch.read, !.due = FALSE]
  BY DEF RememberCheck, GenerationSeen, Tables
<1>2. watch \in Watching
  BY DEF AccessInv, StreamTyped
<1>3. watch' \in Watching
  BY <1>1, <1>2, Zenon DEF Watching
<1>4. /\ watch'.at = "sending" /\ watch'.read = watch.read
      /\ watch'.who = watch.who /\ watch'.seen = watch.read
  BY <1>1, <1>2 DEF Watching
<1>5. TakenAway(watch.who)' <=> TakenAway(watch.who)
  BY <1>1, <1>4 DEF TakenAway, Good, SessionGood
<1>6. OnItsWay => OnItsWay'
  BY <1>1, <1>4, <1>5, SameTold, Zenon DEF OnItsWay
<1>7. QED
  BY <1>1, <1>3, <1>4, <1>6, StreamRelies

\* The stream waits with what it knows.
LEMMA EndPassKeeps ==
    ASSUME AccessInv, EndPass
    PROVE  AccessInv'
<1>1. /\ UNCHANGED <<users, sessions, seats, operations, notices, call, spent>>
      /\ watch.at = "sending"
      /\ watch' = [watch EXCEPT !.at = "idle", !.read = 0]
  BY DEF EndPass, Tables
<1>2. watch \in Watching
  BY DEF AccessInv, StreamTyped
<1>3. watch' \in Watching
  BY <1>1, <1>2, Zenon DEF Watching
<1>4. /\ watch'.at = "idle" /\ watch'.read = 0
      /\ watch'.who = watch.who /\ watch'.seen = watch.seen
  BY <1>1, <1>2 DEF Watching
<1>5. watch'.due = watch.due
  BY <1>1, <1>2, Zenon DEF Watching
<1>6. TakenAway(watch.who)' <=> TakenAway(watch.who)
  BY <1>1, <1>4 DEF TakenAway, Good, SessionGood
<1>7. OnItsWay => OnItsWay'
  BY <1>1, <1>4, <1>5, <1>6, SameTold, Zenon DEF OnItsWay
<1>8. QED
  BY <1>1, <1>3, <1>4, <1>7, StreamRelies

\* A check that is due relies on nothing.
LEMMA CheckComesDueKeeps ==
    ASSUME AccessInv, CheckComesDue
    PROVE  AccessInv'
<1>1. /\ UNCHANGED <<users, sessions, seats, operations, notices, call, spent>>
      /\ watch.at # "off"
      /\ watch' = [watch EXCEPT !.due = TRUE]
  BY DEF CheckComesDue, Tables
<1>2. watch \in Watching
  BY DEF AccessInv, StreamTyped
<1>3. watch' \in Watching
  BY <1>1, <1>2, Zenon DEF Watching
<1>4. /\ watch'.at = watch.at /\ watch'.read = watch.read
      /\ watch'.who = watch.who /\ watch'.seen = watch.seen
  BY <1>1, <1>2 DEF Watching
<1>5. watch'.due
  BY <1>1, <1>2, Zenon DEF Watching
<1>6. TakenAway(watch.who)' <=> TakenAway(watch.who)
  BY <1>1, <1>4 DEF TakenAway, Good, SessionGood
<1>7. OnItsWay => OnItsWay'
  BY <1>1, <1>4, <1>5, <1>6, SameTold, Zenon DEF OnItsWay
<1>8. QED
  BY <1>1, <1>3, <1>4, <1>7, StreamRelies

\* After a restart there is no stream.
LEMMA ServerRestartsKeeps ==
    ASSUME AccessInv, ServerRestarts
    PROVE  AccessInv'
<1> USE DEF AccessInv
<1>1. /\ UNCHANGED <<seats, operations>>
      /\ notices' = 0
      /\ call' = [c \in Callers |-> NoCall]
      /\ watch' = [who |-> NoOne, at |-> "off", read |-> 0, seen |-> 0, due |-> FALSE]
      /\ spent' = [spent EXCEPT !.faults = @ + 1]
  BY DEF ServerRestarts, AccessFault
<1>2. TablesTyped'
  <2>1. CASE KnownUsers = {}
    BY <1>1, <2>1, SessionsGo DEF ServerRestarts, TablesTyped
  <2>2. CASE KnownUsers # {}
    BY <1>1, <2>2 DEF ServerRestarts, TablesTyped
  <2>3. QED
    BY <2>1, <2>2
<1>3. CallsTyped'
  BY <1>1 DEF CallsTyped, Calls, NoCall, Kinds, Subjects
<1>4. StreamTyped'
  BY <1>1 DEF StreamTyped, Watching
<1>5. spent' \in Spending
  BY <1>1 DEF Spending
<1>6. NoticeOnItsWay'
  <2>1. watch'.at = "off"
    BY <1>1
  <2>2. QED
    BY <2>1, Zenon DEF NoticeOnItsWay, OnItsWay
<1>7. QED
  BY <1>1, <1>2, <1>3, <1>4, <1>5, <1>6, SameOperations

\* And when nothing happens.
LEMMA AccessStutterKeeps ==
    ASSUME AccessInv, UNCHANGED access
    PROVE  AccessInv'
<1>1. UNCHANGED <<users, sessions, seats, operations, notices, call, watch, spent>>
  BY DEF access
<1>2. NoticeOnItsWay'
  BY <1>1, StreamUndisturbed, SamePrincipals DEF AccessInv, SomeChanged
<1>3. QED
  BY <1>1, <1>2, SameOperations DEF AccessInv, TablesTyped, CallsTyped, StreamTyped

\* Every step of the accounts, keys and streams keeps the invariant.
LEMMA AccessNextKeeps ==
    ASSUME AccessInv, [AccessNext]_access
    PROVE  AccessInv'
<1>1. ASSUME NEW c \in Callers,
             \/ Authorised(c) \/ Check(c) \/ Enter(c) \/ ChangeAccount(c) \/ ProjectKey(c)
             \/ RevokeKey(c) \/ Notify(c) \/ CallFails(c)
      PROVE  AccessInv'
  BY <1>1, BeginsKeeps, CheckKeeps, EnterKeeps, ChangeAccountKeeps, ProjectKeyKeeps,
     RevokeKeyKeeps, NotifyKeeps, CallFailsKeeps
<1>2. ASSUME NEW s \in Sessions, DropSession(s) \/ SessionEnds(s)
      PROVE  AccessInv'
  BY <1>2, DropSessionKeeps, SessionEndsKeeps
<1>3. CASE OpenStream \/ PassSteps \/ CheckComesDue \/ ServerRestarts
  BY <1>3, OpenStreamKeeps, StartPassKeeps, CheckPrincipalKeeps, RememberCheckKeeps,
     EndPassKeeps, CheckComesDueKeeps, ServerRestartsKeeps DEF PassSteps
<1>4. CASE UNCHANGED access
  BY <1>4, AccessStutterKeeps
<1>5. QED
  BY <1>1, <1>2, <1>3, <1>4 DEF AccessNext

-----------------------------------------------------------------------------
(* What a step may never do.                                               *)

\* No step lets a revoked key in again, or changes what an operation is noted for.
LEMMA StepRepeatsNothing ==
    ASSUME AccessInv, [AccessNext]_access
    PROVE  /\ \A k \in SeatKeys : seats[k] = "revoked" => seats'[k] = "revoked"
           /\ \A o \in Operations : operations[o] # NoOne => operations'[o] = operations[o]
<1> USE DEF AccessInv
<1> SUFFICES (seats' = seats /\ operations' = operations) \/
             (\E c \in Callers : ProjectKey(c) \/ RevokeKey(c))
  <2>1. CASE seats' = seats /\ operations' = operations
    BY <2>1
  <2>2. ASSUME NEW c \in Callers, ProjectKey(c)
        PROVE  /\ \A k \in SeatKeys : seats[k] = "revoked" => seats'[k] = "revoked"
               /\ \A o \in Operations : operations[o] # NoOne => operations'[o] = operations[o]
    <3> DEFINE r == call[c].of
    <3>1. Projected(r) /\ r.key \in SeatKeys /\ r.operation \in Operations
      BY <2>2 DEF ProjectKey, CallsTyped, SeatKeys, Operations
    <3> HIDE DEF r
    <3>2. QED
      BY <3>1 DEF Projected, TablesTyped
  <2>3. ASSUME NEW c \in Callers, RevokeKey(c)
        PROVE  /\ \A k \in SeatKeys : seats[k] = "revoked" => seats'[k] = "revoked"
               /\ \A o \in Operations : operations[o] # NoOne => operations'[o] = operations[o]
    BY <2>3 DEF RevokeKey, Revoked, TablesTyped
  <2>4. QED
    BY <2>1, <2>2, <2>3
<1>1. CASE \E c \in Callers : ProjectKey(c) \/ RevokeKey(c)
  BY <1>1
<1>2. ASSUME NEW c \in Callers,
             \/ Authorised(c) \/ Check(c) \/ Enter(c) \/ ChangeAccount(c)
             \/ Notify(c) \/ CallFails(c)
      PROVE  seats' = seats /\ operations' = operations
  BY <1>2 DEF Authorised, Begins, Check, Enter, ChangeAccount, Notify, CallFails, Tables
<1>3. ASSUME NEW s \in Sessions, DropSession(s) \/ SessionEnds(s)
      PROVE  seats' = seats /\ operations' = operations
  BY <1>3 DEF DropSession, SessionEnds
<1>4. CASE OpenStream \/ PassSteps \/ CheckComesDue \/ ServerRestarts
  BY <1>4 DEF OpenStream, PassSteps, StartPass, CheckPrincipal, RememberCheck, EndPass,
     CheckComesDue, ServerRestarts, Tables
<1>5. CASE UNCHANGED access
  BY <1>5 DEF access
<1>6. QED
  BY <1>1, <1>2, <1>3, <1>4, <1>5 DEF AccessNext

\* The number of an operation that made a key is one or none.
LEMMA OperationsCounted ==
    ASSUME OneOperation
    PROVE  \A k \in SeatKeys : Cardinality(MadeBy(k)) = IF seats[k] = "absent" THEN 0 ELSE 1
<1> TAKE k \in SeatKeys
<1>1. CASE seats[k] = "absent"
  <2>1. Cardinality({}) = 0
    BY FS_EmptySet
  <2>2. QED
    BY <1>1, <2>1 DEF OneOperation
<1>2. CASE seats[k] # "absent"
  <2>1. PICK o \in Operations : MadeBy(k) = {o}
    BY <1>2 DEF OneOperation
  <2>2. Cardinality({o}) = 1
    BY FS_Singleton
  <2>3. QED
    BY <1>2, <2>1, <2>2
<1>3. QED
  BY <1>1, <1>2

\* The invariant gives the module's own type invariant and its safety property.
LEMMA AccessInvSuffices ==
    ASSUME AccessInv
    PROVE  AccessTypeOK /\ NoticeReachesStream
<1> USE DEF AccessInv
<1>1. AccessTypeOK
  <2>1. \A k \in SeatKeys :
            Cardinality({o \in Operations : operations[o] # NoOne /\ operations[o].key = k}) =
                IF seats[k] = "absent" THEN 0 ELSE 1
    BY OperationsCounted, Zenon DEF MadeBy
  <2>2. \A c \in Callers : call[c].at \in {"free", "authorised", "checked", "changed"}
    BY DEF CallsTyped, Calls
  <2>3. /\ watch.at \in {"off", "idle", "read", "cleared", "sending"}
        /\ {watch.read, watch.seen} \subseteq Nat
    BY DEF StreamTyped, Watching
  <2>4. watch.due \in BOOLEAN
    BY Zenon DEF StreamTyped, Watching
  <2>5. TablesTyped /\ notices \in Nat
    BY DEF StreamTyped
  <2>6. QED
    BY <2>1, <2>2, <2>3, <2>4, <2>5, Zenon DEF AccessTypeOK, TablesTyped
<1>2. NoticeReachesStream
  BY Zenon DEF NoticeReachesStream, NoticeOnItsWay, OnItsWay, Told, SomeChanged
<1>3. QED
  BY <1>1, <1>2

-----------------------------------------------------------------------------
(* The theorems, for the specification that the run server_clients checks.  *)

\* The composition's steps are the component's, or leave it alone.
LEMMA ClientsRunAccess == ClientsSpec => AccessSpec
<1>1. ClientsInit => AccessInit
  BY DEF ClientsInit
<1>2. [ClientsNext]_clients => [AccessNext]_access
  BY DEF ClientsNext, ByWindows, ByBeats, ByBilling, ByCallers, clients
<1>3. QED
  BY <1>1, <1>2, PTL DEF ClientsSpec, AccessSpec

\* The invariant holds throughout.
LEMMA AccessInvariant == ClientsSpec => []AccessInv
<1>1. AccessInit => AccessInv
  BY AccessInitEstablishes
<1>2. AccessInv /\ [AccessNext]_access => AccessInv'
  BY AccessNextKeeps
<1>3. QED
  BY <1>1, <1>2, ClientsRunAccess, PTL DEF AccessSpec

\* The tables, requests and streams hold what they are declared to, and every
\* client key is there together with exactly one operation (auth_store.py 685).
THEOREM AccessTypeCorrect == ClientsSpec => []AccessTypeOK
BY AccessInvariant, AccessInvSuffices, PTL

\* Whatever users, sessions and requests there are, a session or key that is taken
\* away shows in the generation by the stream's next pass, or its request has yet
\* to tell, until a request fails between its change and its notice
\* (http_server.py 4737, auth.py 123).
THEOREM NoticesAreSeen == ClientsSpec => []NoticeReachesStream
BY AccessInvariant, AccessInvSuffices, PTL

\* SeAT may repeat whatever it likes: a revoked key stays revoked, and an
\* operation keeps the request it was first noted for (auth_store.py 685, 799).
THEOREM SeatMayRepeat == ClientsSpec => RepetitionChangesNothing
<1>1. AccessInv /\ [AccessNext]_access =>
        [/\ \A k \in SeatKeys : seats[k] = "revoked" => seats'[k] = "revoked"
         /\ \A o \in Operations : operations[o] # NoOne => operations'[o] = operations[o]]_access
  BY StepRepeatsNothing
<1>2. QED
  BY <1>1, AccessInvariant, ClientsRunAccess, PTL DEF AccessSpec, RepetitionChangesNothing

-----------------------------------------------------------------------------
OnlineSpec == OnlineInit /\ [][OnlineNext]_billing

-----------------------------------------------------------------------------
(* Online time: the inductive invariant.                                   *)

RealBeats ==
    [seen : 1..MaxTicks, account : Accounts, connection : 1..MaxChoices + 1,
     revision : 1..MaxChoices + 1, systems : SUBSET ScopeSystems, number : 1..MaxBeats]

\* A heartbeat that was sent, or none.
Beats == RealBeats \cup {NoBeat}

Apps == [account : Accounts, connection : 1..MaxChoices + 1, revision : 1..MaxChoices + 1,
         systems : SUBSET ScopeSystems, waiting : BOOLEAN]

Locals == [at : {"free", "taken", "read", "recorded", "raw", "written"},
           beat : Beats, previous : Beats, raw : Beats]

Intervals == [account : Accounts, system : ScopeSystems, from : 1..MaxTicks,
              to : 1..MaxTicks, first : 1..MaxBeats, last : 1..MaxBeats]

Memories == [beats : 0..MaxBeats, choices : 0..MaxChoices, faults : 0..MaxBeatFaults,
             raced : BOOLEAN, dropped : SUBSET [system : ScopeSystems, after : 0..MaxBeats]]

OnlineTyped ==
    /\ app \in Apps
    /\ handling \in [Handlers -> Locals]
    /\ memory \in Beats /\ filed \in Beats
    /\ usage \subseteq Intervals
    /\ clock \in 1..MaxTicks
    /\ past \in Memories

\* A thread works on a heartbeat that was sent, and writes what it has recorded.
BeatsSent ==
    \A h \in Handlers :
        /\ handling[h].at # "free" => handling[h].beat # NoBeat
        /\ handling[h].at = "recorded" => memory # NoBeat
        /\ handling[h].at \in {"raw", "written"} => handling[h].raw # NoBeat

\* The heartbeats that the server still knows of.
Known(b) ==
    \/ b \in {NoBeat, memory, filed}
    \/ \E h \in Handlers : b \in {handling[h].beat, handling[h].previous, handling[h].raw}

\* Every change of the selection comes between two heartbeats and raises the
\* revision: one that was sent before it has a lower one than any sent after it.
Parted(d, b, c) == b.number <= d.after /\ d.after < c.number => b.revision < c.revision

\* What is known was sent, and the changes since then show in the app's revision.
SentBefore(b) ==
    /\ b.number <= past.beats /\ b.revision <= app.revision
    /\ \A d \in past.dropped : b.number <= d.after => b.revision < app.revision

RevisionsTell ==
    /\ app.revision <= past.choices + 1
    /\ \A d \in past.dropped : d.after <= past.beats
    /\ \A b \in Beats : Known(b) => SentBefore(b)
    /\ \A b, c \in Beats : Known(b) /\ Known(c) =>
        \A d \in past.dropped : Parted(d, b, c)

\* Nothing is billed past the last heartbeat or across a change of the selection.
BilledAsSelected ==
    /\ \A u \in usage : u.last <= past.beats
    /\ SelectedThroughout

AtWork(h) == handling[h].at \notin {"free", "written"}

\* How far a thread has come with a heartbeat that no other has overtaken: what it
\* is to bill begins with what was last filed, or later.
InTurn(h) ==
    /\ handling[h].at = "taken" => memory.seen <= handling[h].beat.seen
    /\ handling[h].at = "read" =>
        handling[h].previous = memory /\ memory.seen <= handling[h].beat.seen
    /\ handling[h].at \in {"recorded", "raw"} =>
        /\ memory = handling[h].beat
        /\ filed.seen <= handling[h].previous.seen
        /\ handling[h].previous.seen <= memory.seen
    /\ handling[h].at = "raw" => handling[h].raw = memory
    /\ handling[h].at = "written" =>
        /\ handling[h].previous.seen <= handling[h].raw.seen
        /\ handling[h].raw.seen <= filed.seen

\* What two threads have yet to bill does not overlap, nor with what is billed.
Apart(g, h) ==
    handling[g].at = "written" /\ handling[h].at = "written" /\ g # h =>
        \/ handling[g].raw.seen <= handling[h].previous.seen
        \/ handling[h].raw.seen <= handling[g].previous.seen

ApartFromBilled(h) ==
    handling[h].at = "written" =>
        \A u \in usage : u.to <= handling[h].previous.seen \/ handling[h].raw.seen <= u.from

BilledApart ==
    \A u, v \in usage : u # v /\ u.system = v.system => u.to <= v.from \/ v.to <= u.from

OneAtATime ==
    /\ \A g, h \in Handlers : AtWork(g) /\ AtWork(h) => g = h
    /\ memory.seen <= clock /\ filed.seen <= memory.seen
    /\ \A h \in Handlers : AtWork(h) => handling[h].beat.seen <= clock
    /\ \A h \in Handlers : InTurn(h)
    /\ \A g, h \in Handlers : Apart(g, h)
    /\ \A h \in Handlers : ApartFromBilled(h)
    /\ \A u \in usage : u.to <= filed.seen
    /\ BilledApart

OnlineInv ==
    /\ OnlineTyped /\ BeatsSent
    /\ RevisionsTell /\ BilledAsSelected
    /\ past.raced \/ OneAtATime

-----------------------------------------------------------------------------
(* What the definitions give.                                              *)

\* No heartbeat is told from any that was sent.
LEMMA NoBeatIsNone ==
    /\ NoBeat \notin RealBeats
    /\ NoBeat.seen = 0 /\ NoBeat.number = 0 /\ NoBeat.revision = 0
    /\ \A b \in Beats : b.seen \in 0..MaxTicks /\ b.number \in 0..MaxBeats /\ b.revision \in 0..MaxChoices + 1
BY OnlineAssumption DEF NoBeat, RealBeats, Beats

\* A thread without a request.
LEMMA FreeTyped == Free \in Locals
BY DEF Free, Locals, Beats

\* Nobody is connected and nothing is billed at first.
LEMMA OnlineInitEstablishes == OnlineInit => OnlineInv
<1> USE OnlineAssumption
<1> SUFFICES ASSUME OnlineInit
             PROVE  OnlineInv
  OBVIOUS
<1>1. (CHOOSE a \in Accounts : TRUE) \in Accounts
  OBVIOUS
<1>2. OnlineTyped
  <2>1. app \in Apps
    BY <1>1 DEF OnlineInit, Apps
  <2>2. past \in Memories
    BY DEF OnlineInit, Memories
  <2>3. QED
    BY <2>1, <2>2, FreeTyped DEF OnlineInit, OnlineTyped, Beats
<1>3. BeatsSent
  BY DEF OnlineInit, BeatsSent, Free
<1>4. \A b \in Beats : Known(b) => b = NoBeat
  BY DEF OnlineInit, Known, Free
<1>5. RevisionsTell
  BY <1>4, NoBeatIsNone DEF OnlineInit, RevisionsTell, SentBefore, Parted
<1>6. BilledAsSelected
  BY DEF OnlineInit, BilledAsSelected, SelectedThroughout
<1>7. OneAtATime
  BY NoBeatIsNone DEF OnlineInit, OneAtATime, AtWork, InTurn, Apart, ApartFromBilled,
     BilledApart, Free
<1>8. QED
  BY <1>2, <1>3, <1>5, <1>6, <1>7 DEF OnlineInv

-----------------------------------------------------------------------------
(* What the parts of a step do.                                            *)

\* A fault counts; nothing else is remembered.
LEMMA BeatFaultCounts ==
    ASSUME past \in Memories, BeatFault
    PROVE  /\ past' \in Memories
           /\ past'.beats = past.beats /\ past'.choices = past.choices
           /\ past'.dropped = past.dropped
           /\ past'.raced = past.raced
<1>1. past' = [past EXCEPT !.faults = @ + 1] /\ past.faults < MaxBeatFaults
  BY DEF BeatFault
<1>2. past.faults + 1 \in 0..MaxBeatFaults
  BY <1>1, OnlineAssumption DEF Memories
<1>3. past' \in Memories
  BY <1>1, <1>2, Zenon DEF Memories
<1>4. /\ past'.beats = past.beats /\ past'.choices = past.choices
      /\ past'.dropped = past.dropped
  BY <1>1 DEF Memories
<1>5. past'.raced = past.raced
  BY <1>1, Zenon DEF Memories
<1>6. QED
  BY <1>3, <1>4, <1>5

\* Whether the client waits does not concern the server.
LEMMA AppWaits ==
    ASSUME app \in Apps, NEW b \in BOOLEAN, app' = [app EXCEPT !.waiting = b]
    PROVE  app' \in Apps /\ app'.revision = app.revision
<1>1. app' \in Apps
  BY Zenon DEF Apps
<1>2. app'.revision = app.revision
  BY DEF Apps
<1>3. QED
  BY <1>1, <1>2

\* An answer ends the client's waiting, if it still waits for it.
LEMMA AnsweredWaits ==
    ASSUME app \in Apps, NEW h, Answered(h)
    PROVE  app' \in Apps /\ app'.revision = app.revision
<1>1. app' = [app EXCEPT !.waiting = app.waiting /\ handling[h].beat.number # past.beats]
  BY DEF Answered
<1>2. (app.waiting /\ handling[h].beat.number # past.beats) \in BOOLEAN
  OBVIOUS
<1>3. QED
  BY <1>1, <1>2, AppWaits

\* The revisions tell as before when the server learns of no new heartbeat.
LEMMA RevisionsKept ==
    ASSUME RevisionsTell, app'.revision = app.revision, past'.beats = past.beats,
           past'.choices = past.choices, past'.dropped = past.dropped,
           \A b \in Beats : Known(b)' => Known(b)
    PROVE  RevisionsTell'
BY DEF RevisionsTell, SentBefore, Parted

\* Nor is anything billed otherwise.
LEMMA BilledKept ==
    ASSUME BilledAsSelected, usage' = usage, past'.beats = past.beats,
           past'.dropped = past.dropped
    PROVE  BilledAsSelected'
BY DEF BilledAsSelected, SelectedThroughout

\* A change of the selection comes after all that was sent, and before what is not.
LEMMA DroppingParts ==
    ASSUME OnlineTyped, RevisionsTell, BilledAsSelected, NEW systems \in SUBSET ScopeSystems,
           Dropping(systems), UNCHANGED <<handling, memory, filed, usage, clock>>,
           app'.revision = past.choices + 2
    PROVE  /\ past' \in Memories /\ past'.raced = past.raced
           /\ RevisionsTell' /\ BilledAsSelected'
<1> USE OnlineAssumption
<1> DEFINE new == {[system |-> s, after |-> past.beats] : s \in systems}
<1>1. /\ past.choices < MaxChoices
      /\ past' = [past EXCEPT !.choices = @ + 1, !.dropped = @ \cup new]
  BY DEF Dropping
<1>2. past.beats \in 0..MaxBeats /\ past.choices \in 0..MaxChoices
  BY DEF OnlineTyped, Memories
<1>3. new \subseteq [system : ScopeSystems, after : 0..MaxBeats] /\ \A d \in new : d.after = past.beats
  BY <1>2
<1> HIDE DEF new
<1>4. past' \in Memories /\ past'.raced = past.raced
  <2>1. past.choices + 1 \in 0..MaxChoices
    BY <1>1, <1>2
  <2>2. past.dropped \cup new \in SUBSET [system : ScopeSystems, after : 0..MaxBeats]
    BY <1>3 DEF OnlineTyped, Memories
  <2>3. past \in Memories
    BY DEF OnlineTyped
  <2>4. past' \in Memories
    BY <1>1, <2>1, <2>2, <2>3, Zenon DEF Memories
  <2>5. past'.raced = past.raced
    BY <1>1, <2>3, Zenon DEF Memories
  <2>6. QED
    BY <2>4, <2>5
<1>5. /\ past'.beats = past.beats /\ past'.choices = past.choices + 1
      /\ past'.dropped = past.dropped \cup new
  BY <1>1 DEF OnlineTyped, Memories
<1>6. \A b \in Beats : Known(b)' <=> Known(b)
  BY DEF Known
<1>7. \A b \in Beats : Known(b) => b.number <= past.beats /\ b.revision <= past.choices + 1
  BY <1>2, NoBeatIsNone DEF RevisionsTell, SentBefore, OnlineTyped, Apps
<1>8. RevisionsTell'
  <2>1. app'.revision <= past'.choices + 1
    BY <1>2, <1>5
  <2>2. \A d \in past'.dropped : d.after <= past'.beats
    BY <1>2, <1>3, <1>5 DEF RevisionsTell
  <2>3. \A b \in Beats : Known(b)' => SentBefore(b)'
    <3> SUFFICES ASSUME NEW b \in Beats, Known(b)
                 PROVE  SentBefore(b)'
      BY <1>6
    <3>1. b.number <= past.beats /\ b.revision < app'.revision
      BY <1>2, <1>7, NoBeatIsNone
    <3>2. QED
      BY <1>2, <1>5, <3>1, NoBeatIsNone DEF SentBefore
  <2>4. \A b, c \in Beats : Known(b)' /\ Known(c)' => \A d \in past'.dropped : Parted(d, b, c)'
    <3> SUFFICES ASSUME NEW b \in Beats, NEW c \in Beats, Known(b), Known(c),
                        NEW d \in past'.dropped
                 PROVE  Parted(d, b, c)
      BY <1>6 DEF Parted
    <3>1. CASE d \in past.dropped
      BY <3>1 DEF RevisionsTell
    <3>2. CASE d \in new
      BY <1>2, <1>3, <1>7, <3>2, NoBeatIsNone DEF Parted
    <3>3. QED
      BY <1>5, <3>1, <3>2
  <2>5. QED
    BY <2>1, <2>2, <2>3, <2>4 DEF RevisionsTell
<1>9. BilledAsSelected'
  <2>1. \A u \in usage : u.last <= past.beats /\ u.last \in 1..MaxBeats /\ u.first \in 1..MaxBeats
    BY DEF BilledAsSelected, OnlineTyped, Intervals
  <2>2. \A d \in new, u \in usage : d.after >= u.last
    BY <1>2, <1>3, <2>1
  <2>3. SelectedThroughout'
    BY <1>5, <2>2 DEF BilledAsSelected, SelectedThroughout
  <2>4. QED
    BY <1>5, <2>1, <2>3 DEF BilledAsSelected
<1>10. QED
  BY <1>4, <1>8, <1>9

\* What is to be kept when the threads and their rows are left alone.
LEMMA TurnsKept ==
    ASSUME past.raced \/ OneAtATime, past'.raced = past.raced, clock' = clock,
           UNCHANGED <<handling, memory, filed, usage>>
    PROVE  past'.raced \/ OneAtATime'
BY Zenon DEF OneAtATime, AtWork, InTurn, Apart, ApartFromBilled, BilledApart

-----------------------------------------------------------------------------
(* Each step keeps the invariant.                                          *)

\* A selection has a revision of its own.
LEMMA SelectKeeps ==
    ASSUME OnlineInv, NEW systems \in SUBSET ScopeSystems, Select(systems)
    PROVE  OnlineInv'
<1> USE DEF OnlineInv
<1>1. /\ UNCHANGED <<handling, memory, filed, usage, clock>>
      /\ Dropping(app.systems \ systems)
      /\ app' = [app EXCEPT !.systems = systems, !.revision = past.choices + 2]
  BY DEF Select
<1>2. app.systems \ systems \in SUBSET ScopeSystems
  BY DEF OnlineTyped, Apps
<1>3. past.choices + 2 \in 1..MaxChoices + 1
  BY <1>1, OnlineAssumption DEF Dropping, OnlineTyped, Memories
<1>4. app' \in Apps
  BY <1>1, <1>3, Zenon DEF OnlineTyped, Apps
<1>5. app'.revision = past.choices + 2
  BY <1>1 DEF OnlineTyped, Apps
<1>6. past' \in Memories /\ past'.raced = past.raced /\ RevisionsTell' /\ BilledAsSelected'
  BY <1>1, <1>2, <1>5, DroppingParts
<1>7. past'.raced \/ OneAtATime'
  BY <1>1, <1>6, TurnsKept
<1>8. OnlineTyped' /\ BeatsSent'
  BY <1>1, <1>4, <1>6 DEF OnlineTyped, BeatsSent
<1>9. QED
  BY <1>6, <1>7, <1>8

\* So has a new connection.
LEMMA ReplaceWorkerKeeps ==
    ASSUME OnlineInv, NEW a \in Accounts, ReplaceWorker(a)
    PROVE  OnlineInv'
<1> USE DEF OnlineInv
<1>1. /\ UNCHANGED <<handling, memory, filed, usage, clock>>
      /\ Dropping(app.systems)
      /\ app' = [app EXCEPT !.account = a, !.connection = past.choices + 2,
                            !.revision = past.choices + 2, !.waiting = FALSE]
  BY DEF ReplaceWorker
<1>2. app.systems \in SUBSET ScopeSystems
  BY DEF OnlineTyped, Apps
<1>3. past.choices + 2 \in 1..MaxChoices + 1
  BY <1>1, OnlineAssumption DEF Dropping, OnlineTyped, Memories
<1>4. app' \in Apps
  BY <1>1, <1>3, Zenon DEF OnlineTyped, Apps
<1>5. app'.revision = past.choices + 2
  BY <1>1 DEF OnlineTyped, Apps
<1>6. past' \in Memories /\ past'.raced = past.raced /\ RevisionsTell' /\ BilledAsSelected'
  BY <1>1, <1>2, <1>5, DroppingParts
<1>7. past'.raced \/ OneAtATime'
  BY <1>1, <1>6, TurnsKept
<1>8. OnlineTyped' /\ BeatsSent'
  BY <1>1, <1>4, <1>6 DEF OnlineTyped, BeatsSent
<1>9. QED
  BY <1>6, <1>7, <1>8

\* The client gives a request up; the server goes on with it.
LEMMA TimeOutKeeps ==
    ASSUME OnlineInv, TimeOutBeat
    PROVE  OnlineInv'
<1> USE DEF OnlineInv
<1>1. /\ UNCHANGED <<handling, memory, filed, usage, clock>>
      /\ app' = [app EXCEPT !.waiting = FALSE]
      /\ BeatFault
  BY DEF TimeOutBeat
<1>2. app' \in Apps /\ app'.revision = app.revision
  BY <1>1, AppWaits DEF OnlineTyped
<1>3. /\ past' \in Memories /\ past'.beats = past.beats /\ past'.choices = past.choices
      /\ past'.dropped = past.dropped /\ past'.raced = past.raced
  BY <1>1, BeatFaultCounts DEF OnlineTyped
<1>4. RevisionsTell' /\ BilledAsSelected'
  BY <1>1, <1>2, <1>3, RevisionsKept, BilledKept DEF Known
<1>5. past'.raced \/ OneAtATime'
  BY <1>1, <1>3, TurnsKept
<1>6. QED
  BY <1>1, <1>2, <1>3, <1>4, <1>5 DEF OnlineTyped, BeatsSent

\* Time passes.
LEMMA TickKeeps ==
    ASSUME OnlineInv, OnlineTick
    PROVE  OnlineInv'
<1> USE DEF OnlineInv
<1>1. /\ UNCHANGED <<app, handling, memory, filed, usage, past>>
      /\ clock < MaxTicks /\ clock' = clock + 1
  BY DEF OnlineTick
<1>2. OnlineTyped'
  BY <1>1, OnlineAssumption DEF OnlineTyped
<1>3. RevisionsTell' /\ BilledAsSelected'
  BY <1>1, RevisionsKept, BilledKept DEF Known
<1>4. OneAtATime => OneAtATime'
  <2> SUFFICES ASSUME OneAtATime
               PROVE  OneAtATime'
    OBVIOUS
  <2>1. memory'.seen <= clock'
    BY <1>1, NoBeatIsNone, OnlineAssumption DEF OneAtATime, OnlineTyped
  <2>2. \A h \in Handlers : AtWork(h)' => handling'[h].beat.seen <= clock'
    BY <1>1, NoBeatIsNone, OnlineAssumption DEF OneAtATime, OnlineTyped, AtWork, Locals
  <2>3. (\A h \in Handlers : InTurn(h)') /\ (\A g, h \in Handlers : Apart(g, h)')
        /\ (\A h \in Handlers : ApartFromBilled(h)') /\ BilledApart'
    BY <1>1 DEF OneAtATime, InTurn, Apart, ApartFromBilled, BilledApart
  <2>4. QED
    BY <1>1, <2>1, <2>2, <2>3 DEF OneAtATime, AtWork
<1>5. past'.raced \/ OneAtATime'
  BY <1>1, <1>4, Zenon
<1>6. QED
  BY <1>1, <1>2, <1>3, <1>5 DEF BeatsSent

\* A new heartbeat has the newest revision and number.  If another one is at work,
\* the two race.
LEMMA PostHeartbeatKeeps ==
    ASSUME OnlineInv, NEW h \in Handlers, PostHeartbeat(h)
    PROVE  OnlineInv'
<1> USE OnlineAssumption DEF OnlineInv
<1>0. PICK raced \in BOOLEAN : raced <=> \E g \in Handlers : AtWork(g)
  OBVIOUS
<1>1. PICK new \in RealBeats : new = BeatNow
  <2>1. past.beats < MaxBeats
    BY DEF PostHeartbeat
  <2>2. past.beats + 1 \in 1..MaxBeats
    BY <2>1 DEF OnlineTyped, Memories
  <2>3. BeatNow \in RealBeats
    BY <2>2 DEF BeatNow, OnlineTyped, Apps, RealBeats
  <2>4. QED
    BY <2>3
<1>2. /\ UNCHANGED <<memory, filed, usage, clock>>
      /\ handling[h] = Free
      /\ ~past.raced
      /\ app' = [app EXCEPT !.waiting = TRUE]
      /\ handling' = [handling EXCEPT ![h] = [Free EXCEPT !.at = "taken", !.beat = new]]
      /\ past' = [past EXCEPT !.beats = @ + 1,
            !.raced = past.raced \/ \E g \in Handlers : handling[g].at \notin {"free", "written"}]
  BY <1>1 DEF PostHeartbeat
<1>3. app' \in Apps /\ app'.revision = app.revision
  BY <1>2, AppWaits DEF OnlineTyped
<1>4. PICK taken \in Locals : taken = [Free EXCEPT !.at = "taken", !.beat = new]
  BY FreeTyped DEF Locals, Beats
<1>5. /\ handling' \in [Handlers -> Locals]
      /\ handling'[h].at = "taken" /\ handling'[h].beat = new
      /\ handling'[h].previous = NoBeat /\ handling'[h].raw = NoBeat
      /\ \A g \in Handlers : g # h => handling'[g] = handling[g]
  <2>1. /\ taken.at = "taken" /\ taken.beat = new
        /\ taken.previous = NoBeat /\ taken.raw = NoBeat
    BY <1>4, FreeTyped DEF Locals, Free
  <2>2. handling' = [handling EXCEPT ![h] = taken]
    BY <1>2, <1>4
  <2>3. QED
    BY <2>1, <2>2 DEF OnlineTyped
<1>6. past.beats \in 0..MaxBeats /\ past.beats + 1 \in 0..MaxBeats /\ past \in Memories
  BY DEF PostHeartbeat, OnlineTyped, Memories
<1>7. past' \in Memories
  <2>1. (past.raced \/ \E g \in Handlers : handling[g].at \notin {"free", "written"}) \in BOOLEAN
    OBVIOUS
  <2>2. QED
    BY <1>2, <1>6, <2>1, Zenon DEF Memories
<1>8. /\ past'.beats = past.beats + 1 /\ past'.choices = past.choices
      /\ past'.dropped = past.dropped
  BY <1>2, <1>6 DEF Memories
<1>9. past'.raced <=> \E g \in Handlers : AtWork(g)
  <2>1. past'.raced = (past.raced \/ \E g \in Handlers : handling[g].at \notin {"free", "written"})
    BY <1>2, <1>6, Zenon DEF Memories
  <2>2. QED
    BY <1>2, <2>1, Zenon DEF AtWork
<1>10. OnlineTyped'
  BY <1>2, <1>3, <1>5, <1>7 DEF OnlineTyped
<1>11. BeatsSent'
  BY <1>2, <1>5, NoBeatIsNone DEF BeatsSent
<1>12. new.number = past.beats + 1 /\ new.revision = app.revision /\ new.seen = clock
  BY <1>1 DEF BeatNow
<1>13. \A b \in Beats : Known(b)' => Known(b) \/ b = new
  BY <1>2, <1>5 DEF Known
<1>14. RevisionsTell'
  <2>1. SentBefore(new)'
    <3>1. new.number <= past'.beats /\ new.revision <= app'.revision
      BY <1>3, <1>6, <1>8, <1>12 DEF OnlineTyped, Apps
    <3>2. \A d \in past.dropped : ~(new.number <= d.after)
      BY <1>6, <1>12 DEF RevisionsTell, Memories
    <3>3. QED
      BY <1>8, <3>1, <3>2 DEF SentBefore
  <2>2. \A b \in Beats : Known(b) => SentBefore(b)'
    BY <1>3, <1>6, <1>8, NoBeatIsNone DEF SentBefore, RevisionsTell
  <2>3. \A b \in Beats, d \in past.dropped : Known(b) => Parted(d, b, new) /\ Parted(d, new, b)
    <3> SUFFICES ASSUME NEW b \in Beats, NEW d \in past.dropped, Known(b)
                 PROVE  Parted(d, b, new) /\ Parted(d, new, b)
      OBVIOUS
    <3>1. b.number <= d.after => b.revision < app.revision
      BY DEF RevisionsTell, SentBefore
    <3>2. d.after <= past.beats /\ d.after \in 0..MaxBeats
      BY <1>6 DEF RevisionsTell, Memories
    <3>3. QED
      BY <1>6, <1>12, <3>1, <3>2 DEF Parted
  <2>4. \A d \in past.dropped : Parted(d, new, new)
    <3> SUFFICES ASSUME NEW d \in past.dropped
                 PROVE  Parted(d, new, new)
      OBVIOUS
    <3>1. d.after <= past.beats /\ d.after \in 0..MaxBeats
      BY <1>6 DEF RevisionsTell, Memories
    <3>2. QED
      BY <1>6, <1>12, <3>1 DEF Parted
  <2>5. \A b, c \in Beats : Known(b)' /\ Known(c)' => \A d \in past'.dropped : Parted(d, b, c)'
    BY <1>8, <1>13, <2>3, <2>4 DEF RevisionsTell, Parted
  <2>6. \A b \in Beats : Known(b)' => SentBefore(b)'
    BY <1>13, <2>1, <2>2
  <2>7. /\ app'.revision <= past'.choices + 1
        /\ \A d \in past'.dropped : d.after <= past'.beats
    BY <1>3, <1>6, <1>8 DEF RevisionsTell, Memories
  <2>8. QED
    BY <2>5, <2>6, <2>7 DEF RevisionsTell
<1>15. BilledAsSelected'
  <2>1. \A u \in usage : u.last <= past'.beats
    BY <1>6, <1>8 DEF BilledAsSelected, OnlineTyped, Intervals
  <2>2. QED
    BY <1>2, <1>8, <2>1 DEF BilledAsSelected, SelectedThroughout
<1>16. ASSUME OneAtATime, \A g \in Handlers : ~AtWork(g)
       PROVE  OneAtATime'
  <2>1. \A g \in Handlers : AtWork(g)' => g = h
    BY <1>5, <1>16 DEF AtWork
  <2>2. memory.seen <= clock
    BY <1>16 DEF OneAtATime
  <2>3. handling'[h].beat.seen = clock' /\ handling'[h].at = "taken"
    BY <1>2, <1>5, <1>12
  <2>4. \A g \in Handlers : AtWork(g)' => handling'[g].beat.seen <= clock'
    BY <1>2, <2>1, <2>3 DEF OnlineTyped
  <2>5. \A g \in Handlers : InTurn(g)'
    BY <1>2, <1>5, <1>12, <1>16, <2>2 DEF InTurn, OneAtATime
  <2>6. \A f, g \in Handlers : Apart(f, g)'
    BY <1>5, <1>16 DEF Apart, OneAtATime
  <2>7. \A g \in Handlers : ApartFromBilled(g)'
    BY <1>2, <1>5, <1>16 DEF ApartFromBilled, OneAtATime
  <2>8. QED
    BY <1>2, <1>16, <2>1, <2>4, <2>5, <2>6, <2>7 DEF OneAtATime, BilledApart
<1>17. past'.raced \/ OneAtATime'
  <2>1. OneAtATime
    BY <1>2, Zenon
  <2>2. QED
    BY <1>9, <1>16, <2>1, Zenon
<1>18. QED
  BY <1>10, <1>11, <1>14, <1>15, <1>17

\* What the other threads hold stays apart while one goes on with its heartbeat.
LEMMA OthersKept ==
    ASSUME OneAtATime, NEW h \in Handlers, AtWork(h),
           \A g \in Handlers : g # h => handling'[g] = handling[g],
           usage' = usage
    PROVE  /\ \A g \in Handlers : g # h => ~AtWork(g) /\ ~AtWork(g)'
           /\ \A f, g \in Handlers : f # h /\ g # h => Apart(f, g)'
           /\ \A g \in Handlers : g # h => ApartFromBilled(g)'
           /\ BilledApart'
<1>1. \A g \in Handlers : g # h => ~AtWork(g) /\ ~AtWork(g)'
  BY DEF OneAtATime, AtWork
<1>2. \A f, g \in Handlers : f # h /\ g # h => Apart(f, g)'
  BY DEF OneAtATime, Apart
<1>3. \A g \in Handlers : g # h => ApartFromBilled(g)'
  BY DEF OneAtATime, ApartFromBilled
<1>4. QED
  BY <1>1, <1>2, <1>3 DEF OneAtATime, BilledApart

\* The previous heartbeat is what memory holds.
LEMMA ReadPreviousKeeps ==
    ASSUME OnlineInv, NEW h \in Handlers, ReadPrevious(h)
    PROVE  OnlineInv'
<1> USE OnlineAssumption DEF OnlineInv
<1>1. /\ UNCHANGED <<app, memory, filed, usage, clock, past>>
      /\ handling[h].at = "taken"
      /\ handling' = [handling EXCEPT ![h].at = "read", ![h].previous = memory]
  BY DEF ReadPrevious
<1>2. /\ handling'[h] = [handling[h] EXCEPT !.at = "read", !.previous = memory]
      /\ \A g \in Handlers : g # h => handling'[g] = handling[g]
  BY <1>1 DEF OnlineTyped, Locals
<1>3. /\ handling'[h].at = "read" /\ handling'[h].previous = memory
      /\ handling'[h].beat = handling[h].beat /\ handling'[h].raw = handling[h].raw
  BY <1>2 DEF OnlineTyped, Locals
<1>4. handling' \in [Handlers -> Locals]
  BY <1>1 DEF OnlineTyped, Locals
<1>5. OnlineTyped' /\ BeatsSent'
  BY <1>1, <1>2, <1>3, <1>4 DEF OnlineTyped, BeatsSent
<1>6. \A b \in Beats : Known(b)' => Known(b)
  <2>1. memory' = memory /\ filed' = filed
    BY <1>1
  <2>2. \A g \in Handlers : g # h => handling'[g] = handling[g]
    BY <1>2
  <2>3. QED
    BY <1>3, <2>1, <2>2 DEF Known
<1>7. RevisionsTell' /\ BilledAsSelected'
  BY <1>1, <1>6, RevisionsKept, BilledKept
<1>8. ASSUME OneAtATime
      PROVE  OneAtATime'
  <2>1. AtWork(h)
    BY <1>1 DEF AtWork
  <2>2. /\ \A g \in Handlers : g # h => ~AtWork(g) /\ ~AtWork(g)'
        /\ \A f, g \in Handlers : f # h /\ g # h => Apart(f, g)'
        /\ \A g \in Handlers : g # h => ApartFromBilled(g)'
        /\ BilledApart'
    BY <1>1, <1>2, <1>8, <2>1, OthersKept
  <2>3. InTurn(h)'
    BY <1>1, <1>3, <1>8 DEF InTurn, OneAtATime
  <2>4. \A g \in Handlers : g # h => InTurn(g)'
    BY <1>1, <1>2, <1>8 DEF InTurn, OneAtATime
  <2>5. \A f, g \in Handlers : Apart(f, g)'
    BY <1>3, <2>2 DEF Apart
  <2>6. \A g \in Handlers : ApartFromBilled(g)'
    BY <1>3, <2>2 DEF ApartFromBilled
  <2>7. \A g \in Handlers : AtWork(g)' => handling'[g].beat.seen <= clock'
    BY <1>1, <1>3, <1>8, <2>1, <2>2 DEF OneAtATime
  <2>8. QED
    BY <1>1, <1>8, <2>2, <2>3, <2>4, <2>5, <2>6, <2>7 DEF OneAtATime
<1>9. past'.raced \/ OneAtATime'
  BY <1>1, <1>8, Zenon
<1>10. QED
  BY <1>5, <1>7, <1>9

\* Memory moves on, or another user's heartbeat keeps the id.
LEMMA RecordBeatKeeps ==
    ASSUME OnlineInv, NEW h \in Handlers, RecordBeat(h)
    PROVE  OnlineInv'
<1> USE OnlineAssumption DEF OnlineInv
<1>1. UNCHANGED <<filed, usage, clock, past>> /\ handling[h].at = "read"
  BY DEF RecordBeat
<1>2. CASE Owned(handling[h].beat)
  <2>1. /\ handling' = [handling EXCEPT ![h] = Free]
        /\ Answered(h)
        /\ UNCHANGED memory
    BY <1>2 DEF RecordBeat
  <2>2. app' \in Apps /\ app'.revision = app.revision
    BY <2>1, AnsweredWaits DEF OnlineTyped
  <2>3. /\ handling' \in [Handlers -> Locals]
        /\ handling'[h] = Free
        /\ \A g \in Handlers : g # h => handling'[g] = handling[g]
    BY <2>1, FreeTyped DEF OnlineTyped
  <2>4. OnlineTyped' /\ BeatsSent'
    BY <1>1, <2>1, <2>2, <2>3 DEF OnlineTyped, BeatsSent, Free
  <2>5. \A b \in Beats : Known(b)' => Known(b)
    BY <1>1, <2>1, <2>3 DEF Known, Free
  <2>6. RevisionsTell' /\ BilledAsSelected'
    BY <1>1, <2>2, <2>5, RevisionsKept, BilledKept
  <2>7. ASSUME OneAtATime
        PROVE  OneAtATime'
    <3>1. AtWork(h)
      BY <1>1 DEF AtWork
    <3>2. /\ \A g \in Handlers : g # h => ~AtWork(g) /\ ~AtWork(g)'
          /\ \A f, g \in Handlers : f # h /\ g # h => Apart(f, g)'
          /\ \A g \in Handlers : g # h => ApartFromBilled(g)'
          /\ BilledApart'
      BY <1>1, <2>3, <2>7, <3>1, OthersKept
    <3>3. handling'[h].at = "free"
      BY <2>3 DEF Free
    <3>4. \A g \in Handlers : InTurn(g)'
      BY <1>1, <2>1, <2>3, <2>7, <3>3 DEF InTurn, OneAtATime
    <3>5. \A f, g \in Handlers : Apart(f, g)'
      BY <3>2, <3>3 DEF Apart
    <3>6. \A g \in Handlers : ApartFromBilled(g)'
      BY <3>2, <3>3 DEF ApartFromBilled
    <3>7. ~AtWork(h)'
      BY <3>3 DEF AtWork
    <3>8. QED
      BY <1>1, <2>1, <2>7, <3>2, <3>4, <3>5, <3>6, <3>7 DEF OneAtATime
  <2>8. past'.raced \/ OneAtATime'
    BY <1>1, <2>7, Zenon
  <2>9. QED
    BY <2>4, <2>6, <2>8
<1>3. CASE ~Owned(handling[h].beat)
  <2>1. /\ handling' = [handling EXCEPT ![h].at = "recorded"]
        /\ memory' = handling[h].beat
        /\ UNCHANGED app
    BY <1>3 DEF RecordBeat, Moves
  <2>2. /\ handling'[h].at = "recorded" /\ handling'[h].previous = handling[h].previous
        /\ handling'[h].beat = handling[h].beat /\ handling'[h].raw = handling[h].raw
        /\ \A g \in Handlers : g # h => handling'[g] = handling[g]
    BY <2>1 DEF OnlineTyped, Locals
  <2>3. handling' \in [Handlers -> Locals] /\ memory' \in Beats
    BY <2>1 DEF OnlineTyped, Locals
  <2>4. handling[h].beat # NoBeat
    BY <1>1 DEF BeatsSent
  <2>5. OnlineTyped' /\ BeatsSent'
    BY <1>1, <2>1, <2>2, <2>3, <2>4 DEF OnlineTyped, BeatsSent
  <2>6. \A b \in Beats : Known(b)' => Known(b)
    BY <1>1, <2>1, <2>2 DEF Known
  <2>7. RevisionsTell' /\ BilledAsSelected'
    BY <1>1, <2>1, <2>6, RevisionsKept, BilledKept
  <2>8. ASSUME OneAtATime
        PROVE  OneAtATime'
    <3>1. AtWork(h)
      BY <1>1 DEF AtWork
    <3>2. /\ \A g \in Handlers : g # h => ~AtWork(g) /\ ~AtWork(g)'
          /\ \A f, g \in Handlers : f # h /\ g # h => Apart(f, g)'
          /\ \A g \in Handlers : g # h => ApartFromBilled(g)'
          /\ BilledApart'
      BY <1>1, <2>2, <2>8, <3>1, OthersKept
    <3>3. /\ handling[h].previous = memory /\ memory.seen <= handling[h].beat.seen
          /\ filed.seen <= memory.seen /\ handling[h].beat.seen <= clock
      BY <1>1, <2>8, <3>1 DEF InTurn, OneAtATime
    <3>4. filed.seen \in Nat /\ memory.seen \in Nat /\ handling[h].beat.seen \in Nat
      BY NoBeatIsNone DEF OnlineTyped, Locals
    <3>5. InTurn(h)'
      BY <1>1, <2>1, <2>2, <3>3 DEF InTurn
    <3>6. \A g \in Handlers : g # h => InTurn(g)'
      BY <1>1, <2>2, <2>8, <3>2 DEF InTurn, OneAtATime, AtWork
    <3>7. \A f, g \in Handlers : Apart(f, g)'
      BY <2>2, <3>2 DEF Apart
    <3>8. \A g \in Handlers : ApartFromBilled(g)'
      BY <2>2, <3>2 DEF ApartFromBilled
    <3>9. memory'.seen <= clock' /\ filed'.seen <= memory'.seen
      BY <1>1, <2>1, <3>3, <3>4
    <3>10. \A g \in Handlers : AtWork(g)' => handling'[g].beat.seen <= clock'
      BY <1>1, <2>2, <3>2, <3>3
    <3>11. QED
      BY <1>1, <2>1, <2>8, <3>2, <3>5, <3>6, <3>7, <3>8, <3>9, <3>10 DEF OneAtATime
  <2>9. past'.raced \/ OneAtATime'
    BY <1>1, <2>8, Zenon
  <2>10. QED
    BY <2>5, <2>7, <2>9
<1>4. QED
  BY <1>2, <1>3

\* What is read again is what was recorded.
LEMMA ReadRawKeeps ==
    ASSUME OnlineInv, NEW h \in Handlers, ReadRaw(h)
    PROVE  OnlineInv'
<1> USE OnlineAssumption DEF OnlineInv
<1>1. /\ UNCHANGED <<app, memory, filed, usage, clock, past>>
      /\ handling[h].at = "recorded"
      /\ handling' = [handling EXCEPT ![h].at = "raw", ![h].raw = memory]
  BY DEF ReadRaw
<1>2. /\ handling'[h] = [handling[h] EXCEPT !.at = "raw", !.raw = memory]
      /\ \A g \in Handlers : g # h => handling'[g] = handling[g]
  BY <1>1 DEF OnlineTyped, Locals
<1>3. /\ handling'[h].at = "raw" /\ handling'[h].raw = memory
      /\ handling'[h].beat = handling[h].beat /\ handling'[h].previous = handling[h].previous
  BY <1>2 DEF OnlineTyped, Locals
<1>4. handling' \in [Handlers -> Locals]
  BY <1>1 DEF OnlineTyped, Locals
<1>5. OnlineTyped' /\ BeatsSent'
  BY <1>1, <1>2, <1>3, <1>4 DEF OnlineTyped, BeatsSent
<1>6. \A b \in Beats : Known(b)' => Known(b)
  <2>1. memory' = memory /\ filed' = filed
    BY <1>1
  <2>2. \A g \in Handlers : g # h => handling'[g] = handling[g]
    BY <1>2
  <2>3. QED
    BY <1>3, <2>1, <2>2 DEF Known
<1>7. RevisionsTell' /\ BilledAsSelected'
  BY <1>1, <1>6, RevisionsKept, BilledKept
<1>8. ASSUME OneAtATime
      PROVE  OneAtATime'
  <2>1. AtWork(h)
    BY <1>1 DEF AtWork
  <2>2. /\ \A g \in Handlers : g # h => ~AtWork(g) /\ ~AtWork(g)'
        /\ \A f, g \in Handlers : f # h /\ g # h => Apart(f, g)'
        /\ \A g \in Handlers : g # h => ApartFromBilled(g)'
        /\ BilledApart'
    BY <1>1, <1>2, <1>8, <2>1, OthersKept
  <2>3. InTurn(h)'
    BY <1>1, <1>3, <1>8 DEF InTurn, OneAtATime
  <2>4. \A g \in Handlers : g # h => InTurn(g)'
    BY <1>1, <1>2, <1>8 DEF InTurn, OneAtATime
  <2>5. \A f, g \in Handlers : Apart(f, g)'
    BY <1>3, <2>2 DEF Apart
  <2>6. \A g \in Handlers : ApartFromBilled(g)'
    BY <1>3, <2>2 DEF ApartFromBilled
  <2>7. \A g \in Handlers : AtWork(g)' => handling'[g].beat.seen <= clock'
    BY <1>1, <1>3, <1>8, <2>1, <2>2 DEF OneAtATime
  <2>8. QED
    BY <1>1, <1>8, <2>2, <2>3, <2>4, <2>5, <2>6, <2>7 DEF OneAtATime
<1>9. past'.raced \/ OneAtATime'
  BY <1>1, <1>8, Zenon
<1>10. QED
  BY <1>5, <1>7, <1>9

\* What is filed now is the newest, and what it bills begins where the last began.
LEMMA WriteBeatKeeps ==
    ASSUME OnlineInv, NEW h \in Handlers, WriteBeat(h)
    PROVE  OnlineInv'
<1> USE OnlineAssumption DEF OnlineInv
<1>1. /\ UNCHANGED <<app, memory, usage, clock, past>>
      /\ handling[h].at = "raw"
      /\ filed' = handling[h].raw
      /\ handling' = [handling EXCEPT ![h].at = "written"]
  BY DEF WriteBeat, Moves
<1>2. /\ handling'[h].at = "written" /\ handling'[h].previous = handling[h].previous
      /\ handling'[h].beat = handling[h].beat /\ handling'[h].raw = handling[h].raw
      /\ \A g \in Handlers : g # h => handling'[g] = handling[g]
  BY <1>1 DEF OnlineTyped, Locals
<1>3. handling' \in [Handlers -> Locals] /\ filed' \in Beats
  BY <1>1 DEF OnlineTyped, Locals
<1>4. OnlineTyped' /\ BeatsSent'
  BY <1>1, <1>2, <1>3 DEF OnlineTyped, BeatsSent
<1>5. \A b \in Beats : Known(b)' => Known(b)
  BY <1>1, <1>2 DEF Known
<1>6. RevisionsTell' /\ BilledAsSelected'
  BY <1>1, <1>5, RevisionsKept, BilledKept
<1>7. ASSUME OneAtATime
      PROVE  OneAtATime'
  <2>1. AtWork(h)
    BY <1>1 DEF AtWork
  <2>2. /\ \A g \in Handlers : g # h => ~AtWork(g) /\ ~AtWork(g)'
        /\ \A f, g \in Handlers : f # h /\ g # h => Apart(f, g)'
        /\ \A g \in Handlers : g # h => ApartFromBilled(g)'
        /\ BilledApart'
    BY <1>1, <1>2, <1>7, <2>1, OthersKept
  <2>3. /\ handling[h].raw = memory /\ memory.seen <= clock
        /\ filed.seen <= handling[h].previous.seen /\ handling[h].previous.seen <= memory.seen
    BY <1>1, <1>7 DEF InTurn, OneAtATime
  <2>4. /\ \A g \in Handlers : /\ handling[g].previous.seen \in Nat
                               /\ handling[g].raw.seen \in Nat
        /\ filed.seen \in Nat /\ memory.seen \in Nat
    BY NoBeatIsNone DEF OnlineTyped, Locals
  <2>5. \A g \in Handlers : g # h /\ handling[g].at = "written" =>
            /\ handling[g].previous.seen <= handling[g].raw.seen
            /\ handling[g].raw.seen <= filed.seen
    BY <1>7 DEF InTurn, OneAtATime
  <2>6. InTurn(h)'
    BY <1>1, <1>2, <2>3, <2>4 DEF InTurn
  <2>7. \A g \in Handlers : g # h => InTurn(g)'
    BY <1>1, <1>2, <2>2, <2>3, <2>4, <2>5 DEF InTurn, AtWork
  <2>8. \A g \in Handlers : g # h => Apart(g, h)' /\ Apart(h, g)'
    BY <1>2, <2>3, <2>4, <2>5 DEF Apart
  <2>9. \A f, g \in Handlers : Apart(f, g)'
    BY <2>2, <2>8 DEF Apart
  <2>10. \A u \in usage : u.to <= filed.seen /\ u.to \in Nat
    BY <1>7 DEF OneAtATime, OnlineTyped, Intervals
  <2>11. \A g \in Handlers : ApartFromBilled(g)'
    BY <1>1, <1>2, <2>2, <2>3, <2>4, <2>10 DEF ApartFromBilled
  <2>12. \A u \in usage' : u.to <= filed'.seen
    BY <1>1, <2>3, <2>4, <2>10
  <2>13. \A g \in Handlers : ~AtWork(g)'
    BY <1>2, <2>2 DEF AtWork
  <2>14. memory'.seen <= clock' /\ filed'.seen <= memory'.seen
    BY <1>1, <2>3, <2>4
  <2>15. QED
    BY <2>2, <2>6, <2>7, <2>9, <2>11, <2>12, <2>13, <2>14 DEF OneAtATime
<1>8. past'.raced \/ OneAtATime'
  BY <1>1, <1>7, Zenon
<1>9. QED
  BY <1>4, <1>6, <1>8

\* The rows of one interval, and what its heartbeats have in common.
LEMMA RowsOfInterval ==
    ASSUME NEW from \in Beats, NEW to \in Beats, to # NoBeat,
           NEW u \in {[account |-> to.account, system |-> s, from |-> from.seen, to |-> to.seen,
                       first |-> from.number, last |-> to.number] : s \in BilledSystems(from, to)}
    PROVE  /\ u \in Intervals
           /\ u.from = from.seen /\ u.to = to.seen /\ u.first = from.number /\ u.last = to.number
           /\ u.account = to.account
           /\ from.revision = to.revision
<1> USE OnlineAssumption
<1>1. PICK s \in BilledSystems(from, to) :
        u = [account |-> to.account, system |-> s, from |-> from.seen, to |-> to.seen,
             first |-> from.number, last |-> to.number]
  OBVIOUS
<1>2. from # NoBeat /\ from.revision = to.revision /\ s \in to.systems
  BY <1>1 DEF BilledSystems, StableSystems
<1>3. from \in RealBeats /\ to \in RealBeats
  BY <1>2 DEF Beats
<1>4. u \in Intervals
  BY <1>1, <1>2, <1>3 DEF RealBeats, Intervals
<1>5. QED
  BY <1>1, <1>2, <1>4

\* A thread bills one interval, and is free.
LEMMA RecordUsageKeeps ==
    ASSUME OnlineInv, NEW h \in Handlers, RecordUsage(h)
    PROVE  OnlineInv'
<1> USE OnlineAssumption DEF OnlineInv
<1>0. PICK from \in Beats, to \in Beats : from = handling[h].previous /\ to = handling[h].raw
  BY DEF OnlineTyped, Locals
<1> DEFINE new == {[account |-> to.account, system |-> s, from |-> from.seen, to |-> to.seen,
                    first |-> from.number, last |-> to.number] : s \in BilledSystems(from, to)}
<1>1. /\ UNCHANGED <<memory, filed, clock, past>>
      /\ handling[h].at = "written"
      /\ usage' = usage \cup new
      /\ handling' = [handling EXCEPT ![h] = Free]
      /\ Answered(h)
  BY <1>0 DEF RecordUsage, Recorded
<1>2. to # NoBeat
  BY <1>0, <1>1 DEF BeatsSent
<1>3. \A u \in new :
        /\ u \in Intervals
        /\ u.from = from.seen /\ u.to = to.seen /\ u.first = from.number /\ u.last = to.number
        /\ u.account = to.account
        /\ from.revision = to.revision
  BY <1>2, RowsOfInterval
<1>4. \A u, v \in new : u.system = v.system => u = v
  OBVIOUS
<1> HIDE DEF new
<1>5. app' \in Apps /\ app'.revision = app.revision
  BY <1>1, AnsweredWaits DEF OnlineTyped
<1>6. /\ handling' \in [Handlers -> Locals]
      /\ handling'[h] = Free
      /\ \A g \in Handlers : g # h => handling'[g] = handling[g]
  BY <1>1, FreeTyped DEF OnlineTyped
<1>7. OnlineTyped' /\ BeatsSent'
  BY <1>1, <1>3, <1>5, <1>6 DEF OnlineTyped, BeatsSent, Free
<1>8. \A b \in Beats : Known(b)' => Known(b)
  BY <1>1, <1>6 DEF Known, Free
<1>9. RevisionsTell'
  BY <1>1, <1>5, <1>8, RevisionsKept
<1>10. BilledAsSelected'
  <2>1. Known(from) /\ Known(to)
    BY <1>0 DEF Known
  <2>2. to.number <= past.beats /\ \A d \in past.dropped : Parted(d, from, to)
    BY <2>1 DEF RevisionsTell, SentBefore
  <2>3. \A d \in past.dropped : d.after \in Nat
    BY DEF OnlineTyped, Memories
  <2>4. from.number \in Nat /\ to.number \in Nat /\ from.revision \in Nat
    BY NoBeatIsNone
  <2>5. \A u \in new, d \in past.dropped : d.after < u.first \/ d.after >= u.last
    BY <1>3, <2>2, <2>3, <2>4 DEF Parted
  <2>6. \A u \in new : u.last <= past.beats
    BY <1>3, <2>2
  <2>7. QED
    BY <1>1, <2>5, <2>6 DEF BilledAsSelected, SelectedThroughout
<1>11. ASSUME OneAtATime
       PROVE  OneAtATime'
  <2>1. handling'[h].at = "free"
    BY <1>6 DEF Free
  <2>2. \A g \in Handlers : AtWork(g)' => AtWork(g) /\ g # h
    BY <1>6, <2>1 DEF AtWork
  <2>3. \A g \in Handlers : AtWork(g)' => handling'[g].beat.seen <= clock'
    BY <1>1, <1>6, <1>11, <2>2 DEF OneAtATime
  <2>4. \A g \in Handlers : InTurn(g)'
    BY <1>1, <1>6, <1>11, <2>1 DEF InTurn, OneAtATime
  <2>5. \A f, g \in Handlers : Apart(f, g)'
    BY <1>6, <1>11, <2>1 DEF Apart, OneAtATime
  <2>6. \A g \in Handlers : g # h /\ handling[g].at = "written" =>
            handling[g].raw.seen <= from.seen \/ to.seen <= handling[g].previous.seen
    BY <1>0, <1>1, <1>11 DEF Apart, OneAtATime
  <2>7. \A g \in Handlers : ApartFromBilled(g)'
    <3> SUFFICES ASSUME NEW g \in Handlers, g # h, handling[g].at = "written", NEW u \in usage'
                 PROVE  u.to <= handling[g].previous.seen \/ handling[g].raw.seen <= u.from
      BY <1>6, <2>1 DEF ApartFromBilled
    <3>1. CASE u \in usage
      BY <1>11, <3>1 DEF OneAtATime, ApartFromBilled
    <3>2. CASE u \in new
      BY <1>3, <2>6, <3>2
    <3>3. QED
      BY <1>1, <3>1, <3>2
  <2>8. BilledApart'
    <3>1. \A u \in usage : u.to <= from.seen \/ to.seen <= u.from
      BY <1>0, <1>1, <1>11 DEF OneAtATime, ApartFromBilled
    <3>2. \A u \in usage, v \in new : u.to <= v.from \/ v.to <= u.from
      BY <1>3, <3>1
    <3>3. \A u, v \in usage : u # v /\ u.system = v.system => u.to <= v.from \/ v.to <= u.from
      BY <1>11 DEF OneAtATime, BilledApart
    <3>4. QED
      BY <1>1, <1>4, <3>2, <3>3 DEF BilledApart
  <2>9. \A u \in usage' : u.to <= filed'.seen
    <3>1. to.seen <= filed.seen
      BY <1>0, <1>1, <1>11 DEF OneAtATime, InTurn
    <3>2. \A u \in usage : u.to <= filed.seen
      BY <1>11 DEF OneAtATime
    <3>3. QED
      BY <1>1, <1>3, <3>1, <3>2
  <2>10. /\ \A f, g \in Handlers : AtWork(f)' /\ AtWork(g)' => f = g
         /\ memory'.seen <= clock' /\ filed'.seen <= memory'.seen
    BY <1>1, <1>11, <2>2 DEF OneAtATime
  <2>11. QED
    BY <2>3, <2>4, <2>5, <2>7, <2>8, <2>9, <2>10 DEF OneAtATime
<1>12. past'.raced \/ OneAtATime'
  BY <1>1, <1>11, Zenon
<1>13. QED
  BY <1>7, <1>9, <1>10, <1>12

\* A transaction fails: what was not filed is not billed.
LEMMA FailBeatKeeps ==
    ASSUME OnlineInv, NEW h \in Handlers, FailBeat(h)
    PROVE  OnlineInv'
<1> USE OnlineAssumption DEF OnlineInv
<1>1. /\ UNCHANGED <<memory, filed, usage, clock>>
      /\ handling' = [handling EXCEPT ![h] = Free]
      /\ BeatFault
      /\ Answered(h)
  BY DEF FailBeat
<1>2. app' \in Apps /\ app'.revision = app.revision
  BY <1>1, AnsweredWaits DEF OnlineTyped
<1>3. /\ past' \in Memories /\ past'.beats = past.beats /\ past'.choices = past.choices
      /\ past'.dropped = past.dropped /\ past'.raced = past.raced
  BY <1>1, BeatFaultCounts DEF OnlineTyped
<1>4. /\ handling' \in [Handlers -> Locals]
      /\ handling'[h] = Free
      /\ \A g \in Handlers : g # h => handling'[g] = handling[g]
  BY <1>1, FreeTyped DEF OnlineTyped
<1>5. OnlineTyped' /\ BeatsSent'
  BY <1>1, <1>2, <1>3, <1>4 DEF OnlineTyped, BeatsSent, Free
<1>6. \A b \in Beats : Known(b)' => Known(b)
  BY <1>1, <1>4 DEF Known, Free
<1>7. RevisionsTell' /\ BilledAsSelected'
  BY <1>1, <1>2, <1>3, <1>6, RevisionsKept, BilledKept
<1>8. ASSUME OneAtATime
      PROVE  OneAtATime'
  <2>1. handling'[h].at = "free"
    BY <1>4 DEF Free
  <2>2. \A g \in Handlers : AtWork(g)' => AtWork(g) /\ g # h
    BY <1>4, <2>1 DEF AtWork
  <2>3. \A g \in Handlers : AtWork(g)' => handling'[g].beat.seen <= clock'
    BY <1>1, <1>4, <1>8, <2>2 DEF OneAtATime
  <2>4. \A g \in Handlers : InTurn(g)'
    BY <1>1, <1>4, <1>8, <2>1 DEF InTurn, OneAtATime
  <2>5. \A f, g \in Handlers : Apart(f, g)'
    BY <1>4, <1>8, <2>1 DEF Apart, OneAtATime
  <2>6. \A g \in Handlers : ApartFromBilled(g)'
    BY <1>1, <1>4, <1>8, <2>1 DEF ApartFromBilled, OneAtATime
  <2>7. /\ \A f, g \in Handlers : AtWork(f)' /\ AtWork(g)' => f = g
        /\ memory'.seen <= clock' /\ filed'.seen <= memory'.seen
        /\ (\A u \in usage' : u.to <= filed'.seen) /\ BilledApart'
    BY <1>1, <1>8, <2>2 DEF OneAtATime, BilledApart
  <2>8. QED
    BY <2>3, <2>4, <2>5, <2>6, <2>7 DEF OneAtATime
<1>9. past'.raced \/ OneAtATime'
  BY <1>3, <1>8, Zenon
<1>10. QED
  BY <1>3, <1>5, <1>7, <1>9

\* After a restart memory is what was filed, and all that was billed ends there.
LEMMA RestartKeeps ==
    ASSUME OnlineInv, RestartOnline
    PROVE  OnlineInv'
<1> USE OnlineAssumption DEF OnlineInv
<1>1. /\ UNCHANGED <<filed, usage, clock>>
      /\ handling' = [h \in Handlers |-> Free]
      /\ memory' = filed
      /\ app' = [app EXCEPT !.waiting = FALSE]
      /\ BeatFault
  BY DEF RestartOnline
<1>2. app' \in Apps /\ app'.revision = app.revision
  BY <1>1, AppWaits DEF OnlineTyped
<1>3. /\ past' \in Memories /\ past'.beats = past.beats /\ past'.choices = past.choices
      /\ past'.dropped = past.dropped /\ past'.raced = past.raced
  BY <1>1, BeatFaultCounts DEF OnlineTyped
<1>4. OnlineTyped' /\ BeatsSent'
  BY <1>1, <1>2, <1>3, FreeTyped DEF OnlineTyped, BeatsSent, Free
<1>5. \A b \in Beats : Known(b)' => Known(b)
  BY <1>1 DEF Known, Free
<1>6. RevisionsTell' /\ BilledAsSelected'
  BY <1>1, <1>2, <1>3, <1>5, RevisionsKept, BilledKept
<1>7. ASSUME OneAtATime
      PROVE  OneAtATime'
  <2>1. \A h \in Handlers : handling'[h].at = "free"
    BY <1>1 DEF Free
  <2>2. memory'.seen <= clock' /\ filed'.seen <= memory'.seen
    BY <1>1, <1>7, NoBeatIsNone DEF OneAtATime, OnlineTyped
  <2>3. QED
    BY <1>1, <1>7, <2>1, <2>2 DEF OneAtATime, AtWork, InTurn, Apart, ApartFromBilled, BilledApart
<1>8. past'.raced \/ OneAtATime'
  BY <1>3, <1>7, Zenon
<1>9. QED
  BY <1>3, <1>4, <1>6, <1>8

\* And when nothing happens.
LEMMA OnlineStutterKeeps ==
    ASSUME OnlineInv, UNCHANGED billing
    PROVE  OnlineInv'
<1> USE DEF OnlineInv
<1>1. UNCHANGED <<app, handling, memory, filed, usage, clock, past>>
  BY DEF billing
<1>2. RevisionsTell' /\ BilledAsSelected'
  BY <1>1, RevisionsKept, BilledKept DEF Known
<1>3. past'.raced \/ OneAtATime'
  BY <1>1, TurnsKept
<1>4. QED
  BY <1>1, <1>2, <1>3 DEF OnlineTyped, BeatsSent

\* Every step of the client and of the server's threads keeps the invariant.
LEMMA OnlineNextKeeps ==
    ASSUME OnlineInv, [OnlineNext]_billing
    PROVE  OnlineInv'
<1>1. ASSUME NEW h \in Handlers,
             \/ PostHeartbeat(h) \/ ReadPrevious(h) \/ RecordBeat(h) \/ ReadRaw(h)
             \/ WriteBeat(h) \/ RecordUsage(h) \/ FailBeat(h)
      PROVE  OnlineInv'
  BY <1>1, PostHeartbeatKeeps, ReadPreviousKeeps, RecordBeatKeeps, ReadRawKeeps,
     WriteBeatKeeps, RecordUsageKeeps, FailBeatKeeps
<1>2. QED
  BY <1>1, SelectKeeps, ReplaceWorkerKeeps, TimeOutKeeps, RestartKeeps, TickKeeps,
     OnlineStutterKeeps DEF OnlineNext

\* The invariant gives the module's own type invariant and its safety property.
LEMMA OnlineInvSuffices ==
    ASSUME OnlineInv
    PROVE  OnlineTypeOK /\ BillingIsDue
<1> USE OnlineAssumption DEF OnlineInv
<1>1. Beats \subseteq Beat
  BY DEF Beats, Beat, RealBeats, NoBeat
<1>2. OnlineTypeOK
  <2>1. app \in [account : Accounts, connection : 1..MaxChoices + 1,
                 revision : 1..MaxChoices + 1, systems : SUBSET ScopeSystems, waiting : BOOLEAN]
    BY Zenon DEF OnlineTyped, Apps
  <2>2. past \in [beats : 0..MaxBeats, choices : 0..MaxChoices, faults : 0..MaxBeatFaults,
                  raced : BOOLEAN, dropped : SUBSET [system : ScopeSystems, after : 0..MaxBeats]]
    BY Zenon DEF OnlineTyped, Memories
  <2>3. handling \in [Handlers ->
            [at : {"free", "taken", "read", "recorded", "raw", "written"},
             beat : Beat, previous : Beat, raw : Beat]]
    BY <1>1 DEF OnlineTyped, Locals
  <2>4. {memory, filed} \subseteq Beat /\ clock \in 1..MaxTicks
    BY <1>1 DEF OnlineTyped
  <2>5. usage \subseteq [account : Accounts, system : ScopeSystems, from : 1..MaxTicks,
                         to : 1..MaxTicks, first : 1..MaxBeats, last : 1..MaxBeats]
    BY DEF OnlineTyped, Intervals
  <2>6. QED
    BY <2>1, <2>2, <2>3, <2>4, <2>5, Zenon DEF OnlineTypeOK
<1>3. BillingIsDue
  BY Zenon DEF BillingIsDue, BilledOnce, BilledApart, OneAtATime, BilledAsSelected
<1>4. QED
  BY <1>2, <1>3

-----------------------------------------------------------------------------
(* Its theorems.                                                           *)

\* The composition's steps are the component's, or leave it alone.
LEMMA ClientsRunBilling == ClientsSpec => OnlineSpec
<1>1. ClientsInit => OnlineInit
  BY DEF ClientsInit
<1>2. [ClientsNext]_clients => [OnlineNext]_billing
  BY DEF ClientsNext, ByWindows, ByBeats, ByBilling, ByCallers, clients
<1>3. QED
  BY <1>1, <1>2, PTL DEF ClientsSpec, OnlineSpec

\* The invariant holds throughout.
LEMMA OnlineInvariant == ClientsSpec => []OnlineInv
<1>1. OnlineInit => OnlineInv
  BY OnlineInitEstablishes
<1>2. OnlineInv /\ [OnlineNext]_billing => OnlineInv'
  BY OnlineNextKeeps
<1>3. QED
  BY <1>1, <1>2, ClientsRunBilling, PTL DEF OnlineSpec

\* The heartbeats, what the threads hold of them and the rows that are billed are
\* what they are declared to be.
THEOREM OnlineTypesCorrect == ClientsSpec => []OnlineTypeOK
BY OnlineInvariant, OnlineInvSuffices, PTL

\* No time in a system is billed twice unless two requests of the client raced, and
\* a system that is billed was selected throughout, however heartbeats fail and the
\* server restarts (postgres_store.py 3626, 3632; alert_client.py 2374).
THEOREM OnlyDueIsBilled == ClientsSpec => []BillingIsDue
BY OnlineInvariant, OnlineInvSuffices, PTL

-----------------------------------------------------------------------------
(* Monitoring windows, whose invariant is that of module Monitoring_proofs.*)

\* The composition's steps are those of the windows, or leave them alone.
LEMMA ClientsRunWindows == ClientsSpec => Spec
<1>1. ClientsInit => Init
  BY DEF ClientsInit
<1>2. [ClientsNext]_clients => [Next]_vars
  BY DEF ClientsNext, ByWindows, ByBeats, ByBilling, ByCallers, clients
<1>3. QED
  BY <1>1, <1>2, PTL DEF ClientsSpec, Spec

\* The roster evidence of a row is made of different frames of its session: a retried
\* or late OCR result is no new evidence (record_roster_quality).
THEOREM EvidenceStaysIndependent == ClientsSpec => []IndependentEvidence
BY ClientsRunWindows, EvidenceIsIndependent, PTL

-----------------------------------------------------------------------------
BeatSpec == BeatInit /\ [][BeatNext]_beats

-----------------------------------------------------------------------------
(* Heartbeats: the inductive invariant.                                    *)

Sights == [Windows -> {"off", "blind", "seen"}]

Marks == {Never, 0, 1}

ClientRows == [open : BOOLEAN, sight : Sights, halted : BOOLEAN, sent : BOOLEAN]

PostKeys == {"now", "late", "upload"}

SentPosts == [step : {"sent"}, sight : Sights, halted : BOOLEAN]

CopiedPosts == [step : {"copied"}, beat : BeatKeys]

BeatPosts == {NoPost} \cup SentPosts \cup CopiedPosts

FrameRows == [active : BOOLEAN, age : 0..CaptureLease]

BeatsTyped ==
    /\ client \in ClientRows
    /\ posts \in [PostKeys -> BeatPosts]
    /\ held \in BeatKeys /\ stored \in BeatKeys
    /\ frames \in [Windows -> FrameRows]
    /\ unready \in 0..StartupGrace
    /\ calm \in [Windows -> 0..2]
    /\ turns \in 0..MaxTurns /\ losses \in 0..MaxBeatLosses

\* A closed client watches nothing.
ClosedIsBlind == ~client.open => \A w \in Windows : client.sight[w] = "off"

\* What the server holds against a window that it has just heard of: nothing.
Cleared(w) == held.age = 0 /\ held.missing[w] = Never /\ held.stopped = Never

\* A window that was watched for a whole interval in which nothing went wrong is in the
\* heartbeat of the interval, and the server has nothing against it once it has handled that.
HeardOf(w) ==
    calm[w] >= 1 /\ client.sight[w] # "off" =>
        /\ posts["now"].step = "sent" => posts["now"].sight[w] # "off"
        /\ client.sent /\ posts["now"].step # "sent" => Cleared(w)

\* After two of them nothing is old enough to hold against it.
Spared(w) == calm[w] = 2 => held.age <= 1 /\ held.missing[w] <= 0 /\ held.stopped <= 0

BeatInv ==
    /\ BeatsTyped /\ ClosedIsBlind
    /\ \A w \in Windows : HeardOf(w) /\ Spared(w)

-----------------------------------------------------------------------------
(* What the definitions give.                                              *)

\* A time that is set grows to its bound; one that is not stays so.
LEMMA LaterGrows ==
    ASSUME NEW most \in Nat \ {0}, NEW age \in -1..most
    PROVE  /\ Later(age, most) \in -1..most
           /\ age = Never => Later(age, most) = Never
           /\ age # Never => Later(age, most) = IF age < most THEN age + 1 ELSE most
<1>1. CASE age = Never
  BY <1>1 DEF Later, Never
<1>2. CASE age # Never
  <2>1. Later(age, most) = Min({age + 1, most})
    BY <1>2 DEF Later
  <2>2. Min({age + 1, most}) = IF age + 1 <= most THEN age + 1 ELSE most
    BY OfTwo
  <2> QED
    BY <1>2, <2>1, <2>2 DEF Never
<1> QED
  BY <1>1, <1>2

\* The parts of a heartbeat.
LEMMA BeatParts ==
    ASSUME NEW b \in BeatKeys
    PROVE  /\ b.age \in 0..4 /\ b.stopped \in {-1, 0, 1} /\ b.missing \in [Windows -> Marks]
           /\ \A w \in Windows : b.missing[w] \in {-1, 0, 1}
BY DEF BeatKeys, Marks, Never

\* Before a client's first heartbeat.
LEMMA NoHeartbeatTyped == NoHeartbeat \in BeatKeys /\ NoHeartbeat.age = 4
BY DEF NoHeartbeat, BeatKeys, Never

\* A heartbeat that gets older keeps what it says.
LEMMA OlderBeatIs ==
    ASSUME NEW b \in BeatKeys
    PROVE  /\ OlderBeat(b) \in BeatKeys
           /\ OlderBeat(b).age = IF b.age < 4 THEN b.age + 1 ELSE 4
           /\ OlderBeat(b).stopped = Later(b.stopped, 1)
           /\ \A w \in Windows : OlderBeat(b).missing[w] = Later(b.missing[w], 1)
<1> DEFINE age == Later(b.age, 4)
           stopped == Later(b.stopped, 1)
           missing == [w \in Windows |-> Later(b.missing[w], 1)]
<1>1. OlderBeat(b) = [b EXCEPT !.age = age, !.stopped = stopped, !.missing = missing]
  BY Zenon DEF OlderBeat
<1>2. age \in 0..4 /\ age = IF b.age < 4 THEN b.age + 1 ELSE 4
  <2>1. b.age \in -1..4 /\ b.age \in 0..4 /\ b.age # Never
    BY BeatParts DEF Never
  <2>2. age = IF b.age < 4 THEN b.age + 1 ELSE 4
    BY <2>1, LaterGrows
  <2> QED
    BY <2>1, <2>2
<1>3. stopped \in {Never, 0, 1}
  <2>1. b.stopped \in -1..1
    BY BeatParts
  <2>2. stopped \in -1..1
    BY <2>1, LaterGrows
  <2> QED
    BY <2>2 DEF Never
<1>4. missing \in [Windows -> Marks]
  <2>1. \A w \in Windows : b.missing[w] \in -1..1
    BY BeatParts
  <2>2. \A w \in Windows : Later(b.missing[w], 1) \in -1..1
    BY <2>1, LaterGrows
  <2>3. \A w \in Windows : Later(b.missing[w], 1) \in Marks
    BY <2>2 DEF Marks, Never
  <2> QED
    BY <2>3
<1>5. \A w \in Windows : missing[w] = Later(b.missing[w], 1)
  OBVIOUS
<1> HIDE DEF age, stopped, missing
<1>6. OlderBeat(b) \in BeatKeys
  BY <1>1, <1>2, <1>3, <1>4 DEF BeatKeys, Marks
<1>7. OlderBeat(b).age = age /\ OlderBeat(b).stopped = stopped /\ OlderBeat(b).missing = missing
  BY <1>1 DEF BeatKeys
<1> QED
  BY <1>2, <1>5, <1>6, <1>7 DEF stopped

\* What a handler makes of a heartbeat: it is new, it holds nothing against the windows it
\* lists, and what it holds against others begins now.
LEMMA KeptBeatIs ==
    ASSUME NEW b \in BeatKeys, NEW post, post.sight \in Sights
    PROVE  /\ KeptBeat(b, post) \in BeatKeys /\ KeptBeat(b, post).age = 0
           /\ \A w \in Windows : post.sight[w] # "off" =>
                KeptBeat(b, post).missing[w] = Never /\ KeptBeat(b, post).stopped = Never
           /\ \A w \in Windows : b.missing[w] <= 0 => KeptBeat(b, post).missing[w] <= 0
           /\ b.stopped <= 0 => KeptBeat(b, post).stopped <= 0
<1> DEFINE listed == Watched(post.sight)
           known == b.ids \cup {w \in Windows : b.missing[w] # Never} \cup ActiveFrames
           missing == [w \in Windows |->
                    CASE w \in listed -> Never
                      [] w \in known \ listed /\ b.missing[w] = Never -> 0
                      [] OTHER -> b.missing[w]]
           stopped == IF b.stopped = Never /\ post.halted THEN 0 ELSE b.stopped
           busy == [b EXCEPT !.age = 0, !.sight = post.sight, !.ids = listed,
                             !.missing = missing, !.stopped = Never]
           idle == [b EXCEPT !.age = 0, !.sight = post.sight, !.stopped = stopped]
<1>1. /\ listed # {} => KeptBeat(b, post) = busy
      /\ listed = {} => KeptBeat(b, post) = idle
  <2> DEFINE fresh == [b EXCEPT !.age = 0, !.sight = post.sight]
  <2>1. /\ fresh.missing = b.missing /\ fresh.stopped = b.stopped
        /\ [fresh EXCEPT !.ids = listed, !.missing = missing, !.stopped = Never] = busy
        /\ [fresh EXCEPT !.stopped = stopped] = idle
    <3> HIDE DEF listed, missing, stopped
    <3> QED
      BY DEF BeatKeys
  <2>2. KeptBeat(b, post) =
          IF listed # {}
          THEN [fresh EXCEPT !.ids = listed, !.missing = missing, !.stopped = Never]
          ELSE [fresh EXCEPT !.stopped = IF fresh.stopped = Never /\ post.halted THEN 0 ELSE fresh.stopped]
    BY Zenon DEF KeptBeat
  <2> HIDE DEF fresh, busy, idle, missing, listed
  <2> QED
    BY <2>1, <2>2, Zenon
<1>2. listed \subseteq Windows /\ \A w \in Windows : (w \in listed) = (post.sight[w] # "off")
  BY DEF Watched
<1>3. /\ \A w \in Windows : missing[w] \in {Never, 0, b.missing[w]}
      /\ \A w \in Windows : w \in listed => missing[w] = Never
  OBVIOUS
<1>4. missing \in [Windows -> Marks]
  <2>1. \A w \in Windows : missing[w] \in Marks
    BY <1>3, BeatParts DEF Marks
  <2> QED
    BY <2>1
<1>5. stopped \in {Never, 0, b.stopped}
  OBVIOUS
<1> HIDE DEF listed, known, missing, stopped
<1>6. CASE listed # {}
  <2>1. busy \in BeatKeys
    <3>1. 0 \in 0..4 /\ Never \in {Never, 0, 1} /\ listed \in SUBSET Windows
      BY <1>2
    <3> QED
      BY <3>1, <1>4, Zenon DEF BeatKeys, Marks, Sights
  <2>2. busy.age = 0 /\ busy.missing = missing /\ busy.stopped = Never
    BY DEF BeatKeys
  <2> HIDE DEF busy
  <2> QED
    BY <1>1, <1>2, <1>3, <1>6, <2>1, <2>2, BeatParts DEF Never
<1>7. CASE listed = {}
  <2>1. stopped \in {Never, 0, 1}
    BY <1>5, BeatParts DEF Never
  <2>2. idle \in BeatKeys
    <3>1. 0 \in 0..4
      OBVIOUS
    <3> QED
      BY <3>1, <2>1, Zenon DEF BeatKeys, Sights
  <2>3. idle.age = 0 /\ idle.missing = b.missing /\ idle.stopped = stopped
    BY DEF BeatKeys
  <2> HIDE DEF idle
  <2> QED
    BY <1>1, <1>2, <1>5, <1>7, <2>1, <2>2, <2>3, BeatParts DEF Never
<1> QED
  BY <1>6, <1>7

\* The parts of the client's row, and of a post.
LEMMA ClientParts ==
    ASSUME BeatsTyped
    PROVE  /\ client.open \in BOOLEAN /\ client.sight \in Sights
           /\ client.halted \in BOOLEAN /\ client.sent \in BOOLEAN
BY Zenon DEF BeatsTyped, ClientRows

\* The client does something else, and nothing more.
LEMMA ClientWith ==
    ASSUME BeatsTyped, NEW sight \in Sights, NEW halted \in BOOLEAN
    PROVE  /\ [client EXCEPT !.sight = sight, !.halted = halted] \in ClientRows
           /\ [client EXCEPT !.sight = sight, !.halted = halted].sight = sight
           /\ [client EXCEPT !.sight = sight, !.halted = halted].open = client.open
           /\ [client EXCEPT !.sight = sight, !.halted = halted].sent = client.sent
<1>1. client \in ClientRows
  BY Zenon DEF BeatsTyped
<1> QED
  BY <1>1, Zenon DEF ClientRows

\* What a post under way holds.
LEMMA PostParts ==
    ASSUME BeatsTyped, NEW k \in PostKeys
    PROVE  /\ posts[k] \in BeatPosts
           /\ posts[k].step = "sent" => posts[k].sight \in Sights
           /\ posts[k].step = "copied" => posts[k] \in CopiedPosts /\ posts[k].beat \in BeatKeys
           /\ NoPost.step = "none" /\ NoPost \in BeatPosts
<1>1. posts[k] \in BeatPosts
  BY Zenon DEF BeatsTyped
<1>2. NoPost.step = "none" /\ NoPost \in BeatPosts
  BY DEF NoPost, BeatPosts
<1>3. ASSUME posts[k] \in SentPosts
      PROVE  posts[k].step = "sent" /\ posts[k].sight \in Sights
  BY <1>3, Zenon DEF SentPosts
<1>4. ASSUME posts[k] \in CopiedPosts
      PROVE  posts[k].step = "copied" /\ posts[k].beat \in BeatKeys
  BY <1>4, Zenon DEF CopiedPosts
<1>5. posts[k] = NoPost \/ posts[k] \in SentPosts \/ posts[k] \in CopiedPosts
  BY <1>1, Zenon DEF BeatPosts
<1> QED
  BY <1>1, <1>2, <1>3, <1>4, <1>5

\* One post changes.
LEMMA PostChanges ==
    ASSUME BeatsTyped, NEW k \in PostKeys, NEW post \in BeatPosts,
           posts' = [posts EXCEPT ![k] = post]
    PROVE  /\ posts' \in [PostKeys -> BeatPosts] /\ posts'[k] = post
           /\ \A other \in PostKeys : other # k => posts'[other] = posts[other]
<1>1. posts \in [PostKeys -> BeatPosts]
  BY Zenon DEF BeatsTyped
<1> QED
  BY <1>1

\* The copy of a heartbeat is a post.
LEMMA CopyIsPost ==
    ASSUME NEW beat \in BeatKeys
    PROVE  /\ [step |-> "copied", beat |-> beat] \in BeatPosts
           /\ [step |-> "copied", beat |-> beat].step = "copied"
<1>1. [step |-> "copied", beat |-> beat] \in CopiedPosts
  BY Zenon DEF CopiedPosts
<1> QED
  BY <1>1 DEF BeatPosts

\* What is said of a window holds as well if it has turned restless, and of a client that
\* watches no more of them than it did.
LEMMA WindowsKept ==
    ASSUME BeatInv, held' = held, calm' \in [Windows -> 0..2],
           \A w \in Windows : calm'[w] = calm[w] \/ calm'[w] = 0,
           \/ posts'["now"] = posts["now"]
           \/ posts["now"].step # "sent" /\ posts'["now"].step # "sent",
           client'.sent = client.sent,
           \A w \in Windows : calm'[w] = calm[w] /\ calm[w] >= 1 /\ client'.sight[w] # "off"
                                => client.sight[w] # "off"
    PROVE  \A w \in Windows : (HeardOf(w) /\ Spared(w))'
<1> TAKE w \in Windows
<1>1. HeardOf(w) /\ Spared(w) /\ calm[w] \in 0..2
  BY Zenon DEF BeatInv, BeatsTyped
<1>2. CASE calm'[w] = 0
  BY <1>2 DEF HeardOf, Spared
<1>3. CASE calm'[w] = calm[w]
  BY <1>1, <1>3 DEF HeardOf, Spared, Cleared
<1> QED
  BY <1>2, <1>3

\* After trouble nothing is said of any window.
LEMMA TroubleSaysNothing ==
    ASSUME calm' = [w \in Windows |-> 0]
    PROVE  calm' \in [Windows -> 0..2] /\ \A w \in Windows : (HeardOf(w) /\ Spared(w))'
<1>1. \A w \in Windows : calm'[w] = 0
  OBVIOUS
<1>2. calm' \in [Windows -> 0..2]
  OBVIOUS
<1> QED
  BY <1>1, <1>2 DEF HeardOf, Spared

\* Trouble is counted.
LEMMA TroubleCounts ==
    ASSUME BeatsTyped, Trouble
    PROVE  losses' \in 0..MaxBeatLosses /\ calm' = [w \in Windows |-> 0]
BY BeatAssumption DEF Trouble, BeatsTyped

\* So are the player's turns.
LEMMA TurnCounts ==
    ASSUME BeatsTyped, turns < MaxTurns, turns' = turns + 1
    PROVE  turns' \in 0..MaxTurns
BY BeatAssumption DEF BeatsTyped

\* It holds at the start.
LEMMA BeatBegins == BeatInit => BeatInv
<1> SUFFICES ASSUME BeatInit
             PROVE  BeatInv
  OBVIOUS
<1> DEFINE sight == [w \in Windows |-> "seen"]
<1>1. sight \in Sights /\ \A w \in Windows : sight[w] # "off"
  BY DEF Sights
<1>2. client = [open |-> TRUE, sight |-> sight, halted |-> FALSE, sent |-> FALSE]
  BY Zenon DEF BeatInit
<1> HIDE DEF sight
<1>3. TRUE \in BOOLEAN /\ FALSE \in BOOLEAN
  OBVIOUS
<1>4. client \in ClientRows /\ client.open = TRUE
  BY <1>1, <1>2, <1>3, Zenon DEF ClientRows
<1>5. posts \in [PostKeys -> BeatPosts]
  BY Zenon DEF BeatInit, PostKeys, BeatPosts
<1>6. held \in BeatKeys /\ stored \in BeatKeys
  BY NoHeartbeatTyped, Zenon DEF BeatInit
<1>7. frames \in [Windows -> FrameRows]
  <2>1. 0 \in 0..CaptureLease
    BY BeatAssumption
  <2> DEFINE gone == [active |-> FALSE, age |-> 0]
  <2>2. gone \in FrameRows
    BY <2>1, <1>3, Zenon DEF FrameRows
  <2>3. frames = [w \in Windows |-> gone]
    BY Zenon DEF BeatInit
  <2> HIDE DEF gone
  <2> QED
    BY <2>2, <2>3
<1>8. unready \in 0..StartupGrace /\ turns \in 0..MaxTurns /\ losses \in 0..MaxBeatLosses
  BY BeatAssumption DEF BeatInit
<1>9. calm \in [Windows -> 0..2] /\ \A w \in Windows : HeardOf(w) /\ Spared(w)
  BY DEF BeatInit, HeardOf, Spared
<1>10. BeatsTyped
  BY <1>4, <1>5, <1>6, <1>7, <1>8, <1>9, Zenon DEF BeatsTyped
<1>11. ClosedIsBlind
  BY <1>4, Zenon DEF ClosedIsBlind
<1> QED
  BY <1>9, <1>10, <1>11, Zenon DEF BeatInv

-----------------------------------------------------------------------------
(* The client's steps.                                                     *)

\* The player starts to watch a window, loses sight of it or leaves it: what was heard of
\* it is of before, unless it was watched all along.
LEMMA TurnKeeps ==
    ASSUME BeatInv, NEW w \in Restless, NEW s \in {"off", "blind", "seen"}, Turn(w, s)
    PROVE  BeatInv'
<1> DEFINE sight == [client.sight EXCEPT ![w] = s]
           halted == Watched(sight) = {}
<1>1. BeatsTyped /\ client.sight \in Sights /\ w \in Windows
  BY BeatAssumption, ClientParts, Zenon DEF BeatInv
<1>2. sight \in Sights /\ \A x \in Windows : x # w => sight[x] = client.sight[x]
  BY <1>1 DEF Sights
<1>3. halted \in BOOLEAN
  OBVIOUS
<1>4. /\ client.open /\ turns < MaxTurns
      /\ client' = [client EXCEPT !.sight = sight, !.halted = halted]
      /\ turns' = turns + 1
      /\ calm' = IF client.sight[w] = "off" THEN [calm EXCEPT ![w] = 0] ELSE calm
      /\ UNCHANGED <<posts, held, stored, frames, unready, losses>>
  BY Zenon DEF Turn
<1> HIDE DEF sight, halted
<1>5. /\ client' \in ClientRows /\ client'.sight = sight
      /\ client'.open = client.open /\ client'.sent = client.sent
  BY <1>1, <1>2, <1>3, <1>4, ClientWith, Zenon
<1>6. turns' \in 0..MaxTurns
  BY <1>1, <1>4, TurnCounts, Zenon
<1>7. calm \in [Windows -> 0..2]
  BY <1>1, Zenon DEF BeatsTyped
<1>8. /\ calm' \in [Windows -> 0..2]
      /\ \A x \in Windows : calm'[x] = calm[x] \/ calm'[x] = 0
      /\ client.sight[w] = "off" => calm'[w] = 0
  BY <1>1, <1>4, <1>7
<1>9. \A x \in Windows : calm'[x] = calm[x] /\ calm[x] >= 1 /\ client'.sight[x] # "off"
                           => client.sight[x] # "off"
  BY <1>2, <1>5, <1>7, <1>8
<1>10. \A x \in Windows : (HeardOf(x) /\ Spared(x))'
  BY <1>4, <1>5, <1>8, <1>9, WindowsKept
<1>11. BeatsTyped'
  BY <1>1, <1>4, <1>5, <1>6, <1>8, Zenon DEF BeatsTyped
<1>12. ClosedIsBlind'
  BY <1>4, <1>5, Zenon DEF ClosedIsBlind
<1> QED
  BY <1>10, <1>11, <1>12, Zenon DEF BeatInv

\* Another action of an idle client.
LEMMA OtherActionKeeps ==
    ASSUME BeatInv, OtherAction
    PROVE  BeatInv'
<1>1. BeatsTyped /\ client.sight \in Sights /\ FALSE \in BOOLEAN
  BY ClientParts, Zenon DEF BeatInv
<1>2. /\ turns < MaxTurns /\ client' = [client EXCEPT !.halted = FALSE]
      /\ turns' = turns + 1
      /\ UNCHANGED <<posts, held, stored, frames, unready, calm, losses>>
  BY Zenon DEF OtherAction
<1>3. client \in ClientRows
  BY <1>1, Zenon DEF BeatsTyped
<1>4. /\ client' \in ClientRows /\ client'.sight = client.sight
      /\ client'.open = client.open /\ client'.sent = client.sent
  BY <1>1, <1>2, <1>3, Zenon DEF ClientRows
<1>5. turns' \in 0..MaxTurns
  BY <1>1, <1>2, TurnCounts, Zenon
<1>6. calm' \in [Windows -> 0..2]
  BY <1>1, <1>2, Zenon DEF BeatsTyped
<1>7. \A x \in Windows : (HeardOf(x) /\ Spared(x))'
  BY <1>2, <1>4, <1>6, WindowsKept
<1>8. BeatsTyped'
  BY <1>1, <1>2, <1>4, <1>5, <1>6, Zenon DEF BeatsTyped
<1>9. ClosedIsBlind'
  BY <1>4, Zenon DEF ClosedIsBlind, BeatInv
<1> QED
  BY <1>7, <1>8, <1>9, Zenon DEF BeatInv

\* A client that closes watches nothing.
LEMMA CloseKeeps ==
    ASSUME BeatInv, Close
    PROVE  BeatInv'
<1> DEFINE dark == [w \in Windows |-> "off"]
<1>1. BeatsTyped /\ FALSE \in BOOLEAN
  BY Zenon DEF BeatInv
<1>2. dark \in Sights /\ \A x \in Windows : dark[x] = "off"
  BY DEF Sights
<1>3. /\ turns < MaxTurns /\ client' = [client EXCEPT !.open = FALSE, !.sight = dark]
      /\ turns' = turns + 1
      /\ UNCHANGED <<posts, held, stored, frames, unready, calm, losses>>
  BY Zenon DEF Close
<1>4. client \in ClientRows
  BY <1>1, Zenon DEF BeatsTyped
<1> HIDE DEF dark
<1>5. client' \in ClientRows /\ client'.sight = dark /\ client'.sent = client.sent
  BY <1>1, <1>2, <1>3, <1>4, Zenon DEF ClientRows
<1>6. turns' \in 0..MaxTurns
  BY <1>1, <1>3, TurnCounts, Zenon
<1>7. calm' \in [Windows -> 0..2]
  BY <1>1, <1>3, Zenon DEF BeatsTyped
<1>8. \A x \in Windows : (HeardOf(x) /\ Spared(x))'
  BY <1>2, <1>3, <1>5, <1>7, WindowsKept
<1>9. BeatsTyped'
  BY <1>1, <1>3, <1>5, <1>6, <1>7, Zenon DEF BeatsTyped
<1>10. ClosedIsBlind'
  BY <1>2, <1>5, Zenon DEF ClosedIsBlind
<1> QED
  BY <1>8, <1>9, <1>10, Zenon DEF BeatInv

\* A heartbeat is sent with what is watched now.
LEMMA SendBeatKeeps ==
    ASSUME BeatInv, SendBeat
    PROVE  BeatInv'
<1> DEFINE post == [step |-> "sent", sight |-> client.sight, halted |-> client.halted]
<1>1. BeatsTyped /\ client \in ClientRows /\ TRUE \in BOOLEAN
      /\ client.sight \in Sights /\ client.halted \in BOOLEAN
  BY ClientParts, Zenon DEF BeatInv, BeatsTyped
<1>2. /\ client' = [client EXCEPT !.sent = TRUE]
      /\ posts' = [posts EXCEPT !["now"] = post]
      /\ UNCHANGED <<held, stored, frames, unready, calm, turns, losses>>
  BY Zenon DEF SendBeat
<1>3. post \in BeatPosts /\ post.step = "sent" /\ post.sight = client.sight
  BY <1>1, Zenon DEF SentPosts, BeatPosts
<1> HIDE DEF post
<1>4. /\ client' \in ClientRows /\ client'.sight = client.sight /\ client'.open = client.open
  BY <1>1, <1>2, Zenon DEF ClientRows
<1>5. "now" \in PostKeys
  BY DEF PostKeys
<1>6. posts' \in [PostKeys -> BeatPosts] /\ posts'["now"] = post
  BY <1>1, <1>2, <1>3, <1>5, PostChanges, Zenon
<1>7. \A w \in Windows : HeardOf(w)'
  BY <1>3, <1>4, <1>6, Zenon DEF HeardOf
<1>8. \A w \in Windows : Spared(w)'
  BY <1>2 DEF BeatInv, Spared
<1>9. BeatsTyped'
  BY <1>1, <1>2, <1>4, <1>6, Zenon DEF BeatsTyped
<1>10. ClosedIsBlind'
  BY <1>4, Zenon DEF ClosedIsBlind, BeatInv
<1> QED
  BY <1>7, <1>8, <1>9, <1>10, Zenon DEF BeatInv

\* The client gives a heartbeat up, or one is lost.
LEMMA GiveUpKeeps ==
    ASSUME BeatInv, GiveUp \/ Lost
    PROVE  BeatInv'
<1>1. BeatsTyped /\ "now" \in PostKeys /\ "late" \in PostKeys
  BY Zenon DEF BeatInv, PostKeys
<1>2. Trouble /\ UNCHANGED <<client, held, stored, frames, unready, turns>>
  BY Zenon DEF GiveUp, Lost
<1>3. losses' \in 0..MaxBeatLosses /\ calm' = [w \in Windows |-> 0]
  BY <1>1, <1>2, TroubleCounts, Zenon
<1>4. calm' \in [Windows -> 0..2] /\ \A w \in Windows : (HeardOf(w) /\ Spared(w))'
  BY <1>3, TroubleSaysNothing
<1>5. posts \in [PostKeys -> BeatPosts] /\ NoPost \in BeatPosts
  BY <1>1, PostParts, Zenon DEF BeatsTyped
<1>6. posts' \in [PostKeys -> BeatPosts]
  <2>1. CASE GiveUp
    <3>1. posts' = [posts EXCEPT !["now"] = NoPost, !["late"] = posts["now"]]
      BY <2>1, Zenon DEF GiveUp
    <3> QED
      BY <1>1, <1>5, <3>1
  <2>2. CASE Lost
    <3>1. PICK k \in {"now", "late"} : posts' = [posts EXCEPT ![k] = NoPost]
      BY <2>2, Zenon DEF Lost
    <3> QED
      BY <1>5, <3>1
  <2> QED
    BY <2>1, <2>2
<1>7. BeatsTyped'
  BY <1>1, <1>2, <1>3, <1>4, <1>6, Zenon DEF BeatsTyped
<1>8. ClosedIsBlind'
  BY <1>2, Zenon DEF ClosedIsBlind, BeatInv
<1> QED
  BY <1>4, <1>7, <1>8, Zenon DEF BeatInv

-----------------------------------------------------------------------------
(* The server's steps.                                                     *)

\* A heartbeat is handled: one of this interval clears what it lists, and what it holds
\* against others begins now.
LEMMA HandleBeatKeeps ==
    ASSUME BeatInv, NEW k \in {"now", "late"}, HandleBeat(k)
    PROVE  BeatInv'
<1> DEFINE post == [step |-> "copied", beat |-> held']
<1>1. BeatsTyped /\ k \in PostKeys /\ "now" \in PostKeys
      /\ held \in BeatKeys /\ calm \in [Windows -> 0..2]
  BY Zenon DEF BeatInv, PostKeys, BeatsTyped
<1>2. /\ posts[k].step = "sent" /\ held' = KeptBeat(held, posts[k])
      /\ posts' = [posts EXCEPT ![k] = post]
      /\ calm' = IF k = "late" THEN [w \in Windows |-> 0] ELSE calm
      /\ UNCHANGED <<client, stored, frames, unready, turns, losses>>
  BY Zenon DEF HandleBeat
<1>3. posts[k].sight \in Sights
  BY <1>1, <1>2, PostParts, Zenon
<1>4. /\ held' \in BeatKeys /\ held'.age = 0
      /\ \A w \in Windows : posts[k].sight[w] # "off" => held'.missing[w] = Never /\ held'.stopped = Never
      /\ \A w \in Windows : held.missing[w] <= 0 => held'.missing[w] <= 0
      /\ held.stopped <= 0 => held'.stopped <= 0
  <2> DEFINE p == posts[k]
  <2>1. p.sight \in Sights
    BY <1>3
  <2> HIDE DEF p
  <2>2. /\ KeptBeat(held, p) \in BeatKeys /\ KeptBeat(held, p).age = 0
        /\ \A w \in Windows : p.sight[w] # "off" =>
                KeptBeat(held, p).missing[w] = Never /\ KeptBeat(held, p).stopped = Never
        /\ \A w \in Windows : held.missing[w] <= 0 => KeptBeat(held, p).missing[w] <= 0
        /\ held.stopped <= 0 => KeptBeat(held, p).stopped <= 0
    BY <1>1, <2>1, KeptBeatIs
  <2> QED
    BY <1>2, <2>2 DEF p
<1>5. post \in BeatPosts /\ post.step = "copied"
  BY <1>4, CopyIsPost
<1> HIDE DEF post
<1>6. posts' \in [PostKeys -> BeatPosts] /\ posts'[k] = post
  BY <1>1, <1>2, <1>5, PostChanges, Zenon
<1>7. calm' \in [Windows -> 0..2] /\ \A w \in Windows : (HeardOf(w) /\ Spared(w))'
  <2>1. CASE k = "late"
    BY <1>2, <2>1, TroubleSaysNothing
  <2>2. CASE k = "now"
    <3>1. calm' = calm /\ client' = client /\ posts["now"].step = "sent" /\ posts'["now"].step = "copied"
      BY <1>2, <1>5, <1>6, <2>2
    <3>2. \A w \in Windows : HeardOf(w)'
      BY <1>4, <2>2, <3>1 DEF BeatInv, HeardOf, Cleared
    <3>3. \A w \in Windows : Spared(w)'
      BY <1>4, <3>1 DEF BeatInv, Spared
    <3> QED
      BY <1>1, <3>1, <3>2, <3>3
  <2> QED
    BY <2>1, <2>2
<1>8. BeatsTyped'
  BY <1>1, <1>2, <1>4, <1>6, <1>7, Zenon DEF BeatsTyped
<1>9. ClosedIsBlind'
  BY <1>2, Zenon DEF ClosedIsBlind, BeatInv
<1> QED
  BY <1>7, <1>8, <1>9, Zenon DEF BeatInv

\* A frame is a sign of life of its client, and says nothing else of it.
LEMMA UploadFrameKeeps ==
    ASSUME BeatInv, NEW w \in Windows, UploadFrame(w)
    PROVE  BeatInv'
<1> DEFINE frame == [active |-> TRUE, age |-> 0]
           new == [held EXCEPT !.age = 0]
           post == [step |-> "copied", beat |-> new]
<1>1. /\ BeatsTyped /\ held \in BeatKeys /\ TRUE \in BOOLEAN
      /\ frames \in [Windows -> FrameRows] /\ "upload" \in PostKeys /\ "now" \in PostKeys
      /\ calm \in [Windows -> 0..2] /\ posts \in [PostKeys -> BeatPosts]
  BY Zenon DEF BeatInv, BeatsTyped, PostKeys
<1>2. /\ frames' = [frames EXCEPT ![w] = frame]
      /\ UNCHANGED <<client, stored, unready, calm, turns, losses>>
      /\ \/ held' = new /\ posts' = [posts EXCEPT !["upload"] = post]
         \/ held' = held /\ posts' = posts
  BY Zenon DEF UploadFrame
<1>3. frame \in FrameRows
  <2>1. 0 \in 0..CaptureLease
    BY BeatAssumption
  <2> QED
    BY <1>1, <2>1, Zenon DEF FrameRows
<1>4. new \in BeatKeys /\ new.age = 0 /\ new.missing = held.missing /\ new.stopped = held.stopped
  BY <1>1 DEF BeatKeys
<1>5. post \in BeatPosts
  BY <1>4, CopyIsPost
<1> HIDE DEF frame, new, post
<1>6. frames' \in [Windows -> FrameRows]
  BY <1>1, <1>2, <1>3
<1>7. /\ held' \in BeatKeys /\ held'.missing = held.missing /\ held'.stopped = held.stopped
      /\ held'.age = 0 \/ held'.age = held.age
      /\ posts' \in [PostKeys -> BeatPosts] /\ posts'["now"] = posts["now"]
  <2>1. CASE held' = held /\ posts' = posts
    BY <1>1, <2>1
  <2>2. CASE held' = new /\ posts' = [posts EXCEPT !["upload"] = post]
    BY <1>1, <1>4, <1>5, <2>2
  <2> QED
    BY <1>2, <2>1, <2>2
<1>8. \A x \in Windows : HeardOf(x)'
  BY <1>2, <1>7 DEF BeatInv, HeardOf, Cleared
<1>9. \A x \in Windows : Spared(x)'
  BY <1>2, <1>7 DEF BeatInv, Spared
<1>10. BeatsTyped'
  BY <1>1, <1>2, <1>6, <1>7, Zenon DEF BeatsTyped
<1>11. ClosedIsBlind'
  BY <1>2, Zenon DEF ClosedIsBlind, BeatInv
<1> QED
  BY <1>8, <1>9, <1>10, <1>11, Zenon DEF BeatInv

\* A copy is written to the database.
LEMMA StoreBeatKeeps ==
    ASSUME BeatInv, NEW k \in DOMAIN posts, StoreBeat(k)
    PROVE  BeatInv'
<1>1. BeatsTyped /\ "now" \in PostKeys /\ calm \in [Windows -> 0..2] /\ posts \in [PostKeys -> BeatPosts]
  BY Zenon DEF BeatInv, BeatsTyped, PostKeys
<1>2. k \in PostKeys
  BY <1>1
<1>3. /\ posts[k].step = "copied" /\ stored' = posts[k].beat /\ posts' = [posts EXCEPT ![k] = NoPost]
      /\ UNCHANGED <<client, held, frames, unready, calm, turns, losses>>
  BY Zenon DEF StoreBeat
<1>4. stored' \in BeatKeys /\ NoPost \in BeatPosts /\ NoPost.step = "none"
  BY <1>1, <1>2, <1>3, PostParts, Zenon
<1>5. /\ posts' \in [PostKeys -> BeatPosts] /\ posts'[k] = NoPost
      /\ \A other \in PostKeys : other # k => posts'[other] = posts[other]
  BY <1>1, <1>2, <1>3, <1>4, PostChanges, Zenon
<1>6. \/ posts'["now"] = posts["now"]
      \/ posts["now"].step # "sent" /\ posts'["now"].step # "sent"
  BY <1>1, <1>3, <1>4, <1>5
<1>7. \A x \in Windows : (HeardOf(x) /\ Spared(x))'
  BY <1>1, <1>3, <1>6, WindowsKept
<1>8. BeatsTyped'
  BY <1>1, <1>3, <1>4, <1>5, Zenon DEF BeatsTyped
<1>9. ClosedIsBlind'
  BY <1>3, Zenon DEF ClosedIsBlind, BeatInv
<1> QED
  BY <1>7, <1>8, <1>9, Zenon DEF BeatInv

\* Rows end.
LEMMA ExpireFramesKeeps ==
    ASSUME BeatInv, ExpireFrames
    PROVE  BeatInv'
<1> DEFINE ended == [active |-> FALSE, age |-> 0]
<1>1. /\ BeatsTyped /\ FALSE \in BOOLEAN
      /\ frames \in [Windows -> FrameRows] /\ calm \in [Windows -> 0..2]
  BY Zenon DEF BeatInv, BeatsTyped
<1>2. /\ frames' = [w \in Windows |-> IF w \in Gone THEN ended ELSE frames[w]]
      /\ UNCHANGED <<client, posts, held, stored, unready, calm, turns, losses>>
  BY Zenon DEF ExpireFrames
<1>3. ended \in FrameRows
  <2>1. 0 \in 0..CaptureLease
    BY BeatAssumption
  <2> QED
    BY <1>1, <2>1, Zenon DEF FrameRows
<1> HIDE DEF ended
<1>4. frames' \in [Windows -> FrameRows]
  BY <1>1, <1>2, <1>3
<1>5. \A x \in Windows : (HeardOf(x) /\ Spared(x))'
  BY <1>1, <1>2, WindowsKept
<1>6. BeatsTyped'
  BY <1>1, <1>2, <1>4, Zenon DEF BeatsTyped
<1>7. ClosedIsBlind'
  BY <1>2, Zenon DEF ClosedIsBlind, BeatInv
<1> QED
  BY <1>5, <1>6, <1>7, Zenon DEF BeatInv

\* The server reads back what it has stored.
LEMMA RestartServerKeeps ==
    ASSUME BeatInv, RestartServer
    PROVE  BeatInv'
<1>1. BeatsTyped /\ "now" \in PostKeys /\ posts \in [PostKeys -> BeatPosts] /\ stored \in BeatKeys
  BY Zenon DEF BeatInv, BeatsTyped, PostKeys
<1>2. /\ Trouble /\ held' = stored
      /\ unready' = IF stored = NoHeartbeat THEN 0 ELSE StartupGrace
      /\ posts' = [k \in DOMAIN posts |-> NoPost]
      /\ UNCHANGED <<client, stored, frames, turns>>
  BY Zenon DEF RestartServer
<1>3. losses' \in 0..MaxBeatLosses /\ calm' = [w \in Windows |-> 0]
  BY <1>1, <1>2, TroubleCounts, Zenon
<1>4. calm' \in [Windows -> 0..2] /\ \A w \in Windows : (HeardOf(w) /\ Spared(w))'
  BY <1>3, TroubleSaysNothing
<1>5. NoPost \in BeatPosts
  BY <1>1, PostParts, Zenon
<1>6. posts' \in [PostKeys -> BeatPosts]
  BY <1>1, <1>2, <1>5
<1>7. unready' \in 0..StartupGrace
  BY <1>2, BeatAssumption
<1>8. BeatsTyped'
  BY <1>1, <1>2, <1>3, <1>4, <1>6, <1>7, Zenon DEF BeatsTyped
<1>9. ClosedIsBlind'
  BY <1>2, Zenon DEF ClosedIsBlind, BeatInv
<1> QED
  BY <1>4, <1>8, <1>9, Zenon DEF BeatInv

-----------------------------------------------------------------------------
(* Time.                                                                   *)

\* An interval keeps the types.
LEMMA IntervalTyped ==
    ASSUME BeatsTyped, PassInterval
    PROVE  /\ client' \in ClientRows /\ client'.sight = client.sight
           /\ client'.open = client.open /\ client'.sent = FALSE
           /\ posts' \in [PostKeys -> BeatPosts]
           /\ \A k \in PostKeys : posts[k] = NoPost => posts'[k] = NoPost
           /\ held' \in BeatKeys /\ stored' \in BeatKeys
           /\ frames' \in [Windows -> FrameRows]
           /\ unready' \in 0..StartupGrace /\ turns' = turns
<1>1. /\ client \in ClientRows /\ FALSE \in BOOLEAN
      /\ posts \in [PostKeys -> BeatPosts] /\ held \in BeatKeys /\ stored \in BeatKeys
      /\ frames \in [Windows -> FrameRows] /\ unready \in 0..StartupGrace
  BY Zenon DEF BeatsTyped
<1>2. /\ client' = [client EXCEPT !.sent = FALSE]
      /\ posts' = [k \in DOMAIN posts |-> OlderPost(posts[k])]
      /\ held' = IF held = NoHeartbeat THEN held ELSE OlderBeat(held)
      /\ stored' = IF stored = NoHeartbeat THEN stored ELSE OlderBeat(stored)
      /\ frames' = [w \in Windows |->
                    IF frames[w].active THEN [frames[w] EXCEPT !.age = Later(frames[w].age, CaptureLease)]
                    ELSE frames[w]]
      /\ unready' = Max({unready - 1, 0}) /\ turns' = turns
  BY Zenon DEF PassInterval
<1>3. /\ client' \in ClientRows /\ client'.sight = client.sight
      /\ client'.open = client.open /\ client'.sent = FALSE
  BY <1>1, <1>2, Zenon DEF ClientRows
<1>4. held' \in BeatKeys /\ stored' \in BeatKeys
  BY <1>1, <1>2, OlderBeatIs, Zenon
<1>5. ASSUME NEW k \in PostKeys
      PROVE  /\ OlderPost(posts[k]) \in BeatPosts
             /\ posts[k] = NoPost => OlderPost(posts[k]) = NoPost
  <2>1. CASE posts[k].step = "copied"
    <3> DEFINE beat == posts[k].beat
               older == OlderBeat(beat)
    <3>1. posts[k] \in CopiedPosts /\ beat \in BeatKeys /\ posts[k] # NoPost
      <4>1. posts[k] # NoPost
        BY <2>1 DEF NoPost
      <4> QED
        BY <2>1, <4>1, PostParts, Zenon
    <3>2. older \in BeatKeys
      BY <3>1, OlderBeatIs
    <3>3. OlderPost(posts[k]) = [posts[k] EXCEPT !.beat = older]
      BY <2>1, Zenon DEF OlderPost
    <3> HIDE DEF beat, older
    <3>4. OlderPost(posts[k]) \in CopiedPosts
      BY <3>1, <3>2, <3>3, Zenon DEF CopiedPosts
    <3> QED
      BY <3>1, <3>4, Zenon DEF BeatPosts
  <2>2. CASE posts[k].step # "copied"
    <3>1. OlderPost(posts[k]) = posts[k]
      BY <2>2, Zenon DEF OlderPost
    <3> QED
      BY <1>1, <3>1
  <2> QED
    BY <2>1, <2>2
<1>6. /\ posts' \in [PostKeys -> BeatPosts]
      /\ \A k \in PostKeys : posts[k] = NoPost => posts'[k] = NoPost
  BY <1>1, <1>2, <1>5
<1>7. frames' \in [Windows -> FrameRows]
  <2>1. ASSUME NEW w \in Windows
        PROVE  [frames[w] EXCEPT !.age = Later(frames[w].age, CaptureLease)] \in FrameRows
    <3> DEFINE row == frames[w]
               age == Later(row.age, CaptureLease)
    <3>1. row \in FrameRows
      BY <1>1
    <3>2. row.age \in 0..CaptureLease
      BY <3>1, Zenon DEF FrameRows
    <3>3. age \in 0..CaptureLease
      <4>1. row.age \in -1..CaptureLease /\ row.age # Never
        BY <3>2, BeatAssumption DEF Never
      <4>2. age = IF row.age < CaptureLease THEN row.age + 1 ELSE CaptureLease
        BY <4>1, BeatAssumption, LaterGrows
      <4> QED
        BY <3>2, <4>2, BeatAssumption
    <3> HIDE DEF age
    <3>4. [row EXCEPT !.age = age] \in FrameRows
      BY <3>1, <3>3, Zenon DEF FrameRows
    <3> QED
      BY <3>4 DEF age
  <2> QED
    BY <1>1, <1>2, <2>1
<1>8. unready' \in 0..StartupGrace
  <2> DEFINE less == unready - 1
  <2>1. less \in Int /\ 0 \in Int
    BY <1>1
  <2>2. (less >= 0 => less \in 0..StartupGrace) /\ 0 \in 0..StartupGrace
    BY <1>1, BeatAssumption
  <2>3. unready' = Max({less, 0})
    BY <1>2
  <2> HIDE DEF less
  <2>4. Max({less, 0}) = IF less >= 0 THEN less ELSE 0
    BY <2>1, OfTwo
  <2> QED
    BY <2>2, <2>3, <2>4
<1> QED
  BY <1>2, <1>3, <1>4, <1>6, <1>7, <1>8

\* An interval in which something was late.
LEMMA SlowTickKeeps ==
    ASSUME BeatInv, SlowTick
    PROVE  BeatInv'
<1>1. BeatsTyped /\ PassInterval /\ Trouble
  BY Zenon DEF BeatInv, SlowTick
<1>2. losses' \in 0..MaxBeatLosses /\ calm' = [w \in Windows |-> 0]
  BY <1>1, TroubleCounts, Zenon
<1>3. calm' \in [Windows -> 0..2] /\ \A w \in Windows : (HeardOf(w) /\ Spared(w))'
  BY <1>2, TroubleSaysNothing
<1>4. BeatsTyped'
  BY <1>1, <1>2, <1>3, IntervalTyped, Zenon DEF BeatsTyped
<1>5. ClosedIsBlind'
  BY <1>1, IntervalTyped, Zenon DEF ClosedIsBlind, BeatInv
<1> QED
  BY <1>3, <1>4, <1>5, Zenon DEF BeatInv

\* An interval in which everything was in time: a window that is watched at its end, and was
\* watched for all of it, was cleared in it.
LEMMA BeatTickKeeps ==
    ASSUME BeatInv, BeatTick
    PROVE  BeatInv'
<1>1. /\ BeatsTyped /\ PassInterval /\ losses' = losses /\ "now" \in PostKeys
      /\ client.open => client.sent
      /\ posts["now"] = NoPost
      /\ calm' = [w \in Windows |-> IF client.sight[w] = "off" THEN 0 ELSE Min({calm[w] + 1, 2})]
  BY Zenon DEF BeatInv, BeatTick, Punctual, PostKeys
<1>2. held \in BeatKeys /\ calm \in [Windows -> 0..2] /\ NoPost.step = "none"
  BY <1>1, PostParts, Zenon DEF BeatsTyped
<1>3. \A w \in Windows :
          calm'[w] = IF client.sight[w] = "off" THEN 0 ELSE IF calm[w] + 1 <= 2 THEN calm[w] + 1 ELSE 2
  <2> TAKE w \in Windows
  <2>1. calm[w] + 1 \in Int
    BY <1>2
  <2> QED
    BY <1>1, <2>1, OfTwo
<1>4. calm' \in [Windows -> 0..2]
  <2>1. \A w \in Windows : calm'[w] \in 0..2
    BY <1>2, <1>3
  <2> QED
    BY <1>1, <2>1
<1>5. BeatsTyped'
  BY <1>1, <1>4, IntervalTyped, Zenon DEF BeatsTyped
<1>6. ClosedIsBlind'
  BY <1>1, IntervalTyped, Zenon DEF ClosedIsBlind, BeatInv
<1>7. client'.sent = FALSE /\ posts'["now"] = NoPost
  BY <1>1, IntervalTyped, Zenon
<1>8. ASSUME NEW w \in Windows
      PROVE  (HeardOf(w) /\ Spared(w))'
  <2>1. HeardOf(w)'
    BY <1>2, <1>7, Zenon DEF HeardOf
  <2>2. SUFFICES ASSUME calm'[w] = 2
                 PROVE  held'.age <= 1 /\ held'.missing[w] <= 0 /\ held'.stopped <= 0
    BY <2>1 DEF Spared
  <2>3. client.sight[w] # "off" /\ calm[w] >= 1
    BY <1>2, <1>3, <2>2
  <2>4. client.sent
    BY <1>1, <2>3, Zenon DEF BeatInv, ClosedIsBlind
  <2>5. posts["now"].step # "sent"
    BY <1>1, <1>2
  <2>6. Cleared(w)
    BY <2>3, <2>4, <2>5, Zenon DEF BeatInv, HeardOf
  <2>7. held # NoHeartbeat
    BY <2>6, NoHeartbeatTyped DEF Cleared
  <2>8. held' = OlderBeat(held)
    BY <1>1, <2>7, Zenon DEF PassInterval
  <2>9. Later(Never, 1) = Never
    BY DEF Later
  <2> QED
    BY <1>2, <2>6, <2>8, <2>9, OlderBeatIs DEF Cleared, Never
<1> QED
  BY <1>5, <1>6, <1>8, Zenon DEF BeatInv

-----------------------------------------------------------------------------
\* Every step keeps the invariant.
LEMMA BeatStepKeeps == BeatInv /\ [BeatNext]_beats => BeatInv'
<1>1. CASE BeatNext
  BY <1>1, TurnKeeps, OtherActionKeeps, CloseKeeps, SendBeatKeeps, GiveUpKeeps, HandleBeatKeeps,
     UploadFrameKeeps, StoreBeatKeeps, ExpireFramesKeeps, RestartServerKeeps, BeatTickKeeps,
     SlowTickKeeps, Zenon DEF BeatNext
<1>2. ASSUME BeatInv, UNCHANGED beats
      PROVE  BeatInv'
  <2>1. UNCHANGED <<client, posts, held, stored, frames, unready, calm, turns, losses>>
    BY <1>2 DEF beats
  <2>2. calm \in [Windows -> 0..2]
    BY <1>2, Zenon DEF BeatInv, BeatsTyped
  <2>3. \A x \in Windows : (HeardOf(x) /\ Spared(x))'
    BY <1>2, <2>1, <2>2, WindowsKept
  <2>4. BeatsTyped' /\ ClosedIsBlind'
    BY <1>2, <2>1, Zenon DEF BeatInv, BeatsTyped, ClosedIsBlind
  <2> QED
    BY <2>3, <2>4, Zenon DEF BeatInv
<1> QED
  BY <1>1, <1>2, Zenon

\* The cleanup finds nothing against a window that was spared.
LEMMA SparedStays ==
    ASSUME BeatInv, NEW w \in Windows, calm[w] >= 2
    PROVE  ~BeatIsDue(w)
<1>1. held \in BeatKeys /\ calm[w] = 2 /\ Spared(w)
  <2>1. held \in BeatKeys /\ calm[w] \in 0..2 /\ Spared(w)
    BY Zenon DEF BeatInv, BeatsTyped
  <2> QED
    BY <2>1
<1>2. held.age <= 1 /\ held.missing[w] <= 0 /\ held.stopped <= 0
  BY <1>1 DEF Spared
<1>3. held.age \in 0..4 /\ held.stopped \in {-1, 0, 1} /\ held.missing[w] \in {-1, 0, 1}
  BY <1>1, BeatParts
<1> QED
  BY <1>2, <1>3 DEF BeatIsDue, Cause

\* No step ends the row of a window that was watched, in calm, for two intervals.
LEMMA LiveWindowsKept ==
    ASSUME BeatInv, BeatNext, NEW w \in Windows, frames[w].active, ~frames'[w].active,
           ~(calm[w] < 2)
    PROVE  frames[w].age >= CaptureLease
<1>1. frames \in [Windows -> FrameRows] /\ calm[w] \in 0..2
  BY Zenon DEF BeatInv, BeatsTyped
<1>2. ExpireFrames
  <2>1. frames' # frames
    OBVIOUS
  <2>2. ASSUME PassInterval
        PROVE  FALSE
    <3> DEFINE age == Later(frames[w].age, CaptureLease)
    <3>1. frames'[w] = [frames[w] EXCEPT !.age = age]
      BY <2>2, Zenon DEF PassInterval
    <3>2. frames[w] \in FrameRows
      BY <1>1
    <3> HIDE DEF age
    <3>3. frames'[w].active = frames[w].active
      BY <3>1, <3>2, Zenon DEF FrameRows
    <3> QED
      BY <3>3, Zenon
  <2>3. ASSUME NEW x \in Windows, UploadFrame(x)
        PROVE  FALSE
    <3> DEFINE new == [active |-> TRUE, age |-> 0]
    <3>1. frames' = [frames EXCEPT ![x] = new]
      BY <2>3, Zenon DEF UploadFrame
    <3>2. new.active
      BY Zenon
    <3> HIDE DEF new
    <3>3. frames'[w] = new \/ frames'[w] = frames[w]
      BY <1>1, <3>1
    <3> QED
      BY <3>2, <3>3, Zenon
  <2> QED
    BY <2>1, <2>2, <2>3, Zenon
       DEF BeatNext, Turn, OtherAction, Close, SendBeat, GiveUp, Lost, HandleBeat, StoreBeat,
           RestartServer, BeatTick, SlowTick
<1>3. w \in Gone
  <2>1. frames' = [x \in Windows |-> IF x \in Gone THEN [active |-> FALSE, age |-> 0] ELSE frames[x]]
    BY <1>2, Zenon DEF ExpireFrames
  <2> QED
    BY <2>1, Zenon
<1>4. ~BeatIsDue(w)
  BY <1>1, SparedStays
<1> QED
  BY <1>3, <1>4, Zenon DEF Gone, LeaseIsOver

\* In the composition every step is one of the heartbeats', or none of their variables change.
LEMMA ClientsRunBeats == ClientsSpec => BeatSpec
<1>1. ClientsInit => BeatInit
  BY Zenon DEF ClientsInit
<1>2. [ClientsNext]_clients => [BeatNext]_beats
  BY Zenon DEF ClientsNext, clients, ByWindows, ByBeats, ByBilling, ByCallers
<1> QED
  BY <1>1, <1>2, PTL DEF ClientsSpec, BeatSpec

\* What is said of the heartbeats holds in every behaviour of the composition.
LEMMA BeatInvariant == ClientsSpec => []BeatInv
BY BeatBegins, BeatStepKeeps, ClientsRunBeats, PTL DEF BeatSpec

\* The state of the heartbeats keeps its types.
THEOREM BeatTypesCorrect == ClientsSpec => []BeatTypeOK
<1>1. BeatInv => BeatTypeOK
  BY ClientParts, Zenon DEF BeatInv, BeatsTyped, BeatTypeOK, Sights, FrameRows
<1> QED
  BY <1>1, BeatInvariant, PTL

\* For any windows, lease, grace, turns and losses: a window that its client has watched for
\* two intervals in which nothing went wrong never loses its row to what the heartbeats say,
\* whatever late heartbeats, stops of the client and restarts came before
\* (intel_store.py, _expire_stale_detector_ocr_active_intel).
THEOREM WatchedWindowsStay == ClientsSpec => LiveWindowsStay
<1>1. BeatInv /\ [BeatNext]_beats =>
        [\A w \in Windows : frames[w].active /\ ~frames'[w].active
            => calm[w] < 2 \/ frames[w].age >= CaptureLease]_beats
  BY LiveWindowsKept, Zenon
<1> QED
  BY <1>1, BeatInvariant, ClientsRunBeats, PTL DEF BeatSpec, LiveWindowsStay

\* All the server believes of its clients keeps its types.
THEOREM ClientsTypesCorrect == ClientsSpec => []ClientsTypeOK
BY ClientsRunWindows, MonitoringIsTyped, BeatTypesCorrect, OnlineTypesCorrect, AccessTypeCorrect,
   PTL DEF ClientsTypeOK
=============================================================================
