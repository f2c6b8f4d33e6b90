----------------------------- MODULE AccessControl -----------------------------
(***************************************************************************)
(* Who may use the server: the users of the web console with their browser *)
(* sessions (app/server/auth.py, auth_store.py, auth_http.py), the client  *)
(* keys that SeAT issues and revokes (http_server.py), and an event stream *)
(* that goes on while the session or key it was opened with is good.       *)
(*                                                                         *)
(* A request is authorised, checks what it is about, changes it in a       *)
(* transaction and tells the streams, each by itself: other requests come  *)
(* in between.  Passwords are right.  The old local keys open no stream.   *)
(***************************************************************************)
EXTENDS Integers, FiniteSets

CONSTANTS
    Users,          \* administrators
    FirstUser,      \* the one ensure_bootstrap_admin creates
    Sessions,       \* tokens
    SeatRequests,   \* what SeAT asks to be created: [operation, key, text]
    Callers,        \* request threads
    MaxRequests,    \* bound on the requests
    MaxAccessFaults \* bound on failed transactions, restarts and ends by time

ASSUME AccessAssumption ==
    /\ FirstUser \in Users
    /\ \A r \in SeatRequests : DOMAIN r = {"operation", "key", "text"}
    /\ {MaxRequests, MaxAccessFaults} \subseteq Nat

VARIABLES
    users,      \* auth_users: status
    sessions,   \* auth_sessions: by token [user, state]
    seats,      \* seat_integration_keys: status
    operations, \* seat_integration_idempotency: the request behind an operation
    notices, \* _authorization_generation
    call,       \* by request thread: what it does, how far it is
    watch,      \* the stream
    spent       \* requests and faults so far; untold: a change nobody was told of

access == <<users, sessions, seats, operations, notices, call, watch, spent>>

-----------------------------------------------------------------------------
SeatKeys == {r.key : r \in SeatRequests}
Operations == {r.operation : r \in SeatRequests}

NoSession == [user |-> FirstUser, state |-> "none"]
NoOne == [kind |-> "none", of |-> "none"]
NoCall == [kind |-> "none", of |-> "none", by |-> "none", at |-> "free"]

BySession(s) == [kind |-> "session", of |-> s]
BySeatKey(k) == [kind |-> "key", of |-> k]

\* authenticate_session, is_principal_active: the row and its user are good.
SessionGood(s) == sessions[s].state = "open" /\ users[sessions[s].user] = "active"

Good(who) ==
    \/ who.kind = "session" /\ SessionGood(who.of)
    \/ who.kind = "key" /\ seats[who.of] = "active"

AccessFault == spent.faults < MaxAccessFaults /\ spent' = [spent EXCEPT !.faults = @ + 1]

Step(c, at) == call' = [call EXCEPT ![c].at = at]

Answer(c) == call' = [call EXCEPT ![c] = NoCall]

Tables == <<users, sessions, seats, operations>>

\* The rows of auth_users.  An id is given once: who is deleted does not come back.
KnownUsers == {u \in Users : users[u] \in {"active", "disabled"}}

\* DELETE FROM auth_sessions of a user; one that has ended by time stays so.
WithoutSessionsOf(u) ==
    [s \in Sessions |->
        IF sessions[s].user = u /\ sessions[s].state = "open"
        THEN [sessions[s] EXCEPT !.state = "gone"] ELSE sessions[s]]

-----------------------------------------------------------------------------
AccessInit ==
    /\ users = [u \in Users |-> IF u = FirstUser THEN "active" ELSE "none"]
    /\ sessions = [s \in Sessions |-> NoSession]
    /\ seats = [k \in SeatKeys |-> "absent"]
    /\ operations = [o \in Operations |-> NoOne]
    /\ notices = 0
    /\ call = [c \in Callers |-> NoCall]
    /\ watch = [who |-> NoOne, at |-> "off", read |-> 0, seen |-> 0, due |-> FALSE]
    /\ spent = [requests |-> 0, faults |-> 0, untold |-> FALSE]

-----------------------------------------------------------------------------
(* Requests *)

\* A request comes in and takes a thread.
Begins(c, kind, of, by) ==
    /\ call[c] = NoCall
    /\ spent.requests < MaxRequests
    /\ spent' = [spent EXCEPT !.requests = @ + 1]
    /\ call' = [call EXCEPT ![c] = [kind |-> kind, of |-> of, by |-> by, at |-> "authorised"]]
    /\ UNCHANGED <<Tables, notices, watch>>

\* login and the token of _create_browser_session need no principal, SeAT has its
\* own; for the rest _authorize_request finds a good session.
Authorised(c) ==
    \/ \E u \in Users : Begins(c, "login", u, "none")
    \/ \E r \in SeatRequests : Begins(c, "create_key", r, "none")
    \/ \E k \in SeatKeys : Begins(c, "revoke_key", k, "none")
    \/ \E s \in Sessions :
        /\ SessionGood(s)
        /\ \/ Begins(c, "logout", s, s)
           \/ \E u \in Users, kind \in {"create", "enable", "disable", "reset", "delete"} :
                Begins(c, kind, u, s)

\* authenticate_session drops the session of a user who is not active (any more).
DropSession(s) ==
    /\ sessions[s].state = "open" /\ ~SessionGood(s)
    /\ sessions' = [sessions EXCEPT ![s].state = "gone"]
    /\ UNCHANGED <<users, seats, operations, notices, call, watch, spent>>

\* What the handler reads before it changes anything.
Allowed(c) ==
    LET of == call[c].of
    IN  CASE call[c].kind \in {"enable", "disable", "reset"} -> of \in KnownUsers
          [] call[c].kind = "delete" ->
                /\ of \in KnownUsers
                /\ of # sessions[call[c].by].user
                /\ Cardinality(KnownUsers) > 1
          [] call[c].kind = "login" -> users[of] = "active"
          [] call[c].kind = "create_key" -> operations[of.operation] = NoOne
          [] OTHER -> TRUE

Check(c) ==
    /\ call[c].at = "authorised"
    /\ IF Allowed(c) THEN Step(c, "checked") ELSE Answer(c)
    /\ UNCHANGED <<Tables, notices, watch, spent>>

\* create_user; the name is taken once.  A login's token is a new one.
Enter(c) ==
    LET of == call[c].of
    IN  /\ call[c].at = "checked"
        /\ \/ /\ call[c].kind = "create"
              /\ users' = [users EXCEPT ![of] = IF @ = "none" THEN "active" ELSE @]
              /\ UNCHANGED sessions
           \/ /\ call[c].kind = "login"
              /\ \E s \in {x \in Sessions : sessions[x].state = "none"} :
                    sessions' = [sessions EXCEPT ![s] = [user |-> of, state |-> "open"]]
              /\ UNCHANGED users
        /\ Answer(c)
        /\ UNCHANGED <<seats, operations, notices, watch, spent>>

\* logout: delete_session
EndsSession(s) ==
    /\ sessions' = [sessions EXCEPT ![s].state = IF @ = "open" THEN "gone" ELSE @]
    /\ UNCHANGED users

\* set_user_status: update_user, or disable_user_and_keys.
SetsStatus(u, status) ==
    /\ users' = [users EXCEPT ![u] = IF u \in KnownUsers THEN status ELSE @]
    /\ sessions' = IF status = "disabled" THEN WithoutSessionsOf(u) ELSE sessions

\* reset_password
ResetsPassword(u) ==
    /\ sessions' = WithoutSessionsOf(u)
    /\ UNCHANGED users

\* delete_user_and_dependencies
DeletesUser(u) ==
    /\ users' = [users EXCEPT ![u] = IF u \in KnownUsers THEN "deleted" ELSE @]
    /\ sessions' = WithoutSessionsOf(u)

ChangeAccount(c) ==
    LET of == call[c].of
    IN  /\ call[c].at = "checked"
        /\ \/ call[c].kind = "logout" /\ EndsSession(of)
           \/ call[c].kind = "enable" /\ SetsStatus(of, "active")
           \/ call[c].kind = "disable" /\ SetsStatus(of, "disabled")
           \/ call[c].kind = "reset" /\ ResetsPassword(of)
           \/ call[c].kind = "delete" /\ DeletesUser(of)
        /\ Step(c, "changed")
        /\ UNCHANGED <<seats, operations, notices, watch, spent>>

\* Mutant of Projected: a key that is there is written over.
ProjectedOver(r) ==
    /\ seats' = [seats EXCEPT ![r.key] = "active"]
    /\ operations' = [operations EXCEPT ![r.operation] = r]

\* Mutant of Projected: the operation is noted by itself.
ProjectedInTwo(r) ==
    /\ seats' = [seats EXCEPT ![r.key] = IF @ = "absent" THEN "active" ELSE @]
    /\ operations' = [operations EXCEPT ![r.operation] = IF @ = NoOne THEN r ELSE @]

\* create_seat_integration_key: the key and its operation in one transaction; if
\* another request has put in one of them, this transaction fails, and the answer
\* comes from the other's row or is an error.
Projected(r) ==
    IF seats[r.key] = "absent" /\ operations[r.operation] = NoOne
    THEN /\ seats' = [seats EXCEPT ![r.key] = "active"]
         /\ operations' = [operations EXCEPT ![r.operation] = r]
    ELSE UNCHANGED <<seats, operations>>

ProjectKey(c) ==
    /\ call[c].at = "checked" /\ call[c].kind = "create_key"
    /\ Projected(call[c].of)
    /\ Answer(c)
    /\ UNCHANGED <<users, sessions, notices, watch, spent>>

\* revoke_seat_integration_key: once; a repetition changes nothing.
Revoked(k) == [seats EXCEPT ![k] = IF @ = "active" THEN "revoked" ELSE @]

\* Only a change is told.
RevokeKey(c) ==
    LET k == call[c].of
    IN  /\ call[c].at = "checked" /\ call[c].kind = "revoke_key"
        /\ seats' = Revoked(k)
        /\ IF seats[k] = "active" THEN Step(c, "changed") ELSE Answer(c)
        /\ UNCHANGED <<users, sessions, operations, notices, watch, spent>>

\* _notify_authorization_changed
Notify(c) ==
    /\ call[c].at = "changed"
    /\ notices' = notices + 1
    /\ Answer(c)
    /\ UNCHANGED <<Tables, watch, spent>>

\* A transaction fails and is rolled back.  After some changes the request goes to
\* the database again, for the audit or for the answer: if that fails, the change
\* stands and nobody is told.
CallFails(c) ==
    /\ \/ call[c].at = "checked"
       \/ call[c].at = "changed" /\ call[c].kind \in {"logout", "enable", "disable", "reset"}
    /\ spent.faults < MaxAccessFaults
    /\ spent' = [spent EXCEPT !.faults = @ + 1, !.untold = @ \/ call[c].at = "changed"]
    /\ Answer(c)
    /\ UNCHANGED <<Tables, notices, watch>>

-----------------------------------------------------------------------------
(* The stream *)

OpenStream ==
    /\ watch.at = "off"
    /\ \E who \in {BySession(s) : s \in Sessions} \cup {BySeatKey(k) : k \in SeatKeys} :
        /\ Good(who)
        /\ watch' = [who |-> who, at |-> "idle", read |-> 0, seen |-> 0, due |-> TRUE]
    /\ UNCHANGED <<Tables, notices, call, spent>>

\* A pass starts: the generation is read first.
StartPass ==
    /\ watch.at = "idle"
    /\ watch' = [watch EXCEPT !.at = "read", !.read = notices]
    /\ UNCHANGED <<Tables, notices, call, spent>>

\* Nothing has changed and the last check is not too long ago, or the principal is
\* looked up again.
CheckPrincipal ==
    /\ watch.at = "read"
    /\ watch' = IF watch.read = watch.seen /\ ~watch.due
                THEN [watch EXCEPT !.at = "sending"]
                ELSE IF Good(watch.who) THEN [watch EXCEPT !.at = "cleared"]
                ELSE [watch EXCEPT !.who = NoOne, !.at = "off", !.read = 0, !.seen = 0,
                                   !.due = FALSE]
    /\ UNCHANGED <<Tables, notices, call, spent>>

\* Mutant of GenerationSeen: the generation is read again after the check.
GenerationSeenAnew == notices

GenerationSeen == watch.read

RememberCheck ==
    /\ watch.at = "cleared"
    /\ watch' = [watch EXCEPT !.at = "sending", !.seen = GenerationSeen, !.due = FALSE]
    /\ UNCHANGED <<Tables, notices, call, spent>>

\* The events are written; the stream waits for the next ones.
EndPass ==
    /\ watch.at = "sending"
    /\ watch' = [watch EXCEPT !.at = "idle", !.read = 0]
    /\ UNCHANGED <<Tables, notices, call, spent>>

\* SSE_AUTH_RECHECK_SECONDS have passed.
CheckComesDue ==
    /\ watch.at # "off" /\ ~watch.due
    /\ ~Good(watch.who)         \* a check of a good principal changes nothing
    /\ watch' = [watch EXCEPT !.due = TRUE]
    /\ UNCHANGED <<Tables, notices, call, spent>>

-----------------------------------------------------------------------------
(* Time and faults *)

SessionEnds(s) ==
    /\ sessions[s].state = "open"
    /\ AccessFault
    /\ sessions' = [sessions EXCEPT ![s].state = "ended"]
    /\ UNCHANGED <<users, seats, operations, notices, call, watch>>

\* The server starts again: requests and streams are gone, and the first
\* administrator is created, with an id of his own, while there is no user.
ServerRestarts ==
    /\ AccessFault
    /\ IF KnownUsers = {}
       THEN /\ users' = [users EXCEPT ![FirstUser] = "active"]
            /\ sessions' = WithoutSessionsOf(FirstUser)
       ELSE UNCHANGED <<users, sessions>>
    /\ notices' = 0
    /\ call' = [c \in Callers |-> NoCall]
    /\ watch' = [who |-> NoOne, at |-> "off", read |-> 0, seen |-> 0, due |-> FALSE]
    /\ UNCHANGED <<seats, operations>>

-----------------------------------------------------------------------------
PassSteps == StartPass \/ CheckPrincipal \/ RememberCheck \/ EndPass

AccessNext ==
    \/ \E c \in Callers :
        \/ Authorised(c) \/ Check(c) \/ Enter(c) \/ ChangeAccount(c) \/ ProjectKey(c)
        \/ RevokeKey(c) \/ Notify(c) \/ CallFails(c)
    \/ \E s \in Sessions : DropSession(s) \/ SessionEnds(s)
    \/ OpenStream \/ PassSteps \/ CheckComesDue \/ ServerRestarts

-----------------------------------------------------------------------------
AccessTypeOK ==
    /\ users \in [Users -> {"none", "active", "disabled", "deleted"}]
    /\ sessions \in [Sessions -> [user : Users, state : {"none", "open", "gone", "ended"}]]
    /\ seats \in [SeatKeys -> {"absent", "active", "revoked"}]
    /\ operations \in [Operations -> SeatRequests \cup {NoOne}]
    /\ notices \in Nat
    /\ \A c \in Callers : call[c].at \in {"free", "authorised", "checked", "changed"}
    /\ watch.at \in {"off", "idle", "read", "cleared", "sending"}
    /\ {watch.read, watch.seen} \subseteq Nat /\ watch.due \in BOOLEAN
    /\ \A k \in SeatKeys :          \* a key is there together with its operation
        Cardinality({o \in Operations : operations[o] # NoOne /\ operations[o].key = k}) =
            IF seats[k] = "absent" THEN 0 ELSE 1

\* Revoked, logged out, disabled or deleted - and not just ended by time.
TakenAway(who) ==
    ~Good(who) /\ ~(who.kind = "session" /\ sessions[who.of].state = "ended")

\* What a stream believes since its last check is out of date only if that will
\* show at its next pass: the generation has gone on since the stream read it, or
\* the request that took its principal away has yet to tell.  So a pass that
\* starts after the notice sends nothing (http_server.py 4737, auth.py 123).  It
\* holds until a request fails between its change and its notice.
NoticeReachesStream ==
    ~spent.untold =>
    /\ watch.at = "cleared" /\ TakenAway(watch.who) =>
        notices > watch.read \/ \E c \in Callers : call[c].at = "changed"
    /\ watch.at \in {"idle", "sending"} /\ ~watch.due /\ TakenAway(watch.who) =>
        notices > watch.seen \/ \E c \in Callers : call[c].at = "changed"

\* SeAT repeats what it got no answer to: that neither makes a second key for an
\* operation, nor gives an operation another key, nor lets a revoked key in again
\* (auth_store.py 685, 799).
RepetitionChangesNothing ==
    [][ /\ \A k \in SeatKeys : seats[k] = "revoked" => seats'[k] = "revoked"
        /\ \A o \in Operations : operations[o] # NoOne => operations'[o] = operations[o]
      ]_access

\* A stream whose principal is no longer good ends.
StreamsEntitled == watch.at = "off" \/ Good(watch.who)
=============================================================================
