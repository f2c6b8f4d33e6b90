----------------------------- MODULE EventStream ----------------------------
(***************************************************************************)
(* The event stream of the server (app/server/http_server.py,              *)
(* _stream_events) to a desktop client                                     *)
(* (client/app/alert_client.py, AlertEventWorker).                         *)
(*                                                                         *)
(* A connection sends bootstraps, each the hostile systems at a number of  *)
(* the journal, and the events after it.  The server builds bootstraps from*)
(* a cached snapshot that all connections share.  The client keeps a view  *)
(* of the hostile systems; it drops the view when its connection fails and *)
(* always begins again with a bootstrap.                                   *)
(*                                                                         *)
(* Left out: rosters, monitoring nodes, acknowledgements and the alerts    *)
(* derived from single reports, whose systems the bootstrap holds already. *)
(***************************************************************************)
EXTENDS EventJournal, Sequences

CONSTANTS
    PageSize,   \* events read from the journal at once
    MaxBreaks   \* bound on lost connections and on connections the server ends

ASSUME StreamAssumption == PageSize \in Nat \ {0} /\ MaxBreaks \in Nat

VARIABLES
    cache,      \* the shared snapshot: its watermark, and whether it is fresh
    connected,
    taken,      \* the watermark of the snapshot this pass works with
    position,   \* state_event_seq: what the connection has sent
    lastSent,   \* the content of the last bootstrap sent
    wire,       \* frames under way
    view,       \* the client: hostile systems on display
    handled,    \* the number of the last frame handled, or NoPosition
    seen,       \* alerts the client has accepted, also by earlier connections
    breaks      \* bound: connections lost so far

server == <<cache, connected, taken, position, lastSent>>
client == <<view, handled, seen>>
stream == <<server, wire, client, breaks>>

-----------------------------------------------------------------------------
NoPosition == -1
NotReady == -2

BootFrame(n) == [kind |-> "bootstrap", seq |-> n, system |-> "none"]
CursorFrame(n) == [kind |-> "cursor", seq |-> n, system |-> "none"]

\* _bootstrap_event_fingerprint: each hostile system with the version of its
\* state.
Content(n) ==
    {Newest({e \in committed : e.system = s /\ e.seq <= n}).seq : s \in HostileAt(n)}
NothingSent == {0}

\* ActiveEventSnapshot.is_fresh.
Usable(least) == cache.fresh /\ cache.seq >= least

\* Mutant of Snapshot: a new one is labelled with the number asked for.
SnapshotAsAsked(least) ==
    IF Usable(least) THEN cache ELSE [seq |-> least, fresh |-> TRUE]

\* _cached_active_event_snapshot: the cached one, or one read under its lock.
Snapshot(least) ==
    IF Usable(least) THEN cache ELSE [seq |-> Watermark, fresh |-> TRUE]

\* list_intel_event_page: in the order of their numbers.
InOrder(events) ==
    CHOOSE page \in [1..Cardinality(events) -> events] :
        \A i, j \in DOMAIN page : i < j => page[i].seq < page[j].seq

Page(events) ==
    {e \in events : Cardinality({f \in events : f.seq < e.seq}) < PageSize}

\* The pages up to the snapshot's watermark, in a loop.
UpTo(n) == {e \in After(position) : e.seq <= n}

\* The frames of a pass that reaches n: its events, then the bootstrap, or
\* only the new cursor if the client has that content.
FramesUpTo(n, events) ==
    InOrder(events) \o <<IF Content(n) # lastSent THEN BootFrame(n) ELSE CursorFrame(n)>>

-----------------------------------------------------------------------------
StreamInit ==
    /\ cache = [seq |-> 0, fresh |-> FALSE]
    /\ connected = FALSE
    /\ taken = NotReady
    /\ position = NoPosition
    /\ lastSent = NothingSent
    /\ wire = <<>>
    /\ view = {}
    /\ handled = NoPosition
    /\ seen = {}
    /\ breaks = 0

\* AlertEventWorker.run: a new connection, without a cursor.
Connect ==
    /\ ~connected
    /\ wire = <<>>
    /\ connected' = TRUE
    /\ position' = NoPosition
    /\ lastSent' = NothingSent
    /\ taken' = NotReady
    /\ UNCHANGED <<cache, wire, client, breaks>>

\* A second goes by, or a commit is announced.
CacheExpires ==
    /\ cache.fresh
    /\ cache' = [cache EXCEPT !.fresh = FALSE]
    /\ UNCHANGED <<connected, taken, position, lastSent, wire, client, breaks>>

\* A pass of the stream begins with the snapshot.
ReadSnapshot ==
    /\ connected
    /\ taken = NotReady
    /\ cache' = Snapshot(0)
    /\ taken' = cache'.seq
    /\ UNCHANGED <<connected, position, lastSent, wire, client, breaks>>

\* The first pass sends a bootstrap and begins the stream at its watermark.
SendBaseline ==
    /\ connected
    /\ taken # NotReady
    /\ position = NoPosition
    /\ position' = taken
    /\ wire' = Append(wire, BootFrame(taken))
    /\ lastSent' = Content(taken)
    /\ taken' = NotReady
    /\ UNCHANGED <<cache, connected, client, breaks>>

SendFrames(n, events) ==
    /\ position' = n
    /\ wire' = wire \o FramesUpTo(n, events)
    /\ lastSent' = Content(n)

\* Later passes send the events up to a snapshot that has them all, then that
\* snapshot.
SendEvents ==
    /\ connected
    /\ taken # NotReady
    /\ position # NoPosition
    /\ After(position) # {}
    /\ cache' = Snapshot(Highest(Page(After(position))))
    /\ SendFrames(cache'.seq, UpTo(cache'.seq))
    /\ taken' = NotReady
    /\ UNCHANGED <<connected, client, breaks>>

\* No event: events pruned before they were read are in the snapshot.
SendNoEvents ==
    /\ connected
    /\ taken # NotReady
    /\ position # NoPosition
    /\ After(position) = {}
    /\ taken >= position
    /\ IF taken > position THEN SendFrames(taken, {}) ELSE UNCHANGED <<position, wire, lastSent>>
    /\ taken' = NotReady
    /\ UNCHANGED <<cache, connected, client, breaks>>

\* The server ends the connection: its snapshot is behind, it cannot get one in
\* time, or the connection's time is over.  The client reads to the end.
EndStream ==
    /\ connected
    /\ breaks < MaxBreaks
    /\ breaks' = breaks + 1
    /\ connected' = FALSE
    /\ UNCHANGED <<cache, taken, position, lastSent, wire, client>>

\* _discard_realtime_state: unavailable is not safe.
ForgetView == view' = {} /\ handled' = NoPosition

\* The connection is lost with what is on the wire.
LoseConnection ==
    /\ connected \/ wire # <<>>
    /\ breaks < MaxBreaks
    /\ breaks' = breaks + 1
    /\ connected' = FALSE
    /\ wire' = <<>>
    /\ ForgetView
    /\ UNCHANGED <<cache, taken, position, lastSent, seen>>

\* AlertEventWorker.run with _on_bootstrap, _on_safe and _on_alert: the client
\* handles a frame.  An alert it has accepted before is not handled again.
HandleFrame ==
    /\ wire # <<>>
    /\ LET f == Head(wire) IN
        /\ view' = CASE f.kind = "bootstrap" -> HostileAt(f.seq)
                     [] f.kind = "clear" -> view \ {f.system}
                     [] f.kind = "hostile" /\ f.seq \notin seen -> view \cup {f.system}
                     [] f.kind = "unknown" /\ f.seq \notin seen -> view \ {f.system}
                     [] OTHER -> view
        /\ seen' = IF f.kind \in {"hostile", "unknown"} THEN seen \cup {f.seq} ELSE seen
        /\ handled' = f.seq
    /\ wire' = Tail(wire)
    /\ UNCHANGED <<server, breaks>>

Pass == ReadSnapshot \/ SendBaseline \/ SendEvents \/ SendNoEvents

StreamNext ==
    \/ Connect \/ LoseConnection \/ EndStream
    \/ CacheExpires
    \/ Pass
    \/ HandleFrame

-----------------------------------------------------------------------------
StreamTypeOK ==
    /\ cache \in [seq : 0..MaxSeq, fresh : BOOLEAN]
    /\ connected \in BOOLEAN
    /\ taken \in {NotReady} \cup 0..MaxSeq
    /\ position \in {NoPosition} \cup 0..MaxSeq
    /\ lastSent \subseteq 0..MaxSeq
    /\ \A i \in DOMAIN wire : wire[i].seq \in 0..MaxSeq
    /\ view \subseteq Systems
    /\ handled \in {NoPosition} \cup 0..MaxSeq
    /\ seen \subseteq 1..MaxSeq
    /\ breaks \in 0..MaxBreaks

\* Whatever is on display is the truth of one moment of the journal, that of
\* the last frame handled: no event is skipped between frames, or counted twice,
\* and no bootstrap is older than the events before it (http_server.py 4876).
ViewIsConsistent == handled # NoPosition => view = HostileAt(handled)

\* The display never goes back in time, over reconnections either, except that
\* it is dropped (alert_client.py 2443).
DisplayNeverGoesBack == [][handled' >= handled \/ handled' = NoPosition]_stream

\* Both: what a display shows was so at one moment, and never earlier than what
\* it has shown before (http_server.py 4876).
DisplayIsTrue == []ViewIsConsistent /\ DisplayNeverGoesBack

\* The display shows the hostile systems.
DisplayCaughtUp == handled # NoPosition /\ view = HostileAt(Watermark)
=============================================================================
