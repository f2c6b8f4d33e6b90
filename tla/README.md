# EVE Sentry in TLA+

EVE Sentry watches star systems of an online game. Windows clients look at
monitored game windows, count hostile ships at once and read names by OCR
later; a Python server merges their uploads into one current state per system,
stores it in PostgreSQL and streams it to a web page, to the desktop clients
and to a QQ bot. This directory models how those results are chosen, uploaded,
ordered, stored, repaired, enriched and delivered, checks the models with TLC,
and proves with TLAPS, for every size, the safety of the write queue, the
persistence, the monitoring windows, the identity tasks, the gateway's cache, the
access control, the billing and the client's update.

## 1. Inventory

| Component | State it keeps | Operations | Correct when |
|---|---|---|---|
| Write queue (`postgres_store.py` 80-166) | next and serving ticket | reserve under the store lock, wait, finish in `finally` | one writer at a time, in mutation order; no ticket lost |
| State persistence (`postgres_store.py`, `state_repair.py`, `state_maintenance.py`, `system_state.py`) | memory, `active_intel` rows, `system_current_state`, marks of failed writes | mutate and write, enrich and write, repair, expire, restart | rows and committed state come to agree with memory; consumers see no older state |
| Presence and source authority (`intel_store.py` 1581-2115, `capture_state.py`, `source_authority.py`) | a presence row per window and system: join order, capture fence, roster evidence | presence and OCR uploads, takeover, expiry | one primary per system, replaced only for cause; stale uploads fenced |
| Event journal (`postgres_store.py` 1515-1721) | `intel_events`, the sequence | append under an advisory lock, page, snapshot, prune | a reader at sequence n has seen every event up to n |
| Event stream (`http_server.py` 4661-5250, `event_cache.py`, `alert_client.py`) | shared snapshot, each connection's cursor, the client's display | passes, frames, reconnection | the display is the truth of one moment and does not go back |
| QQ bot (`qq_bot_runtime.py`, `bot/src/eve_risk/alerts.py`) | saved cursor, announced systems, delivery keys | bootstrap, replay, deliver, save | the bot holds announced what is hostile, in spite of retries and crashes |
| Client uploads (`client/app/ui/reliable_uploads.py`) | one slot per window and kind, backoff, a file | submit, send, retry, drop, replace, restart | the latest of every window is delivered or too old |
| Client OCR (`client/app/engine/ocr_scheduler.py`, `worker.py`) | one OCR slot, retries and the query of each window | request, run, publish, stop | no window waits for a request that is gone; changed rosters are read |
| Client updater (`client/app/updater.py`) | the release, downloads and their parts, a remembered package, the script, the program files and their backup | check, download, verify, close and install, try, roll back | the installed program is whole and becomes the published one |
| OCR queries (`http_server.py` 93-416, `main_window.py` 3700-3834) | the server's job, the client's commands in flight and completed | create, claim, dispatch, upload, time out | one result per window, lost only for cause |
| Identity enrichment (`esi_worker.py`, `intel_store.py` 780-1006) | pending keys, a worker thread, the rows | submit, read, write, close | every key is handled; nothing late is written |
| Personnel archive and runtime (`app/esi/personnel_*.py`) | leased jobs, profiles with a revision, a hot copy, the current runtime | schedule, claim, commit, remember, switch | a lost lease cannot commit; memory is what was committed |
| Channel lines and reports (`client/app/channels/log_watcher.py`, `channel_client_gui.py`, `postgres_store.py` 261-348) | each program's offset, reports and their positions, the channel's row | follow a log, post, deduplicate, apply to the row, read a page | every line is stored once and told once |
| Online time (`alert_client.py` heartbeats, `alert_scope.py`, `seat_billing.py`) | the last heartbeat in memory and stored, billed intervals | send, record, bill | no time billed twice or for a system that was not selected |
| Accounts, keys and streams (`auth.py`, `auth_store.py`, `auth_http.py`, `http_server.py` 4661-4760) | users, browser sessions, SeAT's keys and operations, a generation, a stream's principal | log in and out, create, disable, delete, issue and revoke keys, recheck | what is taken away ends its stream; a repeated operation changes nothing |
| Detector heartbeats (`intel_store.py` 2915-3130, `main_window.py`) | the client's heartbeat in memory and stored: targets, missing targets, stop | send, record, store, expire rows | windows that are watched keep their rows, the others lose them |
| Requests of QQ groups (`bot/src/eve_risk/bot.py`, `admission.py`, `worker.py`, `sentry_status.py`, `sentry_watch.py`) | locks, counters and jobs in Redis, queries, watches | admit, queue, report, release; take a turn, ask, answer; scan, tell, rearm | each group is served in turn, is answered, and its lock is given back |
| Monitoring scope (`monitoring_scope.py`) | administrator's list of systems | filter uploads, retire rows outside | nothing outside the scope stays current |
| ESI gateway (`esi-gateway/esi_gateway/id_cache.py`) | records in Redis and PostgreSQL, a lock, each gateway's tasks | read, load, refresh under the lock, serve stale | one refresh at a time; an outage of ESI is bridged within the grace |
| Maps, web page, deployment | configuration and views | mostly sequential I/O | outside this model |

They interact by method calls under one store lock (uploads, enrichment and
maintenance threads), by the ticket queue (order of transactions), by the
database (rows, events, projection, leases) and by HTTP (uploads in, Bootstrap
and SSE out, commands in the answers to heartbeats). The hard behaviours are the
threads between the lock and their transaction, transactions that fail or whose
acknowledgement is lost, process restarts, uploads that arrive late or twice,
two clocks, leases, and queues whose consumer ends. `PROJECT.json` lists each
hazard at its line.

## 2. Modules

```
FifoWrites <------ WriteQueue <------ StatePersistence ------> CurrentState
   (promise)          (proved in           (detailed)            (promise)
                   WriteQueue_proofs)
SourceAuthority <- Monitoring, Heartbeats,
                   OnlineTime, AccessControl <- ServerClients
EventJournal <---- BotBridge, EventStream,
                   ChannelReports, AnalysisJobs,
                   GroupQueries, Watches <----- EventDelivery
Queues <---------- UploadQueue, OcrQuery,
                   Updater <------------------- ClientWorkers
WriteQueue, PersonnelRefresh, IdentityTasks,
IdCache <-------------------------------------- ServerWorkers
```

An arrow from a detailed module points to what it refines or uses.

| Module | Models |
|---|---|
| `FifoWrites` | the promised order of writes: a queue whose head may be writing |
| `WriteQueue` | `_reserve_db_write`, `_wait_for_db_write`, `_finish_db_write` |
| `CurrentState` | what a consumer may be shown: states memory was in, never backwards |
| `StatePersistence` | every write of the monitoring state from the store lock to the commit, its failure, the repair, the maintenance loop, the restart |
| `SourceAuthority` | join orders, retired identities, the primary of a set of rows, and the requeue of a takeover |
| `Monitoring` | the presence and OCR handlers with their fences and roster evidence, the expiry and the restart grace |
| `EventJournal` | the state events with their sequence numbers, the advisory lock, retention, and what readers get |
| `BotBridge` | the QQ bot's bridge inside the server and its messages to groups |
| `EventStream` | a stream of the server to a desktop client, and the client's display |
| `ChannelReports` | a channel's lines from the log files of several programs to a reader of the reports |
| `AnalysisJobs` | the reports a QQ group asks for: admission, jobs, workers and release |
| `GroupQueries` | a group's query of what the nodes see: its lock, its task and its answer |
| `Watches` | the watch a group sets on a target: scans, messages and rearming |
| `EventDelivery` | the journal with one of its two consumers, the reports with theirs, or a group's requests |
| `Queues` | what is left of a queue when some of its members go |
| `UploadQueue` | the client's upload slots, its thread, its file, replacement and restart |
| `OcrQuery` | the OCR slot shared by the windows, and a query of the bot from its creation to its result |
| `Updater` | the client's update, its downloads and the script that installs them |
| `ClientWorkers` | these parts of the client, one at a time |
| `PersonnelRefresh` | the affiliation of one character: its leased job, the archive and the hot copy |
| `IdentityTasks` | the tasks that enrich OCR rows, and the switch of the archive |
| `OnlineTime` | an alert client's heartbeats and the time billed for them |
| `IdCache` | one key of the gateways' identity cache, in both stores |
| `ServerWorkers` | the server's background work, one worker at a time |
| `Heartbeats` | a detector client's heartbeats, and the rows that go by them |
| `AccessControl` | users, sessions, SeAT's keys, and the stream that is open for one of them |
| `ServerClients` | what the server believes of its clients: windows, heartbeats, billing or access, one at a time |
| `*_proofs` | the theorems about `WriteQueue`, `StatePersistence`, `Monitoring`, `ServerWorkers` with the three workers that share no queue, `ServerClients` with its four parts, `EventDelivery` with its parts, and `ClientWorkers` with its three |
| `MC*` | model values for TLC |

`EventDelivery`, `ClientWorkers`, `ServerWorkers` and `ServerClients` put machines side by side
that share no state (or, in `EventDelivery`, only a journal neither writes): one
of them is chosen in the initial state and runs alone, so a run has the sum of
their states and not the product.

### WriteQueue

A thread's call is `Reserve` (inside the store lock), `Begin` (the wait on the
condition variable returns), `Finish` (the `finally`). `ticket` is the call's
local variable. The transaction is the state between `Begin` and `Finish`; it
may commit or raise, which the queue does not see. The recursion of a thread
into a second write is not possible in the code and not modelled.

### StatePersistence

What a system's primary shows is a *view*: absent, lost, zero, or `n` hostiles
whose crew is published or not. `n` stands for everything the event fingerprint
distinguishes. `Mutate` is the store-lock part of `record_hostile_presence` and
`record_ocr_snapshot` (and the expiry that request handlers run): memory moves,
the changed rows and events are computed from the difference, the ticket is
taken. `Enrich` is `_process_ocr_esi_task`, whose events are computed from the
rows inside its transaction. `Commit` writes rows, events and projection.
`Fail` raises, with the transaction rolled back or committed without
acknowledgement; `Mark` and `Finish` are the `except` and the `finally`.
`ReadGeneration`, `CopyMemory`, the write and `Complete` are `StateRepair.run`;
`Expire` follows it in the loop of `StateMaintenance`. A repair that raises
skips the expiry of its round, as in the code. `Restart` loads the rows and
reconciles the projection. `truth` and `shown` are history variables for the
refinement of `CurrentState`.

`StorageMatchesMemory` compares the projection with memory for systems that have
a source; of a system whose source was lost (`Sourceless`) it only says that it is not
shown as hostile (`Agrees`). While a failed write waits for its repair (`~Sound`), an
enrichment may publish a state that memory was never in, a stored count with a new
crew: `CurrentState` has the step `Blend` for it, and `NeverGoesBack` allows it then only.

The retirement of a previous primary's wave, channel and manual observations,
and the wave table are left out. An event is taken to be inserted unless its
payload is already projected: a second event with an equal event key (which
carries its time) is not distinguished.

### Monitoring

A presence row holds its join order, the stamp of its last upload, the count,
whether it left, its capture and its roster evidence. A *capture* is a session
epoch, a frame number and a fingerprint; the fingerprint is the number of the
frame that first showed the picture, so two frames are equal exactly when
nothing changed between them. The stamp stands for `presence_version` and
`seen_at`, which one client increases together. The count is zero or one:
only its sign is read. `left` is a `left_reason`. Time passes in 15 second
ticks: the capture lease is 45 s, the roster grace 15 s; the 6 s OCR grace and
the heartbeat timeout are shorter than or independent of a tick, so `Expire` may
retire any set of rows for their reasons and must retire those of a lapsed
lease. `Expire` waits for the startup grace (`warm`). `Restart` reads the rows again. Inactive rows, of
windows that have left and confirmed zeros, are deleted at a start when they are older than the
retention (`prune_inactive_active_intel_older_than`, 30 days), and departed rows that have no capture are not read
unless they are a window's (`_read_active_intel`); how old a row is is not modelled, so any inactive rows may go.
What a row proves goes with it: `RetirementLasts` says that a bare identity once retired by a window
speaks for no system whatever is uploaded and whichever rows move, leave or expire, and that it takes a start
that forgets an inactive window to let an old binary that still runs, or a row of it that is still resident, count again.

`Presence` enumerates uploads a client makes next (`FreshUploads`: the same
frame again, the next frame, a new session) and uploads that arrive late or
again (`LateUploads`); `Ocr` takes results of the latest or an earlier frame of
the session. Both are whole handlers: fence, order check, retirement of rows in
other systems, row, evidence, takeover.

Left out: names and character rows, manual query uploads, the system called
unknown, rows without a join order from before the migration, the scope filter
(off by default). Rows are taken to be stored when a restart happens; what a failed write may
lose is the subject of `StatePersistence`.

### EventJournal

A transaction's events get their numbers at once (`AppendEvent`), under the
advisory lock (`HoldsLock`), and appear together (`Commit`) or leave a gap
(`Rollback`). `APPEND_EVENT` inserts nothing when the payload is already
projected. An event makes a system hostile, clear or unknown; `KindAt` is what
the events up to a number say, which is the projection at that number. `kept`
are the rows that retention has left: it goes by the clients' times, so any set
of rows may go, but never the newest.

### BotBridge

`pc` is where the loop of `EmbeddedBotBridge.run` is: waiting, replaying the
journal, sending the messages of an event or a bootstrap to the groups, or
saving the cursor. `TakeSnapshot` is the thread that builds a bootstrap beside
it. `EventWork` and `BootstrapWork` are what `process_alert_event`,
`process_safe_event` and `process_bootstrap` have to send and to save: the
announced episode of each system, and the messages whose delivery keys are not in
Redis. An episode is the event's number, or a fresh negative number for one
announced by a bootstrap. A delivery fails with or without the group's having
got the message; a rate limit and an expired event call for a new bootstrap. A
crash keeps what Redis has. Rosters, node messages and pages are left out.

### EventStream

A pass of `_stream_events` reads the shared snapshot (`ReadSnapshot`), then sends
its first bootstrap, or the events up to a snapshot that has them all, or only
that snapshot. `Content` is the fingerprint that decides between a bootstrap and
a cursor frame. The client handles one frame at a time and drops its display
when its connection fails. `seen` are the alerts it has accepted, which it does
not handle again.

### ChannelReports

A line is its number; those of `Clears` say that the channel is clear. A program
holds the offset it has saved and the batch it has read (`Poll`); `Post` sends
one line, and its offset moves when the answer is in. `GiveUpLine` is a request
that fails, `NewLogFile` the end of a log whose rest is not read any more
(`forsaken`). `KeepReport` is `add_observation` under the store lock: a line that
is there already is answered at once, another becomes a report, is applied to
the channel's row and takes a ticket; `AssignPosition` and `CommitReport` are its
transaction, between which it holds the advisory lock that `PositionsFree`
tests. `AddReport` writes a report by hand beside the tickets. A report whose
transaction has failed keeps its position (`troubled`), a late sighting takes the
row's time back (`late`): the properties name these cases. The end of a row by
its time, suppression, scores and the limit of reports that are kept in memory
are left out, and so is the acknowledgement of alerts, which nothing calls.

### UploadQueue

The presence dict keeps the order of its keys, the snapshot slots the order of
their expiry; a heartbeat may be a task (a change of state) that goes first. An
upload is a kind, a window and a number; `handled` is the newest the server has
dealt with, whether or not the client got the answer. `Fail` is no answer or a
server error, `Refuse` a final refusal, `FailAuthentication` a key that is
rejected, which stops the queue for good. `Reset` replaces the queue while its
old thread waits (`retired`); the old thread then writes the same file.
`spoilt` says that such a write has replaced the newer content, and is lifted
by the next write. The drop of uploads outside the monitoring scope, the jitter
and the intervals are left out: a back-off ends some time.

### OcrQuery

A window's worker scans its frames (`Scan`) when its roster is to be read
(`retries`) or a query is in it (`attempts`), and waits for the slot with one
request; newer requests cancel or replace older ones as the scheduler's
priorities say. Stopping a window leaves its request in line as an orphan and
disconnects its signals, so that the failure of its query is not heard
(`stranded`). The server hands the query's command out in the answers to
heartbeats (`ClaimCommands`) until the window's result is there; the client
remembers what is in flight and completed. A result goes through an upload slot
of its own. Capture and hostile counting are not part of it: a frame with a
changed roster is a choice, of which there are finitely many.

### Updater

A package is named by the version it was made for, and is missing, good or
damaged; a part may also be incomplete or complete. `updater.at` is what the Qt
object is busy with (`Working` is `_busy`), `due` are the timers that call
`download` and `_prepare_ready_update` next. The fields `release`, `program`,
`models`, `ready`, `checked` and `signed` are `_release`, `_program_ready_path`,
`_model_ready_path`, `_ready_path`, `_preflight_ready` and
`_preflight_signatures`. `keepsake` is `pending-update.json`. The script's `at` is the
statement it has reached; `install` is `Torn` while robocopy replaces files. A
loss of power ends client and script. Starting the client while the script
works, and closing it on trial or before it has settled, count as faults. The model
has one script at a time: a client that is started while the script still
stages could be closed and leave a second one, which the code does not prevent.
The signature of the manifest, disk space, messages and the result file are left
out. Two behaviours the properties except: a manifest that goes back to the
installed version leaves `_ready_path` without `_release`, and the client can then
neither install nor close (`Blocked`); and a client that is started while a script waits
or works may complete the download of a release without models, because they are the
same as those the script is about to replace or to take back: the package does not fit
what the script leaves (`untried`, updater.py 1069).

### PersonnelRefresh

One character, whose affiliation changes; the number of a change also stands
for the time it was fetched at. `job` is the row of its refresh: lane, due,
failing, lease and whether it was promoted meanwhile. A lane's batch claims,
asks, commits under its lease, reads the rows back and remembers them, which are
separate steps since other lanes and the look-up by id go on between them.
`hot` is the runtime's copy. Job rows of names and organizations, the merge of
several characters into one request and eviction from the hot copy are left out.

### IdentityTasks

A task is in the queue or in the hands of the worker's thread, which may time
out idle (`TimeOut`, then `TimedOut` under the lock), take the sentinel of
`close`, or run a handler in two phases: it reads (ESI or the archive) and then
checks under the store lock that the archive has not been switched, the frame
and the row are the same and the archive's memory is what it read. `skipped` are
the rows whose task ended without a result. `Callback` is the runtime's thread
calling `refresh_personnel`; `Switch` is `PersonnelController.publish`, with the
old runtime dropped. `personnel_task` takes the store lock to compare and again
to begin: merged into one step. The rows are those of one client.

### OnlineTime

The clock goes in ticks of 15 seconds: the interval cap and the time after which
another account may take a client's name over are 30 s. `RecordBeat` to
`RecordUsage` are the steps of `record_heartbeat`, which reads the last heartbeat
before and the new one after its change, each under a lock of its own. The
client gives up a request (`TimeOutBeat`) and sends another while the first may
still be worked on; `raced` says that this has happened. Every change of the
selection has a revision of its own, and `dropped` remembers what was deselected.
Rejection by scope, kinds of heartbeat and SeAT's side are left out.

### AccessControl

A request of a thread is authorised, looks at what it is about (`checked`),
changes it in one transaction and then tells the streams by counting
`_authorization_generation` up (`notices`): other requests come between these
steps, so an authorised request may act for a session that is gone. A
session is open, gone or ended by its time. `SeatRequests` are what SeAT may ask
to be created, an operation with a key and a text, repeated at will. A stream's pass
reads the generation (`watch.read`), looks its principal up if it has changed or
the last check is half a minute old (`due`), writes its events and waits.
`untold` says that a request has failed between its change and its notice.
Passwords and their change, rate limits, permissions and account bindings are
left out; local keys open no stream.

### Heartbeats

Time goes in intervals of ten seconds, so ages are small numbers. A heartbeat
carries no version: one its client gave up (`GiveUp`) may be handled after its
successors. `HandleBeat` and `UploadFrame` keep a heartbeat in memory and remember
the copy that `StoreBeat` writes later, whatever memory holds by then. `Cause` is why
the cleanup takes a window's row, `ExpireFrames` the cleanup of all rows that are
due. An interval in which the client or the server does not get its duties done counts as
a trouble (`SlowTick`); `calm` are the intervals without.

### IdCache

A record is the time at which its value was fetched; the payload goes with it. A
request (`reader`) reads Redis, then PostgreSQL for what is missing, loads the
rest from ESI and writes it to both; a stale value is told and makes a task, which
the gateway's thread (`refresher`) works off under the lock in Redis. Each read and
write of a store is a step and may fail. `trouble` remembers what the properties
except: a store failed, two loads overlapped whose writes may cross, or a lock ended
while its holder was slow. Batches of keys, the rate limiter and the single-flight cache
inside a gateway are left out.

### AnalysisJobs, GroupQueries, Watches

An order is a message with one or two names. Its handler admits the names one by
one with the script in Redis (`lock` of the group, `rated` members, a slot in
`active`, the batch's `count` and `markers`) and queues a job for each; a worker runs
a job, sends its report and releases it; the last release frees the group. A
crash or a failing call hits a message once (`hit`), after which times to live free
what it held.

A query takes its group's lock, has the server create it, is acknowledged, waits for
its answers, tells them and gives the lock back, reading it first and deleting it then
(`ReadLock`, `DeleteLock`); the lock may lapse at any time but while the query is created.

A watch is one row with the version of its id. `RunOnce` reads it when it is due, takes
a snapshot (or one of the last thirty seconds again), saves what it found and tells the
group; commands of the group may come between. `told` says whether the group knows.
The analysis itself, the parsing of the messages and the texts are left out.

## 3. Runs

| Run | Bounds | Shows |
|---|---|---|
| `server_workers` | writes: 3 threads, 6 tickets; refresh: 2 transfers, 2 faults; identities: 1 row, 1 update, 1 upload, 2 switches, 2 faults; gateway: 2 gateways, a life and a grace of 1, 2 ticks, 3 reads, 2 faults | one writer, all tickets served, implements `FifoWrites`; the archive and the hot copy never go back; no task stranded, late or forgotten; one refresh at a time, outages bridged; identities settle |
| `persist` | 1 system, an uploader, an enrichment, maintenance; counts to 2, 3 mutations, 2 failures, 1 crash | after failed writes or repairs, rows and committed state match memory again and for good; the queue is obeyed; consumers see no older state, across a crash either |
| `persist_fake_safety` | 1 system, counts to 1, no crash | **violated**: see findings |
| `persist_together` | 2 systems, 2 uploaders, 2 mutations, 1 failure | **violated**: see findings |
| `monitor_takeover` | 2 windows, 1 system, 2 uploads each, 2 samples | who is primary, when and by whom it is replaced |
| `monitor_moves` | a window (3 uploads, 2 sessions) and its machine's bare identity (1 upload), 2 symmetric systems, 1 restart; the bounds count anew for a window that was forgotten | one place at a time over late uploads and restarts; nothing but a start that forgets an inactive window lets its bare identity speak again |
| `server_clients` | lease: 1 window, clock, 3 uploads, 2 sessions, a lease of 3 ticks, 1 restart; heartbeats: 2 windows, 2 turns of the player, 1 loss; billing: 1 system, 2 accounts, 2 threads, 4 ticks, 3 heartbeats, 2 choices, 1 fault; access: 2 users, 2 sessions, 2 keys and operations, 2 threads, 3 requests, 1 fault | independent evidence; no time billed twice or without a selection; what is taken away reaches its stream; repetitions change nothing; windows that are watched stay, silent ones leave; streams end |
| `monitor_lagging_ocr` | 1 window, 3 frames | **violated**: see findings |
| `monitor_retired_parent` | 2 windows and a bare identity | **violated**: see findings |
| `event_delivery` | 1 system, 2 writers, 3 events; bot: 2 groups, 1 fault; stream: pages of 1, 1 break; reports: 2 programs, 2 lines of which the second clears, 2 threads, 1 report by hand, 1 mishap; requests: 2 orders of up to 2 names, 2 chats, 1 member, 1 slot, 1 worker, 1 hit; 3 queries in 1 room, 1 stop; a watch with 3 flights, 3 commands, 2 upsets | the journal only grows, behind a watermark that never falls; lines are stored once and told; groups are served in turn and answered; the bot's announcements and the display are those of the journal, never outdated, and catch up |
| `bot_comeback` | 1 system, 1 writer, 3 events, 2 groups, 1 fault | **violated**: see findings |
| `client_workers` | uploads: 2 windows, 3 submissions, 2 troubles; names: 2 windows, 1 changed roster, 1 query, 1 mishap; updates: 3 versions with 2 models, 2 changes of the manifest, 1 click, 2 faults | nothing submitted is forgotten; nobody waits for a request that is gone; one result per window; a query is lost for two reasons only; the installed program is whole; work gets done |

Why the bounds are enough. The ticket protocol compares neighbouring tickets,
so three threads that each go round twice meet every order; beyond them the
proof takes over. Persistence needs a write, a write that overtakes it and a
repair that overlaps both: three mutations and two failures reach all of it, and
two counts tell an older state from a newer one; a second uploader adds no order that
the queue does not show already, and the proofs hold for any number.
The code's limits (5 samples, 3 truncated, 3 missing frames) are scaled to 2 of
2; a takeover needs a primary, a standby and a window that comes back. A late
upload needs a newer one it is late for, in the same and in another session and
system. A delivery needs hostile, safe and hostile again, one group that has
the message and one that has not; pages of one event make every pass one of
several pages. An upload needs one that replaces it and one that waits behind;
a trouble may be followed by a restart. A stale refresh needs two lanes and two
changes; a gateway's record needs a life, a grace and a second gateway that comes
between. A late heartbeat needs one that overtakes it, a stale principal a request that
comes between two steps of its stream. A task competes with itself only, for tasks of different rows meet in
the queue alone; runs with two rows and smaller bounds were explored too.

`server_workers`, `server_clients`, `client_workers`, `event_delivery` and the violated
run of `EventDelivery` turn the deadlock check off: with all tickets spent, nothing
submitted, asked or reported their threads may stay idle. The other models never
stop, for the maintenance thread goes on.

Symmetry is used in `monitor_takeover` only, which checks no liveness; its two
windows are interchangeable.

### Fairness

`WriteQueue` and `StatePersistence`: a thread that waits for its ticket is
woken by `notify_all`, a transaction ends (it commits or raises), and the
`except` and `finally` blocks run, so `Begin`, `Commit` or `Fail`, `Mark` and
`Finish` are weakly fair, and so are the steps of the maintenance loop, which
wakes every second. The conditions of machines that are put side by side read
`WF_x(chosen = "m" /\ step)`, with the variables of the machine itself as subscript. Uploads, enrichments, failures and crashes are not owed;
failures and crashes are finitely many, since a database that is always down
cannot be repaired. The runs of `Monitoring` check safety only (`TickSpec`, `RestartSpec`). `ServerClients`: the
clock, the end of the startup grace and the cleanup of lapsed leases are weakly fair; no
row is owed a departure for another reason; an open client's heartbeats and frames are
sent and handled, its intervals pass; a stream makes its passes and checks its principal.

`EventDelivery`: the bot's loop and a delivery (which ends by its timeout) go
on; the stream makes a pass every second, a cached snapshot lasts a second, and
the client reconnects and reads; the programs poll and post, the server answers
them, and the reader asks for pages; handlers, workers and tasks of the bot go on, its
watch comes due and is run, snapshots get too old and Redis's times to live end. `ClientWorkers`: the upload thread, the end of
the back-off and of the heartbeat's interval, the server's handling and its
answer; the OCR slot and the scan of each monitored window; the updater's tasks
and replies, its script, and a user who closes the client some time and starts
it again. `ServerWorkers`: the
runtime's thread drains, claims for the realtime lane and calls back every
second, batches and leases end, the enrichment thread works, and an upload whose
transaction has ended submits its tasks; each gateway's thread takes a free lock and goes on,
its back-off ends, and so does a lock. The background lane is owed no claim,
for the realtime lane goes first.

## 4. Findings

* **A lost source may stay shown as clear** (`persist_fake_safety`): the writes
  of a hostile view and of its loss both fail. The repair sees the earlier clear
  projection and a lost row with a non-zero count, publishes nothing, and the
  system stays freshly clear without a source (`state_repair.py` 60-91).
* **A clear committed without its row** (`persist_together`): the events of
  every upload include the clear of all zero primaries in memory, so one system's
  upload commits another's clear whose own write failed
  (`capture_state.py` 297-308). A restart then keeps a clear that no row supports.
* **An OCR result of an unchanged picture is refused** (`monitor_lagging_ocr`):
  it is stamped when submitted, the next frame's presence is sent first, and
  the order check of `_transition_ocr_client_system` (4351) rejects what
  `capture_is_current` allows.
* **A retired bare identity counts as a standby** (`monitor_retired_parent`): the
  takeover elects among the qualified rows only, without the window that
  retired the identity, and an unproven window becomes primary.
* **A group told safe is not told of the comeback** (`bot_comeback`): a safe
  message reaches one group, the next meets a rate limit; the bridge waits for a
  new bootstrap, in which the system is hostile again. The bot still holds it
  announced and sends nothing (`qq_bot_runtime.py` 125-131, `alerts.py`
  1198), although `bot/README.md` 190 promises a new wave.

Read in the code while modelling, without a run of its own:

* *An enrichment may publish a state that never was* (`postgres_store.py` 912-922,
  whose comment says that the database snapshot is the causal state): after a failed upload
  its transaction combines the stored old count with the new crew. The proof of
  `NeverGoesBack` found it; `Blend` allows it until the repair.
* With two systems, a restart before the repair can leave a system that was never stored shown
  as clear (the consequence of `persist_together`).
* A client started while the update's script is at work can prepare a package that does
  not fit the models the script leaves (updater.py 1069). The proof of `InstallIsWhole`
  widened `untried` to it.
* A stale record in Redis can be displaced by an older, expired one of PostgreSQL when
  ESI fails; the request is answered with nothing (id_cache.py 426, against
  `docs/cache-and-storage.md`).
* When the first job of a batch ends before its next name is admitted, the remaining names
  are dropped silently (`bot/README.md` promises a report of its own for each).
* One snapshot that is used again counts twice as a missing one, and rearms a watch after a
  single scan (`bot/docs/README.md` says two complete ones in a row).
* A failed acknowledgement leaves a group's query lock until it lapses, and a lock is
  released by a GET and a DELETE between which it may change hands.
* In the client's window: a quit while uploads are pending restarts the monitors
  (against `tests/test_main_window.py` 277); a window without a region that is chosen
  while monitoring raises; a timer during a modal dialog leaves the button unchecked;
  two windows in one system share a tile.

## 5. Proofs

What is proved holds for every value of the constants that the named assumptions
admit. Each proof has one inductive invariant, a lemma for each action that says that
it keeps the invariant, lemmas about the operators, and the theorems at its end.
The assumptions give the constants their types, and say that marks for *none* are no
members of them.

| Module | Theorems (property) | Assumes |
|---|---|---|
| `WriteQueue_proofs` | `TypeCorrect`, `MutualExclusion` (`OneWriter`), `TicketsAccountedFor`, `TurnNotSkipped`, `ImplementsFifoQueue` (`ImplementsFifo`) | `MaxTicketsAssumption` |
| `StatePersistence_proofs` | `PersistenceTypesCorrect` (`TypeOK`), `StorageIsMemory` (`StorageMatchesMemory`), `ConsumersGoForward` (`NeverGoesBack`), `WritesObeyQueue` (`ObeysQueue`) | `BoundsAssumption` |
| `Monitoring_proofs` | `MonitoringIsTyped` (`TypeOK`), `OrdersStayDistinct` (`DistinctOrders`), `OnePlaceAtATime` (`OnePlace`), `EvidenceIsIndependent` (`IndependentEvidence`), `RetirementIsKept` (`RetirementLasts`), `TakeoversStayDue` (`TakeoversAreDue`) | `LimitsAssumption`, `ReplacesAssumption`; `TakeoversStayDue` also its hypothesis `NoBareIdentities` |
| `ServerWorkers_proofs` | `IdentityTypesCorrect`, `EveryTaskServed` (`TasksAreServed`), `NoLateIdentity` (`NothingLate`), `CacheTypeCorrect`, `SingleRefresh` (`OneRefresh`), `OutageBridged` (`OutageIsBridged`), `RefreshTypesCorrect`, `ProfilesCommitted` (`ProfilesAreCommitted`), `WorkTypesCorrect` (`WorkTypeOK`) | `TaskBoundsAssumption`, `RowsAssumption`, `IdCacheAssumption`, `TokenAssumption`, `RefreshBoundsAssumption`, `MaxTicketsAssumption` |
| `ServerClients_proofs` | `AccessTypeCorrect`, `NoticesAreSeen` (`NoticeReachesStream`), `SeatMayRepeat` (`RepetitionChangesNothing`), `OnlineTypesCorrect`, `OnlyDueIsBilled` (`BillingIsDue`), `EvidenceStaysIndependent` (`IndependentEvidence`), `BeatTypesCorrect`, `WatchedWindowsStay` (`LiveWindowsStay`), `ClientsTypesCorrect` (`ClientsTypeOK`) | `AccessAssumption`, `OnlineAssumption`, `LimitsAssumption`, `ReplacesAssumption`, `BeatAssumption` |
| `EventDelivery_proofs` | `JournalStaysOrdered`, `EventsCommitInOrder` (`JournalOnlyGrows`), `BotStaysRight`, `BotTypesCorrect`, `BotGetsInSync` (`InSync`), `NewsIsNeverOutdated` (`NoOutdatedNews`), `StreamStaysRight`, `StreamTypesCorrect`, `DisplayStaysTrue` (`DisplayIsTrue`) | `JournalAssumption`, `MaxFaultsAssumption`, `StreamAssumption` |
| `ReportsAndRequests_proofs` | `RequestsStayInOrder`, `RequestTypesCorrect`, `GroupsAlwaysTakeTurns` (`GroupsTakeTurns`), `WatchTypesCorrect`, `ReportsStayInOrder`, `ReportsStayKept` (`ReportsAreKept`), `ReaderSkipsNothing` (`StreamSkipsNothing`), `ReportTypesCorrect`, `EventDeliveryTypesCorrect` (`TypeOK`) | `AnalysisAssumption`, `QueryAssumption`, `WatchAssumption`, `ReportAssumption` and those of `EventDelivery_proofs` |
| `ClientWorkers_proofs` | `UpdaterTypesCorrect`, `InstallsAreWhole` (`InstallIsWhole`), `UploadTypesCorrect`, `NothingIsForgotten` (`NothingForgotten`), `QueryTypesCorrect`, `EveryNameIsAnswered` (`NamesAreAnswered`), `ClientTypesCorrect` (`TypeOK`) | `UpdaterAssumption`, `UploadBoundsAssumption`, `QueryBoundsAssumption` |

**WriteQueue.** None of the properties is inductive alone. `IInv` adds that
outstanding threads hold different tickets, that every ticket in the window between
serving and next has a holder, and that a writing thread holds the served ticket.
For the refinement, `PendingSequence` shows that the holders by ticket form a sequence of
threads; a reservation appends to it, `Begin` opens its head, `Finish` drops it.

**StatePersistence.** What memory and storage have in common cannot be said of the
present state alone: between them are the writes under way. The invariant says that there is
a history that explains both (`Replay`): an image of memory for each ticket and, for each system,
the image that its stored row is of. A write under way takes one image to the next
(`JobsFit`); what has been stored is what the images up to the served ticket say, unless
a failed write is marked (`Faithful`, `Committed`); images grow as the refinement's
states do (`Growing`). Each action extends the history (`Reserve`, `Restart`) or
moves the served ticket along it. When all is settled the last image is
both memory and storage, which is `StorageMatchesMemory`; each step of what is shown goes from one
image to a later one, which is `NeverGoesBack`. `Queued` and `Marked` are the part of the
queue and of the repair's counters; `ObeysQueue` follows from them, step by
step, up to a crash. So the theorems about `WriteQueue` apply to the persistence.

**Monitoring.** The invariant `Sound` speaks of one table of rows, for the handlers change
tables half way. It adds to the properties that a resident row holds the newest frame of
its window (`Newest`): thus an upload that `capture_is_current` accepts is no earlier than
the row it replaces, an OCR result is of the resident row's session, and evidence keeps
its order (`Evident`). The lemmas about `SourceAuthority` say that the oldest candidate is
elected (`OldestIsElected`), that residents always have one to elect (`ResidentElected`,
by `ReplacesAssumption`: a bare identity replaces no other), that the loop of a takeover
ends at the chosen window without meeting anyone twice (`DisplacedLine`), and that so a
takeover gives the displaced new and different orders and changes nothing else
(`RequeueReorders`). Greatest and least members of finite sets are found
by a least counterexample, which the library's well-founded orders allow.
`TakeoversStayDue` is for binaries none of which reports a bare identity (`NoBareIdentities`); beside one
it is false, as the finding `monitor_retired_parent` shows. Then nobody is superseded and the primary is the oldest
resident (`PrimaryIsOldest`), so a takeover puts the chosen standby in front (`RequeueElects`) and an
upload, which gives a window its old place or the last one, puts nobody before a primary that stays (`ReportKeeps`).
For `RetirementIsKept` the lemma of each handler says beside `Sound` that it loses no row (`RowsAreKept`): an upload
marks rows as departed and a takeover changes their orders, and neither deletes one.
`EvidenceIsIndependent` is about `Spec` of `Monitoring`; the run `server_clients`, which checks
the property, runs that machine beside others, and `EvidenceStaysIndependent` says it of
`ClientsSpec`.

**IdentityTasks.** `TasksAreServed` is not inductive: a worker that has timed out must
not have been given a task since (`TimedOut` looks at the queue again under the lock). The
invariant adds that only a closed worker's queue has the sentinel (`QueueHeld`),
that what a handler has read belongs to the generation it started in (`TaskRead`), and
what it will write if nothing changes (`TaskAnswered`). With them each step that changes
a row writes the identity of the moment (`NothingLate`).

**IdCache.** `LockHeld` says that whoever refreshes holds the lock by its token, but for those
whose lock has ended (`overrun`). For outages the invariant says how the stores and the
readers lag behind the newest record that was told, while nothing has failed and no loads
overlap (`CalmLeads`, `RecordsPast`).

**PersonnelRefresh.** What a lane has read of the archive may be out of date when it writes, and
so may the hot copy. The invariant (`RefreshInv`) says that it was committed nevertheless: whatever is in memory or
in a lane's hand is of no newer revision than the stored row, and is the stored row if the
revision is the same (`ReadWasCommitted`); and whoever works on the character, in whatever role,
is known to the job that leases it (`Known`). With them a late answer, a lost lease
or a restart takes no stored profile back (`GoesForward`), which is `ProfilesAreCommitted`.

**Heartbeats.** `LiveWindowsStay` speaks of two intervals, its steps of one. `HeardOf` says that a
window watched through a calm interval is in that interval's heartbeat, wherever that is, and
that once it is handled nothing is held against the window; `Spared` that after two calm intervals
nothing held against it is old enough to count; `ClosedIsBlind` that a closed client watches nothing.

**AccessControl.** `NoticeOnItsWay` follows the stream through its pass: whatever it has
read of a principal that is taken away now, either the generation has moved on since, or a
request that changed something has yet to tell. `OneOperation` says that a key and
its operation were noted together, from which repetitions change nothing.

**OnlineTime.** `RevisionsTell` says what a revision of the selection proves: between two heartbeats
of one revision and connection nothing was deselected. `BilledAsSelected` carries that
to what was billed; `OneAtATime` orders the heartbeats of threads that do not overlap,
and the intervals billed so far before them.

**EventJournal.** `JournalInv` says that one transaction at a time has events, that they come
after all committed ones and that the newest of these is never pruned: so the watermark,
the highest number of the kept rows, cannot go back (`JournalKeeps`).

**BotBridge.** `InSync` speaks of a bot at rest that has worked off everything. Between, the
announced systems may be ahead of the cursor: they are saved first, and after a crash
between the two the events are worked off again. So the invariant (`BotInv`) says that they fit
the journal at the cursor for each system of which no later event is known (`Fits`), which
is so ahead of it and behind it (`FitsAhead`, `EventFits`), stays so when events are
committed (`KindGrows`), and holds for the work in hand at its own number (`SoundWork`). `BotOrder`
adds what the two decisions of `TurnWithBootstrap` rest on: the cursor is never
ahead of a bootstrap that is taken up, since without a first one there is no cursor.
That a bootstrap finds an unused episode (`EpisodeIsFresh`) is the pigeonhole principle.

**EventStream.** `DisplayIsTrue` speaks of the display and the last frame handled; why it holds is
spread over the wire, the connection and the snapshot that all connections share. The invariant (`StreamInv`)
says of every frame under way that it follows the one before it (`Follows`): it is a bootstrap, or the
one event between their two numbers, or a cursor with no event between (`FramesFit`). A pass keeps
that because the rows it pages through lack only what was pruned before its position (`PassFits`),
and `PageInOrder` shows that a page in the order of its numbers leaves out none of them. That a new
connection does not go back rests on the snapshot: its number never falls, so it is ahead of all that any
connection sent, and so of every alert in `seen` (`WireOrder`, `Baseline`).
Rows that are pruned before a stream has sent them are ruled out by `PruneIsSlow`,
which the model has from the journal's days against the stream's seconds.

**ChannelReports.** `StreamSkipsNothing` holds although positions are given before the commit,
because the advisory lock lets only one transaction at a time have one: whatever is being written
has a position above all stored ones and above the cursor (`IsAhead`), unless its row is there, or
its first transaction failed and it has kept an old position, or the line was deleted
(`StreamInOrder`). A page moves the cursor to the position of a stored row, so what was ahead
stays ahead (`ReadPageKeeps`). For `ReportsAreKept`, `LinesInOrder` says that what is stored or in a
thread's hand is in memory, where a line has one report: hence the duplicate check finds it. After a
restart memory is what is stored, and the positions of memory are those of the rows
(`PositionsInOrder`), so that the restart changes none of them. `RowRight` is
`ChannelShowsNewest` made inductive: no time of the row is after its newest line, and an active row
that nothing late has touched has exactly that line's time. It is kept for the row in memory,
the one in the table and those the threads are about to write (`AppliedRow`, `RowsRight`).

**AnalysisJobs.** The lock of a group is in one key, the slots in another, and the jobs of a batch
in a counter and markers; `GroupsTakeTurns` needs that they agree. `WorkInOrder` says that a report under
way has the lock and the slot, and in a batch its marker; `MarkersInOrder` that the counter is the
number of the markers, so the last one to leave is the one who gives the lock back, and not
earlier; `OrdersInOrder` that a handler counts its names one by one, so that a
name it has yet to admit finds no job. What lapsed in Redis (`overdue`) is excepted throughout, as
the property excepts it.

**GroupQueries.** `QueryInv` says that a query under way holds its group's lock, unless one of the
group's has lapsed too early, and that a lock is never one of another group's. Of
**Watches** the types are proved, and that a row's id is one that a command gave.

**Updater.** `HomeIsWhole` says of each statement of the script what is installed, staged
and backed up; `ScriptGoesOn` and `ClientGoesOn` what the script and the client rely
on; `ClientIsInstalled` that a running client is the installed one; `ModelsFit` that a
package that is remembered, on trial or about to be installed fits the models it
will meet. `ModelsFit` failed on a first attempt, which is the divergence above.

**UploadQueue.** `NothingForgotten` is kept by the slots and, separately, by the file: `Kept` says of a
pair of queues that every window's newest report is in it, was handled or has lapsed. The slots
keep it as long as they were not loaded from a spoilt file, the file as long as no replaced queue
has overwritten it (`spoilt`). What makes an answer safe is `SentIsHandled`: a report that
is being sent is still on the wire or was handled, so a success discards only what
the server has. A new report takes the place of its window's old one (`Lined`: a window has one slot of a
kind), and is then the newest. The lemmas about `Without` carry this through every change of a queue: `WithoutIs` says that what is left are the places that stay,
one by one and in order, since the places of a finite set can be counted off (`PlacesCount`,
by the pigeonhole principle).

**OcrQuery.** `Waiting` is `WaitsForItsRequest` over places of the line instead of a count: of its own a worker has at
most one request, in the line or in the slot, and has one exactly if it waits. To keep it through
`Enqueue`, which cancels, replaces and marks requests of several windows at once, `Supersede` must release exactly the
workers whose requests went (`WaitersAre`). `OneResult` is inductive only with the reason: who has submitted is in
the client's books as in flight or completed, and has no query, so that a command that is handed out
again is not dispatched. `NoneLost` says where an unanswered command is, `ServerAgrees` that a result the client
takes for taken has reached the job, and `WorkersAgree` that a worker that waits with the query has it and
that a stopped one waits for nothing.

The theorems about `AccessControl`, `OnlineTime` and `Heartbeats` are about `ClientsSpec`, those about
`IdentityTasks`, `IdCache` and `PersonnelRefresh` about `WorkSpec`, those about the journal, the bot, the stream, the
reports and the requests about `EventDelivery`'s `Spec` and those about the update, the uploads and the
names about `ClientWorkers`' `Spec`: the specifications
that the runs check. For this each module has a lemma that the composition does the
operations of the part or leaves its variables alone (`WorkRunsGateways`, `ConsumersRunBot`, `WorkersRunQuery`, ...).

Only model-checked: liveness (`WorkSettles`, `EventuallySettles`, `BeliefsEnd`,
 `ConsumerCatchesUp`, `WorkGetsDone`), since fairness and `ENABLED` are out of the
prover's reach; and `TakeoversAreDue` of `Monitoring` where bare identities are replaced, of
which its run has none either.
`UploadQueue` and `OcrQuery` filter their queues with `Without` of `Queues`, by rank, for the prover knows
nothing of the recursion in `SelectSeq`.
No module has a RECURSIVE operator.

## 6. Plan

1. The scope filter in `Monitoring` and `UploadQueue`, and `UploadQueue` composed with
   the fences of `Monitoring`.

Two-system runs of the persistence invariants were explored to two mutations
and one failure; the finding above is what distinguishes them from one system.

## 7. Not modelled

The web page, the download site, deployment, the map data and HTTP handlers'
validation have no state worth checking here. Text parsing, scoring and OCR
are pure functions over strings and pictures. The signature of the update's
manifest is a library's, and so are password hashes. The monitoring scope is off by
default and planned.
