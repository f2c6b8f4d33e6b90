---------------------------- MODULE EventDelivery ---------------------------
(***************************************************************************)
(* What the server tells: the event journal with one of its consumers,     *)
(* the QQ bot inside the server or the stream to a desktop client, and the *)
(* reports of a channel's lines with a reader of theirs.  And what a group *)
(* asks of the bot: a report on pilots, a query of the nodes, a watch.     *)
(*                                                                         *)
(* The consumers never write the journal, reports have a stream of their   *)
(* own, and the requests of groups share no keys and no rows with the rest *)
(* or with each other, so each is put to work alone.                       *)
(***************************************************************************)
EXTENDS BotBridge, EventStream, ChannelReports, AnalysisJobs, GroupQueries, Watches

\* "bot", "stream", "reader" of the reports, or what a group asks of the bot:
\* "analysis", "query" or "watch"; for good.
VARIABLE consumer

requests == <<analysis, queries, watches>>

vars == <<journal, bot, stream, channel, requests, consumer>>

-----------------------------------------------------------------------------
Init ==
    /\ JournalInit
    /\ BotInit
    /\ StreamInit
    /\ ReportInit
    /\ AnalysisInit
    /\ QueryInit
    /\ WatchInit
    /\ consumer \in {"bot", "stream", "reader", "analysis", "query", "watch"}

\* Events live for days in the journal; a connected stream has sent them within
\* seconds and a snapshot is cached for one.  The bot may have been down for
\* longer.
PruneIsSlow ==
    consumer = "stream" => \A e \in kept \ kept' :
        /\ connected => e.seq <= position
        /\ cache.fresh => e.seq <= cache.seq

JournalStep ==
    /\ consumer \in {"bot", "stream"}
    /\ JournalNext
    /\ PruneIsSlow
    /\ UNCHANGED <<bot, stream, channel, requests, consumer>>

ByBot(step) ==
    consumer = "bot" /\ step /\ UNCHANGED <<journal, stream, channel, requests, consumer>>

ByStream(step) ==
    consumer = "stream" /\ step /\ UNCHANGED <<journal, bot, channel, requests, consumer>>

ByReader(step) ==
    consumer = "reader" /\ step /\ UNCHANGED <<journal, bot, stream, requests, consumer>>

ByWorker(step) ==
    /\ consumer = "analysis"
    /\ step
    /\ UNCHANGED <<journal, bot, stream, channel, queries, watches, consumer>>

ByQuery(step) ==
    /\ consumer = "query"
    /\ step
    /\ UNCHANGED <<journal, bot, stream, channel, analysis, watches, consumer>>

ByWatch(step) ==
    /\ consumer = "watch"
    /\ step
    /\ UNCHANGED <<journal, bot, stream, channel, analysis, queries, consumer>>

Next ==
    \/ JournalStep
    \/ ByBot(BotNext)
    \/ ByStream(StreamNext)
    \/ ByReader(ReportNext)
    \/ ByWorker(AnalysisNext)
    \/ ByQuery(QueryNext)
    \/ ByWatch(WatchNext)

Spec == Init /\ [][Next]_vars

\* The bot's loop goes on for ever, and a call to QQ returns, at the latest by
\* its timeout.  The stream makes a pass every second, a snapshot is fresh for a
\* second, and the client reconnects and reads for ever.  So do the programs that
\* follow the channel and a reader of the reports, and a request of theirs ends.
\* The bot's handlers, tasks and workers go on, what it keeps in Redis lapses, a
\* watch becomes due and a snapshot old.
Fairness ==
    /\ WF_bot(consumer = "bot" /\ BotSteps)
    /\ WF_stream(consumer = "stream" /\ Connect)
    /\ WF_stream(consumer = "stream" /\ CacheExpires)
    /\ WF_stream(consumer = "stream" /\ Pass)
    /\ WF_stream(consumer = "stream" /\ HandleFrame)
    /\ WF_channel(consumer = "reader" /\ ServerSteps)
    /\ WF_channel(consumer = "reader" /\ ReadPage)
    /\ \A w \in Watchers : WF_channel(consumer = "reader" /\ (Poll(w) \/ Post(w)))
    /\ WF_analysis(consumer = "analysis" /\ AnalysisSteps)
    /\ WF_queries(consumer = "query" /\ QuerySteps)
    /\ WF_watches(consumer = "watch" /\ CycleSteps)
    /\ WF_watches(consumer = "watch" /\ RunOnce)
    /\ WF_watches(consumer = "watch" /\ BecomesDue)
    /\ WF_watches(consumer = "watch" /\ ReuseEnds)

\* Nobody has to report anything.
FairSpec == Spec /\ Fairness

-----------------------------------------------------------------------------
TypeOK ==
    /\ JournalTypeOK /\ BotTypeOK /\ StreamTypeOK /\ ReportTypeOK
    /\ AnalysisTypeOK /\ QueryTypeOK /\ WatchTypeOK

\* A group waits for one analysis and for one query at a time, and no more
\* messages are analysed at once than there are slots, as long as nothing in
\* Redis lapsed under them (admission.py 38-67, bot.py 641-667).
GroupsTakeTurns == ReportsTakeTurns /\ QueriesTakeTurns

\* When deliveries and connections stop failing, the bot comes to hold announced
\* the systems that are hostile, and the display to show them, and they keep to
\* it - even if the bot finds events expired or pruned that it had not seen; and
\* every line of a channel comes to its reader (qq_bot_runtime.py 201,
\* postgres_store.py 1695, http_server.py 4972, log_watcher.py 184).  Whatever a
\* group asked for is answered and its locks are free, and a watched target that
\* stays is reported (bot.py 480, 703, sentry_watch.py 279).
ConsumerCatchesUp ==
    <>[](CASE consumer = "bot" -> BotCaughtUp
           [] consumer = "stream" -> DisplayCaughtUp
           [] consumer = "reader" -> LinesArrive
           [] consumer = "analysis" -> ReportsEnd
           [] consumer = "query" -> QueriesEnd
           [] consumer = "watch" -> WatchSettles)
=============================================================================
