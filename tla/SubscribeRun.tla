---------------------------- MODULE SubscribeRun ----------------------------
(***************************************************************************)
(* One run of the sub command, from a connected client on (RunSubscribe in  *)
(* internal/mqttload/subscribe.go, subscribe_progress.go, the reads of      *)
(* subscribe_report.go, both displays of internal/display/subscribe.go, and *)
(* the run function of internal/cli/subscribe.go).                          *)
(*                                                                         *)
(* paho calls the message callback on a goroutine of its own per message   *)
(* (one after the other with --ordered), from the Subscribe call on, before *)
(* the broker has acknowledged it, until Disconnect.  Callbacks that have   *)
(* started by then go on: nothing waits for them.                          *)
(*                                                                         *)
(* Time is a small clock; 0 is the zero time.Time, "never set".            *)
(***************************************************************************)
EXTENDS Integers, FiniteSets

CONSTANTS
    Messages,    \* the messages a broker may deliver
    Settings,    \* the flags a run may be started with
    ResetAfter,  \* --reset-after, rounded down to the unit of the clock
    MaxTime      \* MaxTime[s]: bound on the clock under the flags s

Flags == [count : Nat, ordered : BOOLEAN, benchmark : BOOLEAN, disableBar : BOOLEAN]

ASSUME MessagesAssumption   == IsFiniteSet(Messages)
ASSUME SettingsAssumption   == Settings # {} /\ \A s \in Settings : s \in Flags
ASSUME ResetAfterAssumption == ResetAfter \in Nat
ASSUME MaxTimeAssumption    == MaxTime \in [Settings -> Nat \ {0}]

VARIABLES
    flags,     \* the flags of this run
    now,       \* the clock
    ctxDone,   \* the command's context has been cancelled
    token,     \* the subscribe token
    conn,      \* the MQTT connection
    callback,  \* callback[m]: where the callback of m stands, and its two local variables
    progress,  \* SubscribeProgress
    stats,     \* SubscribeStats: latencies recorded, messages without one, the samples
    closes,    \* how often firstMessageArrived and countReached were closed
    run,       \* RunSubscribe: where it stands, what it returns, runOver
    sampler,   \* the sampler goroutine, with the total it has sampled so far
    display,   \* the display goroutine, with the local variables of its loop
    cli        \* the command: where it stands, its report, its error

runVars == <<run, progress, conn>>
vars == <<flags, now, ctxDone, token, conn, callback, progress, stats, closes,
          run, sampler, display, cli>>

NoReport == [received |-> -1, startedAt |-> -1, finishedAt |-> -1, unmeasured |-> -1,
             perInterval |-> -1, measured |-> -1]

Init ==
    /\ flags \in Settings
    /\ now = 1 /\ ctxDone \in BOOLEAN /\ token = "pending" /\ conn = "live"
    /\ callback = [m \in Messages |-> [at |-> "none", number |-> 0, arrivedAt |-> 0]]
    /\ progress = [received |-> 0, receivedBytes |-> 0, firstMessageAt |-> 0,
                   lastMessageAt |-> 0, subscribedAt |-> 0, finishedAt |-> 0, done |-> FALSE]
    /\ stats = [measured |-> 0, unmeasured |-> 0, perInterval |-> -1]
    /\ closes = [firstArrived |-> 0, countReached |-> 0]
    /\ run = [at |-> "subscribing", err |-> "none", over |-> FALSE]
    /\ sampler = [at |-> "none", total |-> 0]
    /\ display = [at |-> "drawing", tickAt |-> 0, seen |-> 0, baseline |-> 0,
                  previousCount |-> 0, rated |-> 0, summary |-> -1]
    /\ cli = [at |-> "running", report |-> NoReport, exitErr |-> "none"]

-----------------------------------------------------------------------------
(* The callback of one message: recordMessage, recordLatency, two closes.  *)

MessageFrame == UNCHANGED <<flags, now, ctxDone, token, conn, run, sampler, display, cli>>
At(m, place) == callback[m].at = place
Go(m, place) == callback' = [callback EXCEPT ![m].at = place]

InCallback == {m \in Messages : callback[m].at \notin {"none", "finished"}}

ArriveOn(m, ordered) ==
    /\ At(m, "none") /\ conn = "live"
    /\ ordered => InCallback = {}
    /\ callback' = [callback EXCEPT ![m].at = "arrived", ![m].arrivedAt = now]
    /\ UNCHANGED <<progress, stats, closes>> /\ MessageFrame

\* Mutant: --ordered is not passed on to the connection.
ArriveUnordered(m) == ArriveOn(m, FALSE)

\* paho calls the callback, and recordMessage reads the clock.
Arrive(m) == ArriveOn(m, flags.ordered)

\* received.Add hands out the number.
CountMessage(m) ==
    /\ At(m, "arrived")
    /\ progress' = [progress EXCEPT !.received = @ + 1]
    /\ callback' = [callback EXCEPT ![m].at = "counted", ![m].number = progress.received + 1]
    /\ UNCHANGED <<stats, closes>> /\ MessageFrame

\* receivedBytes.Add; every payload counts as one byte.
CountBytes(m) ==
    /\ At(m, "counted") /\ Go(m, "sized")
    /\ progress' = [progress EXCEPT !.receivedBytes = @ + 1]
    /\ UNCHANGED <<stats, closes>> /\ MessageFrame

SetLastMessageAt(m) ==
    /\ At(m, "sized") /\ Go(m, "last")
    /\ progress' = [progress EXCEPT !.lastMessageAt = callback[m].arrivedAt]
    /\ UNCHANGED <<stats, closes>> /\ MessageFrame

SetFirstMessageAt(m) ==
    /\ At(m, "last") /\ Go(m, "first")
    /\ progress' = IF callback[m].number = 1
                   THEN [progress EXCEPT !.firstMessageAt = callback[m].arrivedAt]
                   ELSE progress
    /\ UNCHANGED <<stats, closes>> /\ MessageFrame

\* recordLatency, with --benchmark only; LatencyStats says what it makes of a
\* payload.
RecordLatency(m) ==
    /\ At(m, "first") /\ Go(m, "measured")
    /\ IF flags.benchmark
       THEN stats' \in {[stats EXCEPT !.measured = @ + 1], [stats EXCEPT !.unmeasured = @ + 1]}
       ELSE UNCHANGED stats
    /\ UNCHANGED <<progress, closes>> /\ MessageFrame

CloseFirstArrived(m) ==
    /\ At(m, "measured") /\ Go(m, "firstClosed")
    /\ closes' = IF callback[m].number = 1 THEN [closes EXCEPT !.firstArrived = @ + 1] ELSE closes
    /\ UNCHANGED <<progress, stats>> /\ MessageFrame

CloseCountReachedWhen(m, reached) ==
    /\ At(m, "firstClosed") /\ Go(m, "finished")
    /\ closes' = IF flags.count > 0 /\ reached THEN [closes EXCEPT !.countReached = @ + 1]
                                               ELSE closes
    /\ UNCHANGED <<progress, stats>> /\ MessageFrame

\* Mutants: the count is reached by every later message too, or one too early.
CloseAtOrAboveCount(m) == CloseCountReachedWhen(m, callback[m].number >= flags.count)
CloseOneEarly(m) == CloseCountReachedWhen(m, callback[m].number = flags.count - 1)

CloseCountReached(m) == CloseCountReachedWhen(m, callback[m].number = flags.count)

CallbackStep(m) ==
    \/ CountMessage(m) \/ CountBytes(m) \/ SetLastMessageAt(m) \/ SetFirstMessageAt(m)
    \/ RecordLatency(m) \/ CloseFirstArrived(m) \/ CloseCountReached(m)

-----------------------------------------------------------------------------
(* RunSubscribe.                                                           *)

RunFrame == UNCHANGED <<flags, now, ctxDone, token, callback, closes, display, cli>>
Runs(from, to) == run.at = from /\ run' = [run EXCEPT !.at = to]
Ends(from, to, err) == run.at = from /\ run' = [run EXCEPT !.at = to, !.err = err]

\* subscribeAndWait: the context plays no part until the token or its timeout.
Subscribed ==
    /\ Runs("subscribing", "subscribed") /\ token = "ok"
    /\ UNCHANGED <<conn, progress, stats, sampler>> /\ RunFrame

SubscribeFailedAt(place) ==
    /\ \/ Ends("subscribing", place, "timeout")
       \/ token = "error" /\ Ends("subscribing", place, "refused")
    /\ UNCHANGED <<conn, progress, stats, sampler>> /\ RunFrame

\* Mutant: the subscribe error returns before Disconnect and finish are deferred.
RefusedNotFinished == SubscribeFailedAt("returned")

\* The broker refused, or ten seconds passed: straight to the deferred calls.
SubscribeFailed == SubscribeFailedAt("disconnecting")

RecordSubscribed ==
    /\ Runs("subscribed", "starting")
    /\ progress' = [progress EXCEPT !.subscribedAt = now]
    /\ UNCHANGED <<conn, stats, sampler>> /\ RunFrame

StartSampler ==
    /\ Runs("starting", "waiting")
    /\ sampler' = [sampler EXCEPT !.at = "waiting"]
    /\ UNCHANGED <<conn, progress, stats>> /\ RunFrame

\* Ctrl-C, or the message number --count has been handled.
StopRun ==
    /\ Runs("waiting", "stopping")
    /\ ctxDone \/ closes.countReached > 0
    /\ UNCHANGED <<conn, progress, stats, sampler>> /\ RunFrame

RecordStopped ==
    /\ Runs("stopping", "closing")
    /\ progress' = [progress EXCEPT !.finishedAt = now]
    /\ UNCHANGED <<conn, stats, sampler>> /\ RunFrame

CloseRunOver ==
    /\ run.at = "closing" /\ run' = [run EXCEPT !.at = "joining", !.over = TRUE]
    /\ UNCHANGED <<conn, progress, stats, sampler>> /\ RunFrame

JoinWhen(stopped) ==
    /\ Ends("joining", "disconnecting", "nil") /\ stopped
    /\ UNCHANGED <<conn, progress, stats, sampler>> /\ RunFrame

\* Mutant: the sampler is not waited for.
NotJoined == JoinWhen(TRUE)

\* <-samplerStopped
JoinSampler == JoinWhen(sampler.at = "stopped")

\* The deferred Disconnect: no callback starts from here on.
Disconnect ==
    /\ Runs("disconnecting", "ending")
    /\ conn' = "closed"
    /\ UNCHANGED <<progress, stats, sampler>> /\ RunFrame

EndTimeWhen(unset) ==
    /\ Runs("ending", "finishing")
    /\ progress' = IF unset THEN [progress EXCEPT !.finishedAt = now] ELSE progress
    /\ UNCHANGED <<conn, stats, sampler>> /\ RunFrame

\* Mutant: finish sets the end time whether or not it is set.
EndAgain == EndTimeWhen(TRUE)

\* The deferred finish: the end time, when the run never got to set it, ...
EndTime == EndTimeWhen(progress.finishedAt = 0)

\* ... and then close(done), which releases the display.
CloseDone ==
    /\ Runs("finishing", "returned")
    /\ progress' = [progress EXCEPT !.done = TRUE]
    /\ UNCHANGED <<conn, stats, sampler>> /\ RunFrame

RunStep ==
    \/ Subscribed \/ SubscribeFailed \/ RecordSubscribed \/ StartSampler \/ StopRun
    \/ RecordStopped \/ CloseRunOver \/ JoinSampler \/ Disconnect \/ EndTime \/ CloseDone

-----------------------------------------------------------------------------
(* The sampler goroutine.                                                  *)

\* It starts with the first message, so the wait for a publisher is left out.
SamplerBegins ==
    /\ sampler.at = "waiting" /\ closes.firstArrived > 0
    /\ sampler' = [sampler EXCEPT !.at = "sampling"]
    /\ UNCHANGED <<runVars, stats>> /\ RunFrame

\* The run is over before, or while, it samples.
SamplerStops ==
    /\ sampler.at \in {"waiting", "sampling"} /\ run.over
    /\ stats' = IF sampler.at = "sampling" THEN [stats EXCEPT !.perInterval = sampler.total]
                                           ELSE stats
    /\ sampler' = [sampler EXCEPT !.at = "stopped"]
    /\ UNCHANGED runVars /\ RunFrame

Sample ==
    /\ sampler.at = "sampling"
    /\ sampler' = [sampler EXCEPT !.total = progress.received]
    /\ UNCHANGED <<runVars, stats>> /\ RunFrame

-----------------------------------------------------------------------------
(* The display goroutine: a bar, or with --disable-bar a line per tick that *)
(* counts from a baseline.  rated is the sum of all growth it has shown.    *)

CommandFrame == UNCHANGED <<flags, now, ctxDone, token, callback, stats, closes, sampler, runVars>>
DisplayFrame == UNCHANGED cli /\ CommandFrame

EndDisplayIf(logs) ==
    /\ display.at = "drawing" /\ progress.done
    /\ display' = [display EXCEPT !.at = "stopped",
                                  !.summary = IF logs THEN progress.received ELSE @]
    /\ DisplayFrame

\* Mutant: the summary does not ask whether the subscribe succeeded.
SummaryAlways == EndDisplayIf(TRUE)

\* The display ends with the run; it logs "sub stopped" only for a real run.
EndDisplay == EndDisplayIf(progress.subscribedAt # 0)

BarTick ==
    /\ display.at = "drawing" /\ ~flags.disableBar
    /\ display' = [display EXCEPT !.rated = @ + progress.received - display.previousCount,
                                  !.previousCount = progress.received]
    /\ DisplayFrame

\* The tick carries its own time; the snapshot is read after it, the count first ...
LogTick ==
    /\ display.at = "drawing" /\ flags.disableBar
    /\ display' = [display EXCEPT !.at = "ticked", !.tickAt = now]
    /\ DisplayFrame

SnapshotReceived ==
    /\ display.at = "ticked"
    /\ display' = [display EXCEPT !.at = "snapshot", !.seen = progress.received]
    /\ DisplayFrame

\* buildRateReport: a line unless the count is 0, and with it perhaps a reset.
CurrentCount == display.seen - display.baseline
Resets == /\ CurrentCount # 0 /\ progress.lastMessageAt # 0
          /\ display.tickAt - progress.lastMessageAt > ResetAfter

LogLineWith(resets, afterReset) ==
    /\ display.at = "snapshot"
    /\ display' = [display EXCEPT
          !.at = "drawing", !.tickAt = 0,
          !.rated = IF CurrentCount = 0 THEN @ ELSE @ + CurrentCount - display.previousCount,
          !.baseline = IF resets THEN display.seen ELSE @,
          !.previousCount = IF resets THEN afterReset ELSE CurrentCount]
    /\ DisplayFrame

\* Mutants: a reset forgets to zero the count the next rate is taken from, or
\* comes although a message arrived a moment ago.
KeepPreviousCount == LogLineWith(Resets, CurrentCount)
ResetAtOnce == LogLineWith(CurrentCount # 0 /\ progress.lastMessageAt # 0, 0)

\* ... and the time of the last message after it.
LogLine == LogLineWith(Resets, 0)

-----------------------------------------------------------------------------
(* The command.                                                            *)

Command(from, to) ==
    /\ cli.at = from /\ cli' = [cli EXCEPT !.at = to]
    /\ UNCHANGED display /\ CommandFrame

\* <-displayStopped
AwaitDisplay ==
    run.at = "returned" /\ display.at = "stopped" /\ Command("running", "displayed")

\* The report is skipped when the subscribe never succeeded.
CheckSubscribed ==
    /\ cli.at = "displayed"
    /\ cli' = IF progress.subscribedAt = 0
              THEN [cli EXCEPT !.at = "exited", !.exitErr = run.err]
              ELSE [cli EXCEPT !.at = "counts"]
    /\ UNCHANGED display /\ CommandFrame

\* BuildSubscribeReport reads one value after the other, in this order.
Read(from, to, report) ==
    /\ cli.at = from
    /\ cli' = [cli EXCEPT !.at = to, !.report = report]
    /\ UNCHANGED display /\ CommandFrame

ReadReceived == Read("counts", "times", [cli.report EXCEPT !.received = progress.received])
ReadTimes ==
    Read("times", "stats", [cli.report EXCEPT
        !.startedAt = IF progress.firstMessageAt = 0 THEN progress.subscribedAt
                                                     ELSE progress.firstMessageAt,
        !.finishedAt = progress.finishedAt])
ReadStats ==
    Read("stats", "latency", [cli.report EXCEPT !.unmeasured = stats.unmeasured,
                                                !.perInterval = stats.perInterval])
ReadLatency == Read("latency", "writing", [cli.report EXCEPT !.measured = stats.measured])

WriteReport ==
    /\ cli.at = "writing"
    /\ \E err \in IF run.err = "nil" THEN {"nil", "reportError"} ELSE {run.err} :
          cli' = [cli EXCEPT !.at = "exited", !.exitErr = err]
    /\ UNCHANGED display /\ CommandFrame

CommandStep ==
    \/ AwaitDisplay \/ CheckSubscribed
    \/ ReadReceived \/ ReadTimes \/ ReadStats \/ ReadLatency \/ WriteReport

-----------------------------------------------------------------------------
(* The environment, and the specification.                                 *)

Untouched == UNCHANGED <<flags, callback, stats, closes, runVars, sampler, display, cli>>

Tick == now < MaxTime[flags] /\ now' = now + 1 /\ UNCHANGED <<ctxDone, token>> /\ Untouched

Cancel == ~ctxDone /\ ctxDone' = TRUE /\ UNCHANGED <<now, token>> /\ Untouched

\* The broker acknowledges or refuses the subscribe, or the connection is lost.
BrokerAnswers ==
    /\ token = "pending" /\ token' \in {"ok", "error"}
    /\ UNCHANGED <<now, ctxDone>> /\ Untouched

Terminating == cli.at = "exited" /\ InCallback = {} /\ UNCHANGED vars

DisplayGoesOn == EndDisplay \/ SnapshotReceived \/ LogLine

Next ==
    \/ \E m \in Messages : Arrive(m) \/ CallbackStep(m)
    \/ RunStep \/ SamplerBegins \/ SamplerStops \/ Sample
    \/ BarTick \/ LogTick \/ DisplayGoesOn \/ CommandStep
    \/ Tick \/ Cancel \/ BrokerAnswers \/ Terminating

\* Goroutines are scheduled and the subscribe timer fires; the broker owes
\* nothing.  A select with a tick and done both ready takes done eventually.
Fairness ==
    /\ WF_vars(RunStep) /\ WF_vars(SamplerStops) /\ WF_vars(CommandStep)
    /\ WF_vars(SnapshotReceived \/ LogLine) /\ SF_vars(EndDisplay)
    /\ \A m \in Messages : WF_vars(CallbackStep(m))

Spec == Init /\ [][Next]_vars /\ Fairness

-----------------------------------------------------------------------------
(* Properties.                                                             *)

\* Every variable of the run holds a value of its type; counts stay within the
\* messages the broker can have delivered.
TypeOK ==
    /\ flags \in Settings /\ now \in 1..MaxTime[flags] /\ ctxDone \in BOOLEAN
    /\ token \in {"pending", "ok", "error"} /\ conn \in {"live", "closed"}
    /\ \A m \in Messages : /\ callback[m].number \in 0..Cardinality(Messages)
                           /\ callback[m].arrivedAt \in 0..MaxTime[flags]
    /\ {progress.received, progress.receivedBytes, stats.measured, stats.unmeasured,
        display.seen, display.baseline, display.previousCount} \subseteq 0..Cardinality(Messages)
    /\ {progress.firstMessageAt, progress.lastMessageAt, progress.subscribedAt,
        progress.finishedAt, display.tickAt} \subseteq 0..MaxTime[flags]
    /\ {progress.done, run.over} \subseteq BOOLEAN
    /\ {closes.firstArrived, closes.countReached, sampler.total, display.rated} \subseteq Nat
    /\ run.err \in {"none", "nil", "timeout", "refused"}
    /\ cli.exitErr \in {"none", "nil", "timeout", "refused", "reportError"}

\* "A plain close is safe for both": closing a channel twice would panic, and
\* every message has a callback of its own that might do it.
ClosedOnce == closes.firstArrived <= 1 /\ closes.countReached <= 1

\* A run that subscribed ends for Ctrl-C or for --count, and in the second case
\* its report counts at least that many messages.
StopsForAReason ==
    run.at = "returned" /\ run.err = "nil" /\ ~ctxDone =>
        /\ flags.count > 0 /\ progress.received >= flags.count
        /\ cli.report # NoReport => cli.report.received >= flags.count

\* A subscribe that failed leaves no trace of a run, neither a summary nor a
\* report, although messages may have been counted already; any other run
\* leaves both, and its report counts no fewer messages than its summary.
FailureIsSilent ==
    cli.at = "exited" =>
        IF run.err = "nil"
        THEN /\ display.summary >= 0 /\ cli.report.received >= display.summary
             /\ cli.exitErr \in {"nil", "reportError"}
        ELSE display.summary = -1 /\ cli.report = NoReport /\ cli.exitErr = run.err

\* The samples are complete and final when the report reads them, and they do
\* not add up to more messages than the report counts.
SamplesFinal ==
    cli.report.measured >= 0 =>
        /\ sampler.at = "stopped"
        /\ cli.report.perInterval = stats.perInterval
        /\ stats.perInterval <= cli.report.received

\* No message is lost or shown twice by the display, whatever it resets and
\* whenever callbacks count while it reads: between two ticks, the growth it has
\* shown since the start is the count it read last.
RatesAddUp ==
    display.at = "drawing" =>
        /\ display.rated = display.baseline + display.previousCount
        /\ flags.disableBar => display.rated = display.seen

\* "once nothing has arrived for resetAfter": with --ordered, a reset finds
\* every message that has arrived older than that, but for one whose callback
\* has not got to lastMessageAt yet.
ResetInSilence ==
    [][flags.ordered /\ display'.baseline # display.baseline =>
        \A m \in Messages :
            callback[m].at \in {"none", "arrived", "counted", "sized"}
              \/ display.tickAt - callback[m].arrivedAt > ResetAfter]_vars

\* "The run ends here, before the deferred Disconnect, so its time is not in
\* the report": an end time, once set, is never moved.
EndTimeKept == [][progress.finishedAt # 0 => progress'.finishedAt = progress.finishedAt]_vars

\* The command comes to its end after Ctrl-C, a failed subscribe or --count.
CommandReturns ==
    (ctxDone \/ token = "error" \/ (flags.count > 0 /\ progress.received >= flags.count))
        ~> cli.at = "exited"

\* With --ordered the times of the messages make sense together: the first
\* message is not later than the last, and the last never moves back.
OrderedTimes ==
    [][flags.ordered =>
        /\ progress'.lastMessageAt >= progress.lastMessageAt
        /\ progress'.firstMessageAt <= progress'.lastMessageAt]_vars

\* "when the first message arrived and when sub stopped, how long that was":
\* what README.md says the elapsed time of the report is.
ElapsedNotNegative ==
    cli.report.startedAt >= 0 => cli.report.finishedAt >= cli.report.startedAt

\* "Call it only after all recording has finished" (latencyBucketSet.addTo).
ReadAfterRecording == [][cli.report.measured >= 0 => stats'.measured = stats.measured]_vars

=============================================================================
