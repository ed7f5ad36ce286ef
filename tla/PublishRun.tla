----------------------------- MODULE PublishRun -----------------------------
(***************************************************************************)
(* One run of the pub command (RunPublish in internal/mqttload/publish.go,  *)
(* publish_progress.go, internal/display/publish.go and the run function of *)
(* internal/cli/publish.go): connecting, then publishing, with the         *)
(* sampler, the progress display and the "stopping" line beside them.      *)
(*                                                                         *)
(* ConnectClients and PublishClient are composed over the shared context   *)
(* and the shared connections: connectClients hands over connections that  *)
(* are live, runClientPublish closes them.                                 *)
(***************************************************************************)
EXTENDS Integers, FiniteSets, Functions

CONSTANTS Clients, Limit, Count, InFlight, QoS, Paced

ASSUME ClientsAssumption  == IsFiniteSet(Clients) /\ Clients # {}
ASSUME LimitAssumption    == Limit \in Nat \ {0}
ASSUME CountAssumption    == Count \in Nat \ {0}
ASSUME InFlightAssumption == InFlight \in Nat \ {0}
ASSUME QoSAssumption      == QoS \in 0..2
ASSUME PacedAssumption    == Paced \in BOOLEAN

VARIABLES
    ctxDone, conn,
    \* connectClients
    dial, task, taskErr, groupErr, stored, connected, stage, result,
    \* the publish loops
    pc, sent, token, waiter, held, outstanding,
    published, acked, failed, timedOut, recorded,
    \* RunPublish and the progress value it reports on
    run,             \* where RunPublish stands
    connectFailed,   \* progress.connectFailed
    connectFinished, \* progress.connectFinished is closed
    publishStarted,  \* progress.publishStartedAt is set
    finished,        \* progress.finishedAt is set
    done,            \* progress.done is closed
    runErr,          \* what RunPublish returned
    \* the sampler goroutine
    sampler, sampled, ackedPerInterval,
    \* the display goroutine
    display, connectBar, bar, logged,
    \* the command
    cli, runFinished, stopLine, report, exitErr

Connect == INSTANCE ConnectClients
Client  == INSTANCE PublishClient

connectVars == <<dial, task, taskErr, groupErr, stored, connected, stage, result>>
loopVars    == <<pc, sent, token, waiter, held, outstanding,
                 published, acked, failed, timedOut, recorded>>
runVars     == <<run, connectFailed, connectFinished, publishStarted, finished, done, runErr>>
samplerVars == <<sampler, sampled, ackedPerInterval>>
displayVars == <<display, connectBar, bar, logged>>
cliVars     == <<cli, runFinished, stopLine, report, exitErr>>
vars == <<ctxDone, conn, connectVars, loopVars,
          runVars, samplerVars, displayVars, cliVars>>

\* Every client's counters added together, as PublishProgress.Snapshot does.
Total(counter) == SumFunction(counter)
Counts == [published |-> Total(published), acked |-> Total(acked),
           failed |-> Total(failed), timedOut |-> Total(timedOut)]
NoCounts == [published |-> -1, acked |-> -1, failed |-> -1, timedOut |-> -1]

\* What BuildPublishReport takes from the counters, the latency buckets and the
\* samples.
Report   == [counts |-> Counts, latencies |-> Total(recorded), sampled |-> ackedPerInterval]
NoReport == [counts |-> NoCounts, latencies |-> -1, sampled |-> -1]

RunStates == {"connecting", "connected", "starting", "publishing", "finishing",
              "closing", "sampling", "returned"}
RunErrors == {"none", "nil", "connectError", "publishError", "reportError"}

TypeOK ==
    /\ Connect!TypeOK
    /\ Client!TypeOK
    /\ run \in RunStates
    /\ runErr \in RunErrors /\ exitErr \in RunErrors
    /\ {connectFailed, connectFinished, publishStarted, finished, done, runFinished}
         \subseteq BOOLEAN
    /\ sampler \in {"none", "running", "stopped"}
    /\ sampled \in Nat /\ ackedPerInterval \in Nat \cup {-1}
    /\ bar \in Nat /\ connectBar \in 0..Cardinality(Clients)
    /\ display \in {"connectBar", "publishBar", "summary", "stopped"}
    /\ stopLine \in {"waiting", "logged", "over"}
    /\ cli \in {"running", "waiting", "reporting", "exited"}

Init ==
    /\ Connect!Init
    /\ Client!InitLoops
    /\ run = "connecting" /\ runErr = "none"
    /\ connectFailed = FALSE /\ connectFinished = FALSE
    /\ publishStarted = FALSE /\ finished = FALSE /\ done = FALSE
    /\ sampler = "none" /\ sampled = 0 /\ ackedPerInterval = -1
    /\ display = "connectBar" /\ connectBar = 0 /\ bar = 0 /\ logged = NoCounts
    /\ cli = "running" /\ runFinished = FALSE /\ stopLine = "waiting"
    /\ report = NoReport /\ exitErr = "none"

-----------------------------------------------------------------------------
(* RunPublish.                                                             *)

\* The steps of connectClients and its tasks.
ConnectStep ==
    /\ Connect!GroupStep \/ \E c \in Clients : Connect!TaskStep(c)
    /\ UNCHANGED <<loopVars, runVars, samplerVars, displayVars, cliVars>>

RunFrame == UNCHANGED <<ctxDone, conn, connectVars, loopVars, displayVars, cliVars>>

\* Mutant: publishing starts with the first client that is stored.
MarkConnectedEarly ==
    /\ run = "connecting"
    /\ stored # {}
    /\ publishStarted' = TRUE
    /\ run' = "connected"
    /\ UNCHANGED <<connectFailed, connectFinished, finished, done, runErr, samplerVars>>
    /\ RunFrame

\* finishConnecting stores its verdict before it closes connectFinished.
MarkConnected ==
    /\ run = "connecting"
    /\ stage = "returned"
    /\ IF result = "ok"
       THEN publishStarted' = TRUE /\ UNCHANGED connectFailed
       ELSE connectFailed' = TRUE /\ UNCHANGED publishStarted
    /\ run' = "connected"
    /\ UNCHANGED <<connectFinished, finished, done, runErr, samplerVars>>
    /\ RunFrame

\* Mutant: connectFinished is only closed when publishing starts.
CloseWhenStarted ==
    /\ run = "connected"
    /\ connectFinished' = ~connectFailed
    /\ run' = IF connectFailed THEN "finishing" ELSE "starting"
    /\ UNCHANGED <<connectFailed, publishStarted, finished, done, runErr, samplerVars>>
    /\ RunFrame

\* Closing connectFinished releases the display.
CloseConnectFinished ==
    /\ run = "connected"
    /\ connectFinished' = TRUE
    /\ run' = IF connectFailed THEN "finishing" ELSE "starting"
    /\ UNCHANGED <<connectFailed, publishStarted, finished, done, runErr, samplerVars>>
    /\ RunFrame

\* The sampler goroutine is started before the publish loops.
StartSampler ==
    /\ run = "starting"
    /\ sampler' = "running"
    /\ run' = "publishing"
    /\ UNCHANGED <<connectFailed, connectFinished, publishStarted, finished, done, runErr,
                   sampled, ackedPerInterval>>
    /\ RunFrame

\* The publish loops run between their start and waitGroup.Wait.
LoopStep(c) ==
    /\ run = "publishing"
    /\ Client!SendStep(c)
    /\ UNCHANGED <<connectVars, runVars, samplerVars, displayVars, cliVars>>

WaiterStep(c, m) ==
    /\ Client!WaitStep(c, m)
    /\ UNCHANGED <<connectVars, runVars, samplerVars, displayVars, cliVars>>

\* waitGroup.Wait returns, then finish sets finishedAt before it closes done.
Finish ==
    /\ \/ run = "publishing" /\ Client!AllDone
       \/ run = "finishing"
    /\ finished' = TRUE
    /\ run' = "closing"
    /\ UNCHANGED <<connectFailed, connectFinished, publishStarted, done, runErr, samplerVars>>
    /\ RunFrame

\* A failed connect returns here, as an error unless Ctrl-C has been pressed.
CloseDone ==
    /\ run = "closing"
    /\ done' = TRUE
    /\ IF connectFailed
       THEN run' = "returned" /\ runErr' = IF ctxDone THEN "nil" ELSE "connectError"
       ELSE run' = "sampling" /\ UNCHANGED runErr
    /\ UNCHANGED <<connectFailed, connectFinished, publishStarted, finished, samplerVars>>
    /\ RunFrame

\* Mutants: the sampler is not waited for, and timeouts are not errors.
ReturnWithSampler ==
    /\ run = "sampling"
    /\ runErr' = IF Counts.failed + Counts.timedOut > 0 THEN "publishError" ELSE "nil"
    /\ run' = "returned"
    /\ UNCHANGED <<connectFailed, connectFinished, publishStarted, finished, done, samplerVars>>
    /\ RunFrame
ReturnOnFailures ==
    /\ run = "sampling"
    /\ sampler = "stopped"
    /\ runErr' = IF Counts.failed > 0 THEN "publishError" ELSE "nil"
    /\ run' = "returned"
    /\ UNCHANGED <<connectFailed, connectFinished, publishStarted, finished, done, samplerVars>>
    /\ RunFrame

\* <-samplerStopped, and the final summary decides the error.
Return ==
    /\ run = "sampling"
    /\ sampler = "stopped"
    /\ runErr' = IF Counts.failed + Counts.timedOut > 0 THEN "publishError" ELSE "nil"
    /\ run' = "returned"
    /\ UNCHANGED <<connectFailed, connectFinished, publishStarted, finished, done, samplerVars>>
    /\ RunFrame

RunStep ==
    \/ ConnectStep \/ MarkConnected \/ CloseConnectFinished \/ StartSampler
    \/ Finish \/ CloseDone \/ Return

-----------------------------------------------------------------------------
(* sampleTotal, on its own goroutine.                                      *)

\* The ticker fires: the growth since the last sample is appended.
Sample ==
    /\ sampler = "running"
    /\ sampled' = Counts.acked
    /\ UNCHANGED <<sampler, ackedPerInterval, runVars>>
    /\ RunFrame

\* done is closed: the samples are stored, the last partial interval is dropped.
StopSampler ==
    /\ sampler = "running"
    /\ done
    /\ sampler' = "stopped"
    /\ ackedPerInterval' = sampled
    /\ UNCHANGED <<sampled, runVars>>
    /\ RunFrame

-----------------------------------------------------------------------------
(* RunPublishProgress, on the display goroutine.                           *)

DisplayFrame == UNCHANGED <<ctxDone, conn, connectVars, loopVars,
                            runVars, samplerVars, cliVars>>

\* Mutant: the connect bar ends when it is full.
EndFullConnectBar ==
    /\ display = "connectBar"
    /\ connectFinished \/ connected = Cardinality(Clients)
    /\ connectBar' = connected
    /\ display' = IF connectFailed THEN "stopped" ELSE "publishBar"
    /\ UNCHANGED <<bar, logged>>
    /\ DisplayFrame

\* A tick moves the connect bar to the number of connected clients.
TickConnectBar ==
    /\ display = "connectBar"
    /\ connectBar' = connected
    /\ UNCHANGED <<display, bar, logged>>
    /\ DisplayFrame

\* The connect bar ends with a last sample: only now is connectFailed looked at.
EndConnectBar ==
    /\ display = "connectBar"
    /\ connectFinished
    /\ connectBar' = connected
    /\ display' = IF connectFailed THEN "stopped" ELSE "publishBar"
    /\ UNCHANGED <<bar, logged>>
    /\ DisplayFrame

\* A tick moves the publish bar to the number of published messages.
TickPublishBar ==
    /\ display = "publishBar"
    /\ bar' = Counts.published
    /\ UNCHANGED <<display, connectBar, logged>>
    /\ DisplayFrame

\* Mutant: no last sample.
EndBarAsItIs ==
    /\ display = "publishBar"
    /\ done
    /\ display' = "summary"
    /\ UNCHANGED <<connectBar, bar, logged>>
    /\ DisplayFrame

\* The run is done: one last sample.
EndPublishBar ==
    /\ display = "publishBar"
    /\ done
    /\ bar' = Counts.published
    /\ display' = "summary"
    /\ UNCHANGED <<connectBar, logged>>
    /\ DisplayFrame

\* logPublishSummary writes the "pub stopped" line.
LogSummary ==
    /\ display = "summary"
    /\ logged' = Counts
    /\ display' = "stopped"
    /\ UNCHANGED <<connectBar, bar>>
    /\ DisplayFrame

DisplayStep == EndConnectBar \/ EndPublishBar \/ LogSummary

-----------------------------------------------------------------------------
(* The command.                                                            *)

CliFrame == UNCHANGED <<ctxDone, conn, connectVars, loopVars,
                        runVars, samplerVars, displayVars>>

\* RunPublish has returned: close(runFinished).
CloseRunFinished ==
    /\ cli = "running"
    /\ run = "returned"
    /\ runFinished' = TRUE
    /\ cli' = "waiting"
    /\ UNCHANGED <<stopLine, report, exitErr>>
    /\ CliFrame

\* <-displayStopped; the report is skipped when publishing never started.
AwaitDisplay ==
    /\ cli = "waiting"
    /\ display = "stopped"
    /\ IF connectFailed
       THEN cli' = "exited" /\ exitErr' = runErr
       ELSE cli' = "reporting" /\ UNCHANGED exitErr
    /\ UNCHANGED <<runFinished, stopLine, report>>
    /\ CliFrame

\* The report is built and written; a write error counts only without another.
WriteReport ==
    /\ cli = "reporting"
    /\ report' = Report
    /\ exitErr' \in IF runErr = "nil" THEN {"nil", "reportError"} ELSE {runErr}
    /\ cli' = "exited"
    /\ UNCHANGED <<runFinished, stopLine>>
    /\ CliFrame

CliStep == CloseRunFinished \/ AwaitDisplay \/ WriteReport

\* The goroutine that says once why the run is not over yet after Ctrl-C.
LogStopping ==
    /\ stopLine = "waiting"
    /\ ctxDone
    /\ stopLine' = "logged"
    /\ UNCHANGED <<cli, runFinished, report, exitErr>>
    /\ CliFrame

SkipStopping ==
    /\ stopLine = "waiting"
    /\ runFinished
    /\ stopLine' = "over"
    /\ UNCHANGED <<cli, runFinished, report, exitErr>>
    /\ CliFrame

StopLineStep == LogStopping \/ SkipStopping

-----------------------------------------------------------------------------
(* The environment, and the specification.                                 *)

BrokerStep ==
    \/ /\ \E c \in Clients : Connect!BrokerAccepts(c) \/ Connect!BrokerRefuses(c)
       /\ UNCHANGED <<loopVars, runVars, samplerVars, displayVars, cliVars>>
    \/ /\ \E c \in Clients, m \in Client!Messages : Client!BrokerAnswers(c, m)
       /\ UNCHANGED <<connectVars, runVars, samplerVars, displayVars, cliVars>>

Cancel ==
    /\ Connect!Cancel
    /\ UNCHANGED <<loopVars, runVars, samplerVars, displayVars, cliVars>>

Terminating == cli = "exited" /\ stopLine # "waiting" /\ UNCHANGED vars

Next ==
    \/ RunStep \/ Sample \/ StopSampler \/ TickConnectBar \/ TickPublishBar \/ DisplayStep
    \/ CliStep \/ StopLineStep
    \/ \E c \in Clients : LoopStep(c)
    \/ \E c \in Clients, m \in Client!Messages : WaiterStep(c, m)
    \/ BrokerStep \/ Cancel \/ Terminating

\* Goroutines are scheduled and timers fire.  A select that has both a tick and
\* a closed channel picks the channel sooner or later, hence StopSampler and
\* DisplayStep apart from the ticks.
Fairness ==
    /\ WF_vars(Connect!GroupStep /\ ConnectStep)
    /\ \A c \in Clients : WF_vars(Connect!TaskStep(c) /\ ConnectStep)
    /\ WF_vars(RunStep) /\ WF_vars(StopSampler) /\ WF_vars(DisplayStep)
    /\ WF_vars(CliStep) /\ WF_vars(StopLineStep)
    /\ \A c \in Clients : WF_vars(LoopStep(c))
    /\ \A c \in Clients, m \in Client!Messages : WF_vars(WaiterStep(c, m))

Spec == Init /\ [][Next]_vars /\ Fairness

-----------------------------------------------------------------------------
(* Properties.                                                             *)

\* No publish loop starts before every client is connected and connecting has
\* been reported as over, so the run's clock has started first.
PublishOnlyWhenAllConnected ==
    (\E c \in Clients : pc[c] # "idle") =>
        /\ result = "ok" /\ stored = Clients
        /\ connectFinished /\ publishStarted

\* The command leaves nothing behind: no open connection, no goroutine that
\* still waits for an ack, samples, or draws.
CleanExit ==
    cli = "exited" =>
        /\ \A c \in Clients : conn[c] # "live"
        /\ \A c \in Clients, m \in Client!Messages : waiter[c][m] \in {"none", "finished"}
        /\ sampler # "running"
        /\ display = "stopped"

\* The bars, the "pub stopped" line and the report, made by two goroutines from
\* counters that many others wrote, show the same final numbers.  The report has
\* one latency per ack, and its samples never exceed the acks.
NumbersAgree ==
    /\ display # "connectBar" => connectBar = connected
    /\ report # NoReport =>
         /\ report.counts = logged
         /\ bar = logged.published
         /\ logged.published = logged.acked + logged.failed + logged.timedOut
         /\ report.latencies = IF QoS = 0 THEN 0 ELSE logged.acked
         /\ report.sampled \in 0..logged.acked

\* The exit status tells the truth about the publishes: an error exactly when
\* one failed or timed out, unless nothing was ever published.
ExitTruthful ==
    cli = "exited" =>
        IF connectFailed
        THEN /\ Total(sent) = 0 /\ report = NoReport
             /\ exitErr = "nil" => ctxDone
        ELSE (exitErr = "publishError") <=> (report.counts.failed + report.counts.timedOut > 0)

\* The display decides between "publishing" and "failed" from a flag the run
\* set before it closed the channel the display waits on, and logs the summary
\* of a run that is over.
DisplayFollowsRun ==
    /\ display \in {"publishBar", "summary"} => publishStarted /\ ~connectFailed
    /\ display = "stopped" /\ logged = NoCounts => connectFailed
    /\ logged # NoCounts => finished /\ Client!AllDone

\* Once connecting succeeds, fails or is cancelled the command comes to its end,
\* whatever the broker does, and "this goroutine always exits" is true of the one
\* with the "stopping" line.
CommandReturns ==
    (ctxDone \/ groupErr # "none" \/ result = "ok")
        ~> (cli = "exited" /\ stopLine # "waiting")

\* "RunPublish returns an error when connecting fails" (publish.go): when a client
\* has failed to connect before Ctrl-C came, whatever comes after.
ConnectFailureReported ==
    [](groupErr = "failed" /\ ~ctxDone => [](run = "returned" => runErr = "connectError"))

=============================================================================
