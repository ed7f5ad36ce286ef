# A TLA+ verification of mqtt-load-generator

`mqtt-load-generator` is a Go command with three subcommands: `pub` connects many MQTT clients
and publishes load through them, `sub` counts what arrives, `dump` prints it. It is a small
program made almost entirely of concurrency: one goroutine per client, one per published
message, one callback goroutine per received message, a sampler, a display, and a Ctrl-C that
may come at any moment, joined by contexts, channels, a semaphore, wait groups and atomics. A
load generator whose counts are wrong by one is worth nothing, and its tests can hardly produce
the orders in which they would be. This project models that concurrency.

## 1. The system

| component | state | operations | used by |
|---|---|---|---|
| publish loop (`mqttload/publish.go`, `counters.go`, `pacer.go`) | per client: loop index, semaphore, WaitGroup, four counters, latency buckets | `runClientPublish`, `sendMessages`, `waitForResult`, `pacer.wait` | pub run |
| connecting (`mqttload/connect.go`, `broker/paho.go` `Dial`) | errgroup and its context, the slice of clients | `connectClients`, `disconnectAll`, `Dial` | pub run |
| pub run (`RunPublish`, `publish_progress.go`, `publish_stats.go`, `cli/publish.go`) | progress: two channels, flags, times; samples | `RunPublish`, `finishConnecting`, `finish`, `Snapshot`, `sampleTotal`, the run function | command |
| pub display (`display/publish.go`) | bars | `runConnectBar`, `runPublishBar`, `logPublishSummary` | its own goroutine |
| sub run (`mqttload/subscribe*.go`, `cli/subscribe.go`) | progress: counts, four times, `done`; stats | `RunSubscribe`, `recordMessage`, `recordLatency`, `subscribeAndWait`, `BuildSubscribeReport` | command, paho callbacks |
| sub display (`display/subscribe.go`) | bar, or baseline and previous count | `RunSubscribeBar`, `RunSubscribeLog` | its own goroutine |
| dump (`mqttload/dump.go`, `display/dump.go`) | the printer's mutex and failed flag, `printFailed` | `RunDump`, `Print` | command, paho callbacks |
| latency buckets (`latency_buckets.go`) | atomic counters, chunks installed by compare-and-swap | `record`, `addTo` | waiters, callbacks, reports |
| benchmark payload (`payload.go`, `subscribe_stats.go`) | none | generator, timestamp parser | publish loop, callbacks |
| reports (`publish_report.go`, `subscribe_report.go`) | none | arithmetic and JSON | command |
| configuration (`cli/config.go`, `environment.go`, `broker.go`) | flag values | validation, environment fallback, client IDs | command |
| TLS (`broker/tls.go`) | none | `brokerURL`, `buildTLSConfig` | `Dial` |
| process (`cmd/main.go`, `cli/root.go`) | whether signals are caught | `main` and its goroutine | |

How they interact. The command creates a progress value, starts a display goroutine that only
reads it, and calls the run function; the run closes the channels of the progress value, the
display ends, and only then the command builds a report from the same counters. All waiting is
of five kinds: a channel, a WaitGroup, the in-flight semaphore, an errgroup, a paho token. paho
(an external library) completes tokens and starts callbacks. One context, cancelled by the
first SIGINT or SIGTERM, reaches all of them.

What is hard about it, and what makes each component correct:

* *publish loop*: acknowledgements, errors, ack timeouts and Ctrl-C race over shared counters.
  Correct when every publish gets exactly one verdict, the slots are accounted for, and no
  connection is closed under a goroutine that still uses it.
* *connecting*: some clients connect while others fail or give up. Correct when failure leaves
  no connection open, and the error returned is the one that caused the stop.
* *pub run*: five goroutines end in an order nobody prescribes. Correct when the bar, the
  summary line, the report and the exit status agree, nothing is left running, and the command
  always ends.
* *sub run*: callbacks start before the subscribe is acknowledged and go on after Disconnect.
  Correct when channels are closed once, failed subscribes leave no trace of a run, and what the
  report reads is final.
* *dump*: parallel callbacks share one output. Correct when nothing follows a failed write and
  the failure ends the run.
* *sub display*: it shows growth and resets from counts that callbacks are moving. Correct when
  no message is lost or shown twice, and it resets only after silence.
* *latency buckets and payload*: a race to install memory, index arithmetic, and a number read
  from bytes anyone may have sent. Correct when no count is lost and each latency is reported
  once, at its place in the histogram's layout.
* *configuration and TLS*: five flags, three of them with a variable, decide in two packages whether
  and how a connection is encrypted. Correct when nothing asked for is dropped and nothing else is done.
* *process*: a first signal stops cleanly, a second one kills. Correct when one signal never
  leaves a connection behind, the process always ends, and its status tells the truth.

`PROJECT.json` lists every hazard with its line and the properties that would catch it.

## 2. The modules

| module | models | extends or composes |
|---|---|---|
| `PublishClient` | the publish loops of all connected clients | |
| `PublishLedger` | what a publishing client promises, without goroutines | implemented by `PublishClient` (`Ledger`, `ImplementsLedger`) |
| `PublishClientProofs` | theorems about `PublishClient` | extends `PublishClient` |
| `ConnectClientsProofs` | theorems about `ConnectClients` | extends `ConnectClients` |
| `NumberTheorems` | theorems about sums over finite sets, which totals are, and about powers and quotients | |
| `PublishRunProofs` | theorems about `PublishRun` | extends `PublishRun` and `NumberTheorems`; instances of `ConnectClientsProofs` and `PublishClientProofs` |
| `PublishSnapshotProofs` | theorems about `PublishSnapshot` | extends it, `PublishClientProofs` and `NumberTheorems` |
| `SubscribeRunProofs` | theorems about `SubscribeRun` | extends `SubscribeRun` |
| `CommandProofs` | theorems about `DumpRun` and `Command` | extends `Command` |
| `LatencyStatsProofs` | theorems about the latency counters, their geometry, the timestamps and the reports | extends `LatencyStats` and `NumberTheorems` |
| `ConnectClients` | `connectClients`, its errgroup, the waiting half of `Dial` | |
| `PublishRun` | the `pub` command | instances of `ConnectClients` and `PublishClient` over shared connections and context |
| `PublishSnapshot` | `sumPublishCounters` counter by counter, and the growth taken from it | extends `PublishClient` |
| `SubscribeRun` | the `sub` command, from a connected client on, with both displays | |
| `DumpRun` | `RunDump` with its printer | |
| `Configuration` | validation, environment, client IDs, TLS | |
| `Command` | the process: signals, the way to a connection, exit status | extends `Configuration` and `DumpRun` |
| `LatencyBuckets` | the index arithmetic of the latency counters | |
| `ChunkedBuckets` | the lock-free per-client counters and their reading | extends `LatencyBuckets` |
| `BenchmarkPayload` | the timestamp in a payload, written and read | |
| `LatencyStats` | all latencies of a run: shared and per-client counters, `pub` and `sub` | extends `ChunkedBuckets` and `BenchmarkPayload` |
| `MC...` | symmetry sets and constant values for TLC | |

One action stands for one step another goroutine can see: an atomic add, a channel operation,
a call into paho, a deferred call. The variables are named after the fields they stand for.
Program counters (`pc`, `waiter`, `task`, `callback`, `run`, `cli`) name the step a goroutine
takes next, or the one it has just done.

* `PublishClient`: `Acquire`, `Publish`, `CountPublished`, `Spawn`, `PauseOver` and
  `PauseCancelled` are the loop of `sendMessages`; `Drained` and `Disconnect` the end of
  `runClientPublish`; `CountTimedOut`, `CountFailed`, `RecordLatency`, `CountAcked` the three
  cases of `waitForResult`, `Release` and `WaiterDone` its deferred calls, in the order Go runs
  them. A timeout may fire although the answer is there: paho's select picks either.
* `ConnectClients`: the body of a task is `CheckPassed` or `Skip`, `Dial`, one of
  `DialAccepted`, `DialRefused`, `DialCancelled`, then `Record`, or `ReportError`, and `Finish`.
  The last two are errgroup's: the first error cancels the group's context before the task
  frees its place. Tasks are launched in any order, the code launches them by number: clients
  are interchangeable.
* `PublishRun`: `RunPublish` up to each channel it closes, with the value stored before the
  close as a step of its own (`MarkConnected` and `CloseConnectFinished`, `Finish` and
  `CloseDone`); the sampler, the display, the stop line and the command are goroutines beside
  it. `Snapshot` reads all counters in one step here; `PublishSnapshot` shows how far a
  snapshot of several steps can be from any single moment.
* `PublishSnapshot`: `LoadCounter` is one atomic load of `sumPublishCounters`, client by client
  and counter by counter; `UseSnapshot` is what the bar and `sampleTotal` do with a total.
* `SubscribeRun`: the callback of a message is eight steps, in the order of `recordMessage`,
  `recordLatency` and the two closes; `RunSubscribe` with its two deferred calls; the sampler;
  the report, whose values are read one after the other as `BuildSubscribeReport` does. The
  display is a bar (`BarTick`), or log lines: a tick carries its own time (`LogTick`), then
  `Snapshot` reads the count (`SnapshotReceived`) and later the time of the last message, on
  which `LogLine` decides with `buildRateReport`. A small clock gives the times their order.
  The record variables `progress`, `stats`, `display` and `cli` hold the fields and locals they
  stand for.
* `DumpRun`: `Print` with its mutex (`Lock`, `CheckFailed`, `Write`, `Unlock`), `onMessage`
  (`SendError`), `RunDump`. It has no specification run of its own but for the violation: the
  command that contains it is checked instead.
* `Configuration`: operators only, one per rule of `Connection.Validate`, and `Scheme` and
  `BuildTLSConfig` for what the settings come to. A flag that is not given and an empty one
  differ, because only the first falls back to its variable.
* `Command`: `NotifyContext`, `CancelContext`, `StopCatching`, `Return` and `Exit` are `main`
  with the two goroutines of its signals; `ApplyEnvironmentFallback`, `Validate` and `Dial` the
  way to a connection; then the steps of `DumpRun`, or for `pub` and `sub`, which have models of
  their own, only their return. `sub` and `dump` dial before they run; `pub` runs first, and
  `PubConnects` is its first client that connects, which may never come: it then returns the
  connect error, or nil when it was cancelled (`OtherReturns`). `Signal` is caught, dropped or deadly, by the moment it comes.
* `ChunkedBuckets`: `Load`, `InstallChunk`, `UseTheirs`, `Add` are `record`; `AddTo` reads all
  after the recording has finished. `LatencyStats` puts it behind the dense shared counters, as
  `waitForResult` does with `--per-client-stats` (`RecordAck`), and records the messages of
  `sub` by the timestamp in their payloads (`RecordLatency`). `AddToShared` is one step of the
  report's reading, a counter at a time. `pub` reads when `RunPublish` has waited for all waiters
  (`Finished`); nothing waits for the callbacks of `sub`, which may record before, between and
  after the steps of its reading.

External behaviour is modelled from how the code uses it: token completion (`BrokerAnswers`,
`BrokerAccepts`, `BrokerRefuses`), errgroup, and that paho starts callbacks from the Subscribe
call until Disconnect. That a cancelled `Dial` leaves nothing open (`NothingLeftOpen`,
`LeavesCleanly`) takes from paho that its `Disconnect(0)` has closed the connection, or given up the
pending dial, when it returns: `main` may call `os.Exit` right after. paho's reconnecting shows only as tokens that fail late or never answer.

Definitions marked "Mutant" are plausible bugs of the definition that follows them. They are
part of no specification. Each property fails when a definition is replaced by one of its
mutants, which shows that the property can fail.

## 3. Model checking

| run | instance | properties |
|---|---|---|
| `PublishClient_safety` | 2 clients, 2 messages, 1 slot, QoS 1, paced | `TypeOK`, `EveryPublishSettled`, `NoDisconnectUnderLoad`, `SlotsAccounted`, `VerdictsTruthful`, `LatencyPerAck` |
| `PublishClient_window` | 1 client, 3 messages, 2 slots, QoS 0, not paced | `ImplementsLedger`, `StopsSending`, `RunEnds` |
| `PublishSnapshot` | 2 clients, 1 message each, 2 snapshots | `SnapshotsBetween`, `GrowthAddsUp` |
| `ConnectClients` | 3 clients, 2 at a time | `NothingLeftOpen`, `SuccessMeansAll`, `CauseReported`, `FailuresWithinLimit`, `StopsAfterFailure` |
| `PublishRun` | 2 clients, 1 message each | `PublishOnlyWhenAllConnected`, `CleanExit`, `NumbersAgree`, `ExitTruthful`, `DisplayFollowsRun`, `CommandReturns` |
| `SubscribeRun` | 2 messages; unordered, `--count 1`, bar; or ordered, `--count 2`, log lines, clock | `ClosedOnce`, `StopsForAReason`, `FailureIsSilent`, `SamplesFinal`, `RatesAddUp`, `ResetInSilence`, `EndTimeKept`, `OrderedTimes`, `CommandReturns` |
| `Command` | all TLS flags and variables, client IDs, limits; 3 unordered messages, `--json`; up to 3 signals | `OneError`, `NothingAfterFailure`, `DialsAsAsked`, `LeavesCleanly`, `StatusTruthful`, `ProcessEnds` |
| `LatencyStats` | 3 waiters or callbacks, 8 latencies, 2 sub-buckets to the half, maximum 11, 4-bit words | `NothingLost`, `ReportMatchesLayout`, `TimestampsRead` |

Every property is explained where it is defined. Four more runs show disagreements, section 5.
The other modules state a `TypeOK` too; it holds in the runs above but says nothing the other
properties do not, so only that of the publish loop is listed. The others are proved in
section 4, as are `QueuedNeverDials` of
`ConnectClients` and `CountsNeverAhead` of `PublishClient`, which are not listed either.

Bounds. `Count` bounds the messages of a client, as the flag does; every other counter follows
from it. Two messages and one slot make the second message wait for the first one's slot; three
messages and two slots let verdicts come out of order. Two clients are enough to have one at
any step while the other is at any other, and clients share nothing but the context. Three
connecting clients through two places are one that fails, one that connects meanwhile, and one
in the queue. Two snapshots are one and the one its growth is taken from. Two callbacks are
the pairs that race for number 1 and for the count; without `--ordered` the count is 1, so the one
that is still running when the run stops is always the higher number. The clock (`MaxTime`, one bound per setting)
only moves where times are compared, and only as far as earlier and later need. `ResetAfter` is
`--reset-after` rounded down to the unit of the clock: 0 lets a reset come one unit after a
message, which is the smallest silence the clock can tell. Up to three signals are one that is
caught, one that is swallowed or kills, and one more. Three printing callbacks are one that fails
and two that wait for the mutex. The small histogram has the same three zones as the real one (the
first bucket, later buckets, beyond the maximum), and its latencies lie on both sides of the
borders; the real geometry (7 bits, 3 600 000 000) is outside TLC's integers. The report loads one counter
per step, so that callbacks of `sub` come between any two of them. The
parser's word is scaled in the same way: the code lets 19 decimal digits into 64 unsigned bits,
where 20 wrap around; here 2 digits to the base of 3 go into 4 bits, of which 3 hold the
result, and 3 digits wrap around, so all three comparisons of the parser matter. The numerals are
one on each side of each of them, and of the time of arrival.

Fairness. Weak fairness of each goroutine's own steps: Go's scheduler runs every goroutine that
can run, and timers fire, so a step guarded only by a timeout is fair too. A select with a
ticker and a closed channel takes the channel eventually; the ticks themselves are not fair.
The `sub` display that logs leaves its select for the length of a tick, so its end (`EndDisplay`) is
enabled again and again rather than always, and takes strong fairness: among the cases that are
ready a Go select picks at random. Broker answers, signals, arriving messages and the clock are
never fair. `CommandReturns`, `RunEnds`, `StopsAfterFailure` and `ProcessEnds` therefore hold
for a broker that never answers anything. `ProcessEnds` takes from the models of `pub` and `sub`
that they return once cancelled, which `CommandReturns` shows of each.

## 4. Proofs

Every safety property of every run that is expected to pass is proved for every value of the
constants, the action properties included, and so is every `TypeOK`. Each proof module has one
inductive invariant for each specification it is about, in named parts, with a theorem that says
it always holds; the properties follow from it, or for the action properties from it and one
step. `PROJECT.json` names the theorem of each property.

| module | inductive invariant | theorems |
|---|---|---|
| `PublishClientProofs` | `IInv` | `Invariant`, `TypeCorrect`, `PublishesSettled`, `DisconnectWaits`, `SlotsAccountedFor`, `VerdictsTruth`, `LatencyForEveryAck`, `NeverAhead`, `Stopping`, `LedgerImplemented` |
| `ConnectClientsProofs` | `IInv` | `Invariant`, `TypeCorrect`, `NothingOpen`, `AllOrNothing`, `TrueCause`, `FailuresLimited`, `QueuedStaysIdle` |
| `PublishRunProofs` | `IInv` | `Invariant`, `AllConnectedFirst`, `LeavesNothingBehind`, `SameNumbersEverywhere`, `TruthfulExit`, `DisplayFollows` |
| | with `ShownTypes` | `TypeCorrect` |
| | | `RunSettlesPublishes`, `RunNeverClosesUnderLoad`, `RunAccounts`, `RunStopsSending`, `RunConnects`, `RunImplementsLedger` |
| `PublishSnapshotProofs` | `SnapshotInv` | `SnapshotInvariant`, `TornByWhatHappened`, `GrowthIsTotal` |
| `SubscribeRunProofs` | `IInv` | `Invariant`, `TypeCorrect`, `PlainCloseIsSafe`, `ReasonToStop`, `SilentFailure`, `SamplesComplete`, `RatesComplete`, `EndTimeFinal`, `TimesInOrder`, `ResetOnlyInSilence` |
| `CommandProofs` | `PrinterInv` | `DumpInvariant`, `DumpTypeCorrect`, `FirstErrorOnly`, `SilentAfterFailure` |
| | `ProcessInv` | `ProcessInvariant`, `CleanLeave`, `TruthfulStatus`, `FirstErrorOnlyInProcess`, `SilentAfterFailureInProcess`, `AsAsked` |
| `LatencyStatsProofs` | | `IndexInRange`, `PlacedByLayout`, `RoundTrip` |
| | `ChunkInv` | `ChunksInOrder`, `NothingIsLost` |
| | `StatsInv`, given `ChunkInv` | `StatsInvariant`, `ReportsMatchLayout`, `TimestampsAreRead`, `TypeCorrect` |
| `NumberTheorems` | | `SumStep`, `SumNat`, `SumRemove`, `SumZero`, `SumPlus`, `SumSame`, `SumMonotone`, `SumOfCounts` |

Assumptions. They are the `ASSUME`s of the modules, which TLC evaluates in every run: there are
finitely many clients and messages; counts, limits and windows are positive, as `Validate` in
`cli/config.go` makes sure; QoS is 0, 1 or 2. `SubscribeRun` assumes nothing of its settings
but their types, and a bound of its clock for each. `Command` assumes of the invocations that
they have the types of the Go structs (`AllSettings`): no rule of validation is assumed, the
proof shows which ones `DialsAsAsked` needs. `LatencyBuckets` assumes of its geometry, which the
code fixes, that the counters are whole chunks and that there is one for the greatest latency;
that there is one for every other latency, and that no latency is counted below another's, is
proved. `BenchmarkPayload` assumes of the parser's numbers what makes it right: `MaxDigits` digits
fit the word, and the greatest result has no more digits than that (`DigitsAssumption`; in the code
10^19 <= 2^64 and 2^63 - 1 < 10^19). `LatencyStats` assumes of the messages their types only:
any payload the parser can tell from another, any arrival.

The publish loop. None of the invariants is inductive: that the counters add up when a
connection closes depends on the WaitGroup, and `held <= InFlight` on which waiters have
released. `IInv` says that each of them counts a set of messages by where its waiter stands:
`held` the ones that have not released (and the one being published), `outstanding` the ones not
done, `acked + failed + timedOut` the settled ones, `recorded` and `acked` the ones that can have
one by their token. It also ties the waiters to the sender: the messages with a waiter are
exactly the first `sent` ones, or all but the last while it is being counted. A step of a waiter
moves one message from one of these sets to another, and `MovedWaiter` and `FewerMessages` say
what that does to their cardinalities; each step changes the counter by the same amount. At
`outstanding = 0` all waiters have finished, which is all the safety properties need.
`OneClient` reduces a step to the client that takes it, so each action is proved once for one
client. `LoopInv` is the part of `IInv` that says nothing of who opens and closes connections:
it holds in every module that lets the loops run. With `ClosedInv`, that no connection is closed
between a loop's start and its end, it is `ServedInv`, which is all the promises need.

Connecting. The properties speak of the end; `TaskInv` and `ConnInv` say what each task has
done, and in whose hands its connection is, at every step on the way: a live connection belongs
to a task that is about to store it, is stored, or has been closed by the dial that gave it up.
That the first error of the group is never a cancellation caused by another error (`CauseInv`)
needs that a task can only be cancelled by a group that has its error already. `LimitInv` bounds
the refused dials together with those that can still be refused (`AtRisk`): a failed task
cancels the group before it frees its place, so no place is used twice for a failure.

The pub command. `PublishRun` runs the actions of both modules over shared connections and one
context. `PublishRunProofs` takes their invariants and the lemmas about their steps through
`INSTANCE`; `PartsAssumed`, `ConnectSteps` and `LoopSteps` say that the instances mean the same.
What the parts do to each other is one conjunct, `HandoverInv`: a loop only runs on a connection
that connecting has handed over, and then only its loop closes it. The other conjuncts say what
the run, the sampler, the display and the command have seen by the time they stand where they
stand. That bar, summary and report agree rests on `FinalTotals`: at the end the totals of the
clients add up, because the counts of each client do.

`PublishClient` alone starts with open connections; in the command connecting opens them, and
closes them again if it fails, when loops have not started. `LoopsServed` says that `HandoverInv`
is enough for the loops, so everything they promise alone they promise in the command
(`RunSettlesPublishes` and the theorems after it). `RunImplementsLedger` is the refinement: every
step of the command, a connection closed by a cancelled dial or by the tear-down included
(`LedgerCloseUnused`), is a step of `PublishLedger` or none. Connecting keeps its promises about
failure (`RunConnects`); its `SuccessMeansAll` is meant to stop holding when the loops disconnect.

Totals and snapshots. A total is a fold over the clients. Its properties need induction over
finite sets, which `NumberTheorems` does without a theorem that takes an operator: of the subsets
for which a statement fails there is a smallest one (`Smallest`, from the well-foundedness of the
strict subset relation), and taking an element out of it gives a smaller one. `SumExists` and
`SumUnique` show in this way that the function by which the library defines its folds exists.
`PublishSnapshotProofs` compares an unfinished sum with the counters it already holds, of which it
is at most the sum now, and with the ones still to come: with them it is at least what the total
was when it began (`Reading`). A load moves one counter from one side to the other, a step of a
client raises counters only (`CountersGrow`), whichever side they are on.

The sub command. `IInv` has a part for each goroutine. `CallsInv` says that each number is handed
out once and that only its owner closes a channel, `CountsInv` that each counter is the number of
callbacks past its step, `ClockInv` and `OrderedInv` how the stored times lie. `DisplayInv` keeps
`rated`, all growth shown so far, equal to the baseline and the previous count at each of the
display's steps.

dump and the process. `PrinterInv` follows the one error of a run: it is with its callback, in
the channel, or returned, and while it exists no callback that had found the printer in order is
still about to write, because it would hold the mutex. `ProcessInv` takes the lemmas
about the steps of dump and adds the process: between the command line and the dial
the settings are those of an invocation, completed and then validated (`SettingsInv`), and
`ValidTLS` shows of all settings, without a step, that the validated ones are dialled as they ask.
`ConnectionInv` and `StatusInv` say who can be without a connection where: only `pub` runs without
one, and what it then returns `Command` takes from `PublishRun`, where `ExitTruthful` shows it.

The latency counters. The geometry is powers of 2, of which the prover knows nothing: `2^n` is
the number of subsets of n things (`PowerIsSubsets`), and `PowerStep`, `PowerExceeds` and
`PowersInOrder` in `NumberTheorems` follow from counting them. `BucketOf` and `SubBucketOf` say
what the minimum and the division in `CountsIndex` give, from which `IndexInRange` follows;
`PlacedByLayout` shows that the two index functions of the code undo each other up to the width of
a sub-bucket. `NothingLost` is not inductive, because a waiter that is about to add must hold the
chunk that is installed: `WaiterInv` says what a waiter knows of its slot where it stands,
`SlotInv` that a chunk is installed in one slot only, by a waiter that needed it and has not added
before, and that a chunk which lost the race is empty.

The timestamps. What a digit is worth (`Place`) and what has been read after so many digits are
tables with one entry per digit. That the tables exist, and what an entry is, is shown by taking
the least entry for which it fails (`Least`; `PlaceExists`, `ReadExists`). `ReadsPrefix` says that
the word holds the digits read so far as long as there are no more than `MaxDigits`, so that it has
not wrapped around; `ReadsStated` that the parser therefore returns the number the digits state,
or that it has none to return. `NumeralLength` and `NextQuotient` say of the digits that `pub`
writes that they state the time they were made of, and `RoundTrip` that `sub` reads that time.

The reports. `CountersInv` says of every counter of the shared set how many waiters have recorded
there, `MessagesInv` the same of the two counters of unreadable and early messages, and that a
measured latency is the one the message states. `HistogramInv` is about a reading that is under
way: of the counters the cursor has passed (`Passed`), the histogram has at each value at least
those who had recorded when the reading began and at most those who have by now. A step that adds
a counter adds the same waiters to both (`AddKept`); one that records can only raise the upper
bound, if the cursor has passed its counter (`HistogramKept`). At the end the cursor has passed
all, and `PlacedByLayout` says where they landed. For `sub` the two bounds are all there is to say;
for `pub` both are all waiters, because `RunPublish` waits for them before it returns, and the
report is exact. The report of one client adds up the chunks in one step, when all have recorded:
`SumOfCounts` says that a sum of the sizes of disjoint sets is the size of their union, which with
`NothingLost` makes latencies of counters, and `ReportInv` keeps it right: nobody records after it.

Only checked by TLC: liveness (`RunEnds`, `StopsAfterFailure`, `CommandReturns`, `ProcessEnds` and
the fair half of `ImplementsLedger`), which is beyond the prover, and the properties of the runs
of section 5, which do not hold.

## 5. Where the code and its words disagree

Four runs are expected to violate their property, which is a sentence of the repository:

* `PublishRun_connectError`: "RunPublish returns an error when connecting fails". Of two clients
  that connect, one fails, and Ctrl-C comes after that, before `RunPublish` looks at its context
  (`connectClients` may still be waiting for the other client, or disconnecting it): the failure is
  returned as success. "Failed" is any error of `Dial`; the model does not ask which one.
* `SubscribeRun_elapsed`: the report says "when the first message arrived and when `sub`
  stopped, how long that was". A first message may arrive after the stop and before Disconnect:
  the time is negative.
* `SubscribeRun_recording`: "Call it only after all recording has finished" of the latency
  buckets. Callbacks that run at Disconnect may record while, or after, the report reads. How wrong the
  report can be, `ReportMatchesLayout` says: it misses at most what was recorded meanwhile.
* `DumpRun_failure`: "If printer.Print returns an error, RunDump stops and returns it". With
  Ctrl-C and the error both ready, the select may drop the error. In the trace Ctrl-C comes first,
  and a message that arrives before `RunDump` is at its select cannot be written.

More observations, without a run:

* The goroutine with the "stopping" line (`cli/publish.go:91`) always ends, as its comment says,
  but may do so after the command has returned.
* "a second Ctrl-C kills the process right away" (`cmd/main.go:18`): not one that comes between
  the cancellation and `stopCatchingSignals`, which is swallowed; the third one then kills.
* "All three files must be set together; cli's Connection.Validate rejects a partial set"
  (`broker/tls.go:10-11`, likewise `broker/broker.go:48-50` and `cli/config.go:26`):
  `Validate` accepts `--mqtts --ca`, and `--mqtts --cert --key`, and `buildTLSConfig` does the
  right thing with them, as `DialsAsAsked` shows. `broker/broker.go:39-41` says `MQTTS` counts
  only when no file is set.
* `cli/broker.go:55-57` names `Connection.Validate` for the rule that one client ID needs one
  client; it is `Publish.ValidateWithConnection`, which only `pub` calls and only `pub` needs.
* "once nothing has arrived for resetAfter" (`display/subscribe.go:64-65`): a message whose
  callback has not stored its time yet is not seen, so a reset may come just after it arrived;
  `ResetInSilence` says exactly when. Nothing is lost by it (`RatesAddUp`).
* `--size` with `--benchmark`: the padding is 50 bytes less than the size (`payload.go:47`), the
  text around it 40 with today's timestamps, so a payload is 10 bytes short of its size, or 40
  bytes long when the size is 50 or less.

## 6. Not modelled

* Durations and floats: in-flight wait, connect times, elapsed times of `pub`, the pacer's
  random pauses (only whether it can block), the conversion of `--reset-after` and
  `--keepAliveTimeout`. TLA+ has no floating point, and no property of the order of steps
  depends on them.
* The arithmetic of the reports over final numbers (percentiles, rates, per-client lists) and
  their JSON; what is read and when is modelled.
* Layout and wording: how bars are drawn, how `dump` escapes a payload.
* The length of payloads, and the random ones of `pub` without `--benchmark`.
* Parsing of flags (cobra), username and password (they fall back as the files do), the
  contents of certificate files.
* The width of integers outside the timestamp parser.
* paho itself: its keep-alive, its reconnecting, its resending.

## 7. Plan

Done: every component's control, and proofs of the safety properties of all of them. What could
come next:

1. The arithmetic of the reports over final numbers, where it can round or divide by zero.
2. `SubscribeRun` behind `ConnectClients`' half of `Dial`, as `PublishRun` is, so that the connect
   of `sub` is a step of its model and not of `Command` alone.
