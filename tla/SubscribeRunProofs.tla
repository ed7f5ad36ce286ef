------------------------- MODULE SubscribeRunProofs -------------------------
(* Theorems about SubscribeRun for every set of messages, every setting of  *)
(* the flags, every --reset-after and every bound on the clock.             *)
EXTENDS SubscribeRun, FiniteSetTheorems, TLAPS

-----------------------------------------------------------------------------
(* The inductive invariant, one part for each goroutine: what it has done   *)
(* by the time it stands where it stands, and what the others rely on.      *)

Places     == {"none", "arrived", "counted", "sized", "last", "first", "measured",
               "firstClosed", "finished"}
Connected  == {"starting", "waiting", "stopping", "closing", "joining"}
Deferred   == {"disconnecting", "ending", "finishing", "returned"}
RunPlaces  == {"subscribing", "subscribed"} \cup Connected \cup Deferred
RunErrors  == {"none", "nil", "timeout", "refused"}
Reporting  == {"times", "stats", "latency", "writing"}
CliPlaces  == {"running", "displayed", "counts", "exited"} \cup Reporting

\* The shape of every variable.
Callbacks == [at : Places, number : Nat, arrivedAt : Nat]

Shapes ==
    /\ flags \in Settings /\ now \in Nat \ {0} /\ ctxDone \in BOOLEAN
    /\ token \in {"pending", "ok", "error"} /\ conn \in {"live", "closed"}
    /\ callback \in [Messages -> Callbacks]
    /\ progress \in [received : Nat, receivedBytes : Nat, firstMessageAt : Nat,
                     lastMessageAt : Nat, subscribedAt : Nat, finishedAt : Nat, done : BOOLEAN]
    /\ stats \in [measured : Nat, unmeasured : Nat, perInterval : Int]
    /\ closes \in [firstArrived : Nat, countReached : Nat]
    /\ run \in [at : RunPlaces, err : RunErrors, over : BOOLEAN]
    /\ sampler \in [at : {"none", "waiting", "sampling", "stopped"}, total : Nat]
    /\ display \in [at : {"drawing", "ticked", "snapshot", "stopped"}, tickAt : Nat, seen : Nat,
                    baseline : Nat, previousCount : Nat, rated : Int, summary : Int]
    /\ cli \in [at : CliPlaces, exitErr : RunErrors \cup {"reportError"},
                report : [received : Int, startedAt : Int, finishedAt : Int, unmeasured : Int,
                          perInterval : Int, measured : Int]]

\* Numbers are handed out once, so that only one callback closes each channel.
CallsInv ==
    /\ \A m \in Messages : /\ callback[m].number = 0 <=> callback[m].at \in {"none", "arrived"}
                           /\ callback[m].number <= progress.received
    /\ \A m, n \in Messages :
          callback[m].number = callback[n].number /\ callback[m].number # 0 => m = n
    /\ closes.firstArrived # 0 =>
          /\ closes.firstArrived = 1
          /\ \E m \in Messages : /\ callback[m].number = 1
                                 /\ callback[m].at \in {"firstClosed", "finished"}
    /\ closes.countReached # 0 =>
          /\ closes.countReached = 1 /\ flags.count > 0
          /\ \E m \in Messages : /\ callback[m].number = flags.count
                                 /\ callback[m].at = "finished"

\* The callbacks that have made their way past the labels before S.
Past(S) == {m \in Messages : callback[m].at \in S}
Numbered == Places \ {"none", "arrived"}
Sized    == Numbered \ {"counted"}
Measured == {"measured", "firstClosed", "finished"}

\* Every counter is the number of callbacks that have added to it.
CountsInv ==
    /\ progress.received = Cardinality(Past(Numbered))
    /\ progress.receivedBytes = Cardinality(Past(Sized))
    /\ stats.measured + stats.unmeasured =
          IF flags.benchmark THEN Cardinality(Past(Measured)) ELSE 0

\* What has been recorded has happened already.
ClockInv ==
    /\ now <= MaxTime[flags]
    /\ \A m \in Messages : callback[m].arrivedAt <= now
    /\ progress.firstMessageAt <= now /\ progress.lastMessageAt <= now
    /\ progress.subscribedAt <= now /\ progress.finishedAt <= now /\ display.tickAt <= now

\* With --ordered there is one callback at a time, and it alone may know of a
\* time that is later than lastMessageAt.
OrderedInv ==
    flags.ordered =>
        /\ \A m, n \in InCallback : m = n
        /\ \A m \in Messages :
              IF callback[m].at \in {"arrived", "counted", "sized"}
              THEN progress.lastMessageAt <= callback[m].arrivedAt
              ELSE callback[m].arrivedAt <= progress.lastMessageAt
        /\ progress.firstMessageAt <= progress.lastMessageAt

StopReason == ctxDone \/ (flags.count > 0 /\ progress.received >= flags.count)

\* subscribedAt tells a run that subscribed from one that failed, and finishedAt
\* is set once the run has stopped.
RunInv ==
    /\ run.at \in {"subscribing", "subscribed"} => run.err = "none" /\ progress.subscribedAt = 0
    /\ run.at \in Connected => run.err = "none" /\ progress.subscribedAt # 0
    /\ run.at \in Deferred => run.err # "none" /\ (run.err = "nil" <=> progress.subscribedAt # 0)
    /\ progress.finishedAt # 0 => run.at \in {"closing", "joining"} \cup Deferred
    /\ progress.done <=> run.at = "returned"
    /\ run.at \in {"stopping", "closing", "joining"} \/ run.err = "nil" => StopReason

\* RunSubscribe does not return before its sampler has stopped.
SamplerInv ==
    /\ sampler.total <= progress.received /\ stats.perInterval <= progress.received
    /\ run.err = "nil" => sampler.at = "stopped"

\* What the display has shown is what it has seen.
DisplayInv ==
    /\ display.rated = display.baseline + display.previousCount
    /\ display.seen <= progress.received
    /\ display.at \in {"ticked", "snapshot"} => flags.disableBar
    /\ IF flags.disableBar
       THEN IF display.at = "snapshot" THEN display.rated <= display.seen
                                       ELSE display.rated = display.seen
       ELSE display.baseline = 0 /\ display.rated <= progress.received
    /\ display.summary = -1 \/ display.summary \in 0..progress.received
    /\ display.at = "stopped" => /\ progress.done
                                 /\ display.summary = -1 <=> progress.subscribedAt = 0
    /\ display.at # "stopped" => display.summary = -1

\* A report is made of a run that has subscribed and is over.
HasReport == cli.at \in Reporting \/ (cli.at = "exited" /\ run.err = "nil")

CliInv ==
    /\ cli.at # "running" => run.at = "returned" /\ display.at = "stopped"
    /\ cli.at \in {"counts"} \cup Reporting => run.err = "nil"
    /\ ~HasReport => cli.report = NoReport
    /\ HasReport => /\ cli.report.received >= display.summary
                    /\ cli.report.received >= stats.perInterval
                    /\ ctxDone \/ (flags.count > 0 /\ cli.report.received >= flags.count)
    /\ HasReport /\ cli.at \notin {"times", "stats"} => cli.report.perInterval = stats.perInterval
    /\ cli.at \in {"times", "stats", "latency"} => cli.report.measured = -1
    /\ cli.at = "exited" => IF run.err = "nil" THEN cli.exitErr \in {"nil", "reportError"}
                                               ELSE cli.exitErr = run.err

IInv ==
    /\ Shapes /\ CallsInv /\ CountsInv /\ ClockInv /\ OrderedInv
    /\ RunInv /\ SamplerInv /\ DisplayInv /\ CliInv

-----------------------------------------------------------------------------
(* Counting callbacks.                                                     *)

\* A set of callbacks has a size.
LEMMA CallbacksFinite ==
    ASSUME NEW S \in SUBSET Messages
    PROVE  IsFiniteSet(S) /\ Cardinality(S) \in 0..Cardinality(Messages)
<1>1. IsFiniteSet(S) /\ Cardinality(S) <= Cardinality(Messages)
  BY MessagesAssumption, FS_Subset
<1>2. Cardinality(S) \in Nat /\ Cardinality(Messages) \in Nat
  BY <1>1, MessagesAssumption, FS_CardinalityType
<1>. QED  BY <1>1, <1>2

\* A callback that gets past the labels before S is one more.
LEMMA OneMore ==
    ASSUME NEW m \in Messages, NEW S, callback[m].at \notin S, callback'[m].at \in S,
           \A n \in Messages \ {m} : callback'[n].at = callback[n].at
    PROVE  Cardinality(Past(S)') = Cardinality(Past(S)) + 1
<1>1. Past(S)' = Past(S) \cup {m} /\ m \notin Past(S)
  BY DEF Past
<1>2. IsFiniteSet(Past(S))
  BY CallbacksFinite DEF Past
<1>. QED  BY <1>1, <1>2, FS_AddElement

\* Nothing is added when no callback gets past them.
LEMMA NoneMore ==
    ASSUME NEW S, \A n \in Messages : callback'[n].at \in S <=> callback[n].at \in S
    PROVE  Past(S)' = Past(S)
BY DEF Past

-----------------------------------------------------------------------------
(* The invariant is inductive.                                             *)

\* The initial states satisfy the invariant.
LEMMA InitInv == Init => IInv
<1>. HAVE Init
<1>. USE DEF Init
<1>1. Shapes
  BY DEF Shapes, Callbacks, Places, RunPlaces, RunErrors, CliPlaces, NoReport
<1>2. CallsInv
  BY DEF CallsInv
<1>3. CountsInv
  <2>1. Past(Numbered) = {} /\ Past(Sized) = {} /\ Past(Measured) = {}
    BY DEF Past, Numbered, Sized, Measured
  <2>. QED  BY <2>1, FS_EmptySet DEF CountsInv
<1>4. ClockInv
  <2>1. MaxTime[flags] \in Nat \ {0}
    BY MaxTimeAssumption
  <2>. QED  BY <2>1 DEF ClockInv
<1>5. OrderedInv
  BY DEF OrderedInv, InCallback
<1>6. RunInv /\ SamplerInv
  BY DEF RunInv, SamplerInv, Connected, Deferred
<1>7. DisplayInv /\ CliInv
  BY DEF DisplayInv, CliInv, HasReport, Reporting
<1>. QED  BY <1>1, <1>2, <1>3, <1>4, <1>5, <1>6, <1>7 DEF IInv

\* What the callbacks do is seen by the others as more messages received.
LEMMA OthersUndisturbed ==
    ASSUME Shapes, Shapes', RunInv, SamplerInv, DisplayInv, CliInv,
           UNCHANGED <<flags, run, sampler, display, cli>>, ctxDone => ctxDone',
           progress'.received >= progress.received, progress'.done = progress.done,
           progress'.subscribedAt = progress.subscribedAt,
           progress'.finishedAt = progress.finishedAt, stats'.perInterval = stats.perInterval
    PROVE  RunInv' /\ SamplerInv' /\ DisplayInv' /\ CliInv'
<1>. USE DEF Shapes
<1>1. flags \in Flags
  BY SettingsAssumption
<1>2. RunInv'
  BY <1>1 DEF RunInv, StopReason, Flags
<1>3. SamplerInv'
  BY DEF SamplerInv
<1>4. DisplayInv'
  BY DEF DisplayInv
<1>5. CliInv'
  BY DEF CliInv, HasReport
<1>. QED  BY <1>2, <1>3, <1>4, <1>5

\* The callbacks do not look at what the other goroutines do.
LEMMA CallbacksUndisturbed ==
    ASSUME CallsInv, CountsInv, OrderedInv, UNCHANGED <<flags, callback, closes>>,
           progress'.received = progress.received,
           progress'.receivedBytes = progress.receivedBytes,
           progress'.firstMessageAt = progress.firstMessageAt,
           progress'.lastMessageAt = progress.lastMessageAt,
           stats'.measured = stats.measured, stats'.unmeasured = stats.unmeasured
    PROVE  CallsInv' /\ CountsInv' /\ OrderedInv'
<1>1. CallsInv'
  BY DEF CallsInv
<1>2. CountsInv'
  BY DEF CountsInv, Past
<1>3. OrderedInv'
  BY DEF OrderedInv, InCallback
<1>. QED  BY <1>1, <1>2, <1>3

\* The arrival of a message preserves the invariant: with --ordered no callback
\* is under way, and the clock has not moved back.
LEMMA ArriveInv ==
    ASSUME IInv, NEW m \in Messages, Arrive(m)
    PROVE  IInv'
<1>. USE DEF Arrive, ArriveOn, MessageFrame, At
<1>1. Shapes /\ CallsInv /\ CountsInv /\ ClockInv /\ OrderedInv
  BY DEF IInv
<1>2. /\ callback' = [callback EXCEPT ![m] = [@ EXCEPT !.at = "arrived", !.arrivedAt = now]]
      /\ callback \in [Messages -> Callbacks] /\ now \in Nat
      /\ callback[m].at = "none" /\ callback[m].number = 0
  BY <1>1 DEF Shapes, CallsInv
<1>3. /\ callback' \in [Messages -> Callbacks]
      /\ callback'[m].at = "arrived" /\ callback'[m].arrivedAt = now /\ callback'[m].number = 0
      /\ \A n \in Messages \ {m} : callback'[n] = callback[n]
  BY <1>2 DEF Callbacks, Places
<1>4. Shapes'
  BY <1>1, <1>3 DEF Shapes
<1>5. CallsInv'
  BY <1>1, <1>3 DEF Shapes, CallsInv
<1>6. CountsInv'
  <2>1. Past(Numbered)' = Past(Numbered) /\ Past(Sized)' = Past(Sized)
          /\ Past(Measured)' = Past(Measured)
    BY <1>2, <1>3, NoneMore DEF Numbered, Sized, Measured
  <2>. QED  BY <1>1, <2>1 DEF CountsInv
<1>7. ClockInv'
  BY <1>1, <1>2, <1>3 DEF Shapes, ClockInv
<1>8. OrderedInv'
  <2>. SUFFICES ASSUME flags.ordered PROVE OrderedInv'
    BY DEF OrderedInv
  <2>1. \A n \in Messages : callback[n].at \in {"none", "finished"}
    BY DEF InCallback
  <2>2. progress.lastMessageAt <= now
    BY <1>1 DEF ClockInv
  <2>3. InCallback' = {m}
    BY <1>3, <2>1 DEF InCallback
  <2>4. \A n \in Messages \ {m} : callback[n].arrivedAt <= progress.lastMessageAt
    BY <1>1, <2>1 DEF OrderedInv
  <2>. QED  BY <1>1, <1>3, <2>1, <2>2, <2>3, <2>4 DEF OrderedInv
<1>9. RunInv' /\ SamplerInv' /\ DisplayInv' /\ CliInv'
  BY <1>1, <1>4, OthersUndisturbed DEF IInv, Shapes
<1>. QED  BY <1>4, <1>5, <1>6, <1>7, <1>8, <1>9 DEF IInv

\* received.Add hands out a number that nobody has.
LEMMA CountMessageInv ==
    ASSUME IInv, NEW m \in Messages, CountMessage(m)
    PROVE  IInv'
<1>. USE DEF CountMessage, MessageFrame, At
<1>1. Shapes /\ CallsInv /\ CountsInv /\ ClockInv /\ OrderedInv
  BY DEF IInv
<1>. DEFINE k == progress.received + 1
<1>2. /\ callback' = [callback EXCEPT ![m] = [@ EXCEPT !.at = "counted", !.number = k]]
      /\ callback \in [Messages -> Callbacks] /\ callback[m].at = "arrived" /\ k \in Nat \ {0}
  <2>1. callback \in [Messages -> Callbacks] /\ progress.received \in Nat
    BY <1>1 DEF Shapes
  <2>2. callback' = [callback EXCEPT ![m] = [@ EXCEPT !.at = "counted", !.number = k]]
    BY <2>1 DEF Callbacks
  <2>3. callback[m].at = "arrived"
    OBVIOUS
  <2>4. k \in Nat \ {0}
    BY <2>1
  <2>. QED  BY <2>1, <2>2, <2>3, <2>4
<1>3. /\ callback' \in [Messages -> Callbacks]
      /\ callback'[m].at = "counted" /\ callback'[m].number = k
      /\ callback'[m].arrivedAt = callback[m].arrivedAt
      /\ \A n \in Messages \ {m} : callback'[n] = callback[n]
  BY <1>2 DEF Callbacks, Places
<1>4. /\ progress'.received = k
      /\ progress' = [progress EXCEPT !.received = k]
  BY <1>1 DEF Shapes
<1>. HIDE DEF k
<1>5. Shapes'
  BY <1>1, <1>2, <1>3, <1>4 DEF Shapes
<1>6. CallsInv'
  <2>1. \A n \in Messages \ {m} : callback'[n].number < k /\ callback'[n].number \in Nat
    BY <1>1, <1>3 DEF CallsInv, Shapes, Callbacks, k
  <2>2. \A n \in Messages : callback'[n].number <= progress'.received
    BY <1>3, <1>4, <2>1, <1>2
  <2>3. \A n \in Messages : callback'[n].number = 0 <=> callback'[n].at \in {"none", "arrived"}
    BY <1>1, <1>2, <1>3 DEF CallsInv
  <2>4. \A n, o \in Messages :
           callback'[n].number = callback'[o].number /\ callback'[n].number # 0 => n = o
    BY <1>1, <1>2, <1>3, <2>1 DEF CallsInv
  <2>5. closes' = closes /\ flags' = flags
    OBVIOUS
  <2>6. \A n \in Messages : callback[n].at \in {"firstClosed", "finished"} =>
           callback'[n] = callback[n]
    BY <1>2, <1>3
  <2>. QED  BY <1>1, <2>2, <2>3, <2>4, <2>5, <2>6 DEF CallsInv
<1>7. CountsInv'
  <2>1. Cardinality(Past(Numbered)') = Cardinality(Past(Numbered)) + 1
    BY <1>2, <1>3, OneMore DEF Numbered, Places
  <2>2. Past(Sized)' = Past(Sized) /\ Past(Measured)' = Past(Measured)
    BY <1>2, <1>3, NoneMore DEF Sized, Numbered, Measured, Places
  <2>3. progress'.receivedBytes = progress.receivedBytes
    BY <1>1, <1>4 DEF Shapes
  <2>. QED  BY <1>1, <1>4, <2>1, <2>2, <2>3 DEF CountsInv, k
<1>8. ClockInv' /\ OrderedInv'
  <2>1. /\ progress'.firstMessageAt = progress.firstMessageAt
        /\ progress'.lastMessageAt = progress.lastMessageAt
        /\ progress'.subscribedAt = progress.subscribedAt
        /\ progress'.finishedAt = progress.finishedAt
    BY <1>1, <1>4 DEF Shapes
  <2>2. ClockInv'
    BY <1>1, <1>3, <2>1 DEF ClockInv
  <2>3. InCallback' = InCallback
    BY <1>2, <1>3 DEF InCallback
  <2>4. OrderedInv'
    BY <1>1, <1>2, <1>3, <2>1, <2>3 DEF OrderedInv
  <2>. QED  BY <2>2, <2>4
<1>9. RunInv' /\ SamplerInv' /\ DisplayInv' /\ CliInv'
  <2>1. /\ progress'.received >= progress.received /\ progress'.done = progress.done
        /\ progress'.subscribedAt = progress.subscribedAt
        /\ progress'.finishedAt = progress.finishedAt
    BY <1>1, <1>4 DEF Shapes, k
  <2>. QED  BY <1>1, <1>5, <2>1, OthersUndisturbed DEF IInv
<1>. QED  BY <1>5, <1>6, <1>7, <1>8, <1>9 DEF IInv

\* The steps of a callback after its number.
AfterNumber(m) ==
    \/ CountBytes(m) \/ SetLastMessageAt(m) \/ SetFirstMessageAt(m)
    \/ RecordLatency(m) \/ CloseFirstArrived(m) \/ CloseCountReached(m)

\* They preserve the invariant: only the callback with number 1, and only the one
\* with number --count, close a channel.
LEMMA AfterNumberInv ==
    ASSUME IInv, NEW m \in Messages, AfterNumber(m)
    PROVE  IInv'
<1>. USE DEF AfterNumber, MessageFrame, At, Go
<1>1. Shapes /\ CallsInv /\ CountsInv /\ ClockInv /\ OrderedInv
  BY DEF IInv
<1>2. callback \in [Messages -> Callbacks]
  BY <1>1 DEF Shapes
<1>3. PICK to \in Places : callback' = [callback EXCEPT ![m].at = to] /\
        \/ callback[m].at = "counted" /\ to = "sized" /\ CountBytes(m)
        \/ callback[m].at = "sized" /\ to = "last" /\ SetLastMessageAt(m)
        \/ callback[m].at = "last" /\ to = "first" /\ SetFirstMessageAt(m)
        \/ callback[m].at = "first" /\ to = "measured" /\ RecordLatency(m)
        \/ callback[m].at = "measured" /\ to = "firstClosed" /\ CloseFirstArrived(m)
        \/ callback[m].at = "firstClosed" /\ to = "finished" /\ CloseCountReached(m)
  BY DEF CountBytes, SetLastMessageAt, SetFirstMessageAt, RecordLatency, CloseFirstArrived,
     CloseCountReached, CloseCountReachedWhen, Places
<1>4. /\ callback' \in [Messages -> Callbacks] /\ callback'[m].at = to
      /\ \A n \in Messages : /\ callback'[n].number = callback[n].number
                             /\ callback'[n].arrivedAt = callback[n].arrivedAt
      /\ \A n \in Messages \ {m} : callback'[n].at = callback[n].at
  BY <1>2, <1>3 DEF Callbacks
<1>5. /\ UNCHANGED <<flags, now, ctxDone, token, conn, run, sampler, display, cli>>
      /\ progress'.received = progress.received /\ progress'.done = progress.done
      /\ progress'.subscribedAt = progress.subscribedAt
      /\ progress'.finishedAt = progress.finishedAt
      /\ stats'.perInterval = stats.perInterval
  BY <1>1 DEF Shapes, CountBytes, SetLastMessageAt, SetFirstMessageAt, RecordLatency,
     CloseFirstArrived, CloseCountReached, CloseCountReachedWhen
<1>6. Shapes'
  <2>1. /\ progress \in [received : Nat, receivedBytes : Nat, firstMessageAt : Nat,
                         lastMessageAt : Nat, subscribedAt : Nat, finishedAt : Nat,
                         done : BOOLEAN]
        /\ callback[m].arrivedAt \in Nat
    BY <1>1, <1>2 DEF Shapes, Callbacks
  <2>2. \/ progress' = progress
        \/ progress' = [progress EXCEPT !.receivedBytes = @ + 1]
        \/ progress' = [progress EXCEPT !.lastMessageAt = callback[m].arrivedAt]
        \/ progress' = [progress EXCEPT !.firstMessageAt = callback[m].arrivedAt]
    BY <1>3 DEF CountBytes, SetLastMessageAt, SetFirstMessageAt, RecordLatency,
       CloseFirstArrived, CloseCountReached, CloseCountReachedWhen
  <2>3. progress' \in [received : Nat, receivedBytes : Nat, firstMessageAt : Nat,
                       lastMessageAt : Nat, subscribedAt : Nat, finishedAt : Nat,
                       done : BOOLEAN]
    BY <2>1, <2>2
  <2>4. \/ stats' = stats
        \/ stats' = [stats EXCEPT !.measured = @ + 1]
        \/ stats' = [stats EXCEPT !.unmeasured = @ + 1]
    BY <1>3 DEF CountBytes, SetLastMessageAt, SetFirstMessageAt, RecordLatency,
       CloseFirstArrived, CloseCountReached, CloseCountReachedWhen
  <2>5. stats' \in [measured : Nat, unmeasured : Nat, perInterval : Int]
    BY <1>1, <2>4 DEF Shapes
  <2>6. \/ closes' = closes
        \/ closes' = [closes EXCEPT !.firstArrived = @ + 1]
        \/ closes' = [closes EXCEPT !.countReached = @ + 1]
    BY <1>3 DEF CountBytes, SetLastMessageAt, SetFirstMessageAt, RecordLatency,
       CloseFirstArrived, CloseCountReached, CloseCountReachedWhen
  <2>7. closes' \in [firstArrived : Nat, countReached : Nat]
    BY <1>1, <2>6 DEF Shapes
  <2>. QED  BY <1>1, <1>4, <1>5, <2>3, <2>5, <2>7 DEF Shapes
<1>7. CallsInv'
  <2>1. /\ \A n \in Messages :
              /\ callback'[n].number = 0 <=> callback'[n].at \in {"none", "arrived"}
              /\ callback'[n].number <= progress'.received
        /\ \A n, o \in Messages :
              callback'[n].number = callback'[o].number /\ callback'[n].number # 0 => n = o
    BY <1>1, <1>3, <1>4, <1>5 DEF CallsInv
  <2>2. closes \in [firstArrived : Nat, countReached : Nat]
    BY <1>1 DEF Shapes
  <2>3. closes'.firstArrived # 0 =>
          /\ closes'.firstArrived = 1
          /\ \E n \in Messages : /\ callback'[n].number = 1
                                 /\ callback'[n].at \in {"firstClosed", "finished"}
    <3>1. CASE CloseFirstArrived(m) /\ callback[m].number = 1
      <4>1. callback[m].at = "measured" /\ to = "firstClosed"
        BY <1>3, <3>1 DEF CloseFirstArrived, CountBytes, SetLastMessageAt, SetFirstMessageAt,
           RecordLatency, CloseCountReached, CloseCountReachedWhen
      <4>2. closes.firstArrived = 0
        BY <1>1, <3>1, <4>1 DEF CallsInv
      <4>3. closes'.firstArrived = 1
        BY <2>2, <3>1, <4>2 DEF CloseFirstArrived
      <4>. QED  BY <1>4, <3>1, <4>1, <4>3
    <3>2. CASE ~(CloseFirstArrived(m) /\ callback[m].number = 1)
      <4>1. closes'.firstArrived = closes.firstArrived
        BY <1>3, <2>2, <3>2 DEF CountBytes, SetLastMessageAt, SetFirstMessageAt, RecordLatency,
           CloseFirstArrived, CloseCountReached, CloseCountReachedWhen
      <4>2. callback[m].at = "firstClosed" => to = "finished"
        BY <1>3
      <4>3. callback[m].at # "finished"
        BY <1>3
      <4>. QED  BY <1>1, <1>4, <4>1, <4>2, <4>3 DEF CallsInv
    <3>. QED  BY <3>1, <3>2
  <2>4. closes'.countReached # 0 =>
          /\ closes'.countReached = 1 /\ flags'.count > 0
          /\ \E n \in Messages : /\ callback'[n].number = flags'.count
                                 /\ callback'[n].at = "finished"
    <3>1. CASE CloseCountReached(m) /\ flags.count > 0 /\ callback[m].number = flags.count
      <4>1. callback[m].at = "firstClosed" /\ to = "finished"
        BY <1>3, <3>1 DEF CloseFirstArrived, CountBytes, SetLastMessageAt, SetFirstMessageAt,
           RecordLatency, CloseCountReached, CloseCountReachedWhen
      <4>2. flags \in Flags
        BY <1>1, SettingsAssumption DEF Shapes
      <4>3. closes.countReached = 0
        BY <1>1, <3>1, <4>1, <4>2 DEF CallsInv, Flags
      <4>4. closes'.countReached = 1
        BY <2>2, <3>1, <4>3 DEF CloseCountReached, CloseCountReachedWhen
      <4>. QED  BY <1>4, <1>5, <3>1, <4>1, <4>4
    <3>2. CASE ~(CloseCountReached(m) /\ flags.count > 0 /\ callback[m].number = flags.count)
      <4>1. closes'.countReached = closes.countReached
        BY <1>3, <2>2, <3>2 DEF CountBytes, SetLastMessageAt, SetFirstMessageAt, RecordLatency,
           CloseFirstArrived, CloseCountReached, CloseCountReachedWhen
      <4>2. callback[m].at # "finished"
        BY <1>3
      <4>. QED  BY <1>1, <1>4, <1>5, <4>1, <4>2 DEF CallsInv
    <3>. QED  BY <3>1, <3>2
  <2>. QED  BY <2>1, <2>3, <2>4 DEF CallsInv
<1>8. CountsInv'
  <2>1. Past(Numbered)' = Past(Numbered)
    BY <1>3, <1>4, NoneMore DEF Numbered, Places
  <2>2. CASE CountBytes(m)
    <3>1. callback[m].at = "counted" /\ to = "sized"
      BY <1>3, <2>2 DEF CloseFirstArrived, CountBytes, SetLastMessageAt, SetFirstMessageAt,
         RecordLatency, CloseCountReached, CloseCountReachedWhen
    <3>2. Cardinality(Past(Sized)') = Cardinality(Past(Sized)) + 1
      BY <1>4, <3>1, OneMore DEF Sized, Numbered, Places
    <3>3. Past(Measured)' = Past(Measured)
      BY <1>4, <3>1, NoneMore DEF Measured
    <3>4. progress'.receivedBytes = progress.receivedBytes + 1 /\ stats' = stats
      BY <1>1, <2>2 DEF CountBytes, Shapes
    <3>. QED  BY <1>1, <1>5, <2>1, <3>2, <3>3, <3>4 DEF CountsInv
  <2>3. CASE RecordLatency(m)
    <3>1. callback[m].at = "first" /\ to = "measured"
      BY <1>3, <2>3 DEF CloseFirstArrived, CountBytes, SetLastMessageAt, SetFirstMessageAt,
         RecordLatency, CloseCountReached, CloseCountReachedWhen
    <3>2. Cardinality(Past(Measured)') = Cardinality(Past(Measured)) + 1
      BY <1>4, <3>1, OneMore DEF Measured
    <3>3. Past(Sized)' = Past(Sized)
      BY <1>4, <3>1, NoneMore DEF Sized, Numbered, Places
    <3>4. Cardinality(Past(Measured)) \in Nat
      BY CallbacksFinite DEF Past
    <3>5. progress' = progress
      BY <2>3 DEF RecordLatency
    <3>6. stats'.measured + stats'.unmeasured
            = stats.measured + stats.unmeasured + (IF flags.benchmark THEN 1 ELSE 0)
      BY <1>1, <2>3 DEF RecordLatency, Shapes
    <3>. QED  BY <1>1, <1>5, <2>1, <3>2, <3>3, <3>4, <3>5, <3>6 DEF CountsInv
  <2>4. CASE ~CountBytes(m) /\ ~RecordLatency(m)
    <3>1. to \in {"last", "first", "firstClosed", "finished"}
      BY <1>3, <2>4
    <3>2. Past(Sized)' = Past(Sized) /\ Past(Measured)' = Past(Measured)
      BY <1>3, <1>4, <2>4, NoneMore DEF Sized, Numbered, Measured, Places
    <3>3. progress'.receivedBytes = progress.receivedBytes /\ stats' = stats
      BY <1>1, <1>3, <2>4 DEF SetLastMessageAt, SetFirstMessageAt, CloseFirstArrived,
         CloseCountReached, CloseCountReachedWhen, Shapes
    <3>. QED  BY <1>1, <1>5, <2>1, <3>2, <3>3 DEF CountsInv
  <2>. QED  BY <2>2, <2>3, <2>4
<1>9. ClockInv' /\ OrderedInv'
  <2>1. /\ progress'.lastMessageAt = IF to = "last" THEN callback[m].arrivedAt
                                                    ELSE progress.lastMessageAt
        /\ \/ progress'.firstMessageAt = progress.firstMessageAt
           \/ to = "first" /\ progress'.firstMessageAt = callback[m].arrivedAt
    <3>1. \/ to = "last" /\ progress' = [progress EXCEPT !.lastMessageAt = callback[m].arrivedAt]
          \/ to = "first" /\ progress' = [progress EXCEPT !.firstMessageAt = callback[m].arrivedAt]
          \/ to # "last" /\ progress' = [progress EXCEPT !.receivedBytes = @ + 1]
          \/ to # "last" /\ progress' = progress
      BY <1>3 DEF CountBytes, SetLastMessageAt, SetFirstMessageAt, RecordLatency,
         CloseFirstArrived, CloseCountReached, CloseCountReachedWhen
    <3>2. progress \in [received : Nat, receivedBytes : Nat, firstMessageAt : Nat,
                        lastMessageAt : Nat, subscribedAt : Nat, finishedAt : Nat,
                        done : BOOLEAN]
      BY <1>1 DEF Shapes
    <3>3. progress'.lastMessageAt = IF to = "last" THEN callback[m].arrivedAt
                                                   ELSE progress.lastMessageAt
      BY <3>1, <3>2
    <3>4. \/ progress'.firstMessageAt = progress.firstMessageAt
          \/ to = "first" /\ progress'.firstMessageAt = callback[m].arrivedAt
      BY <3>1, <3>2
    <3>. QED  BY <3>3, <3>4
  <2>2. ClockInv'
    BY <1>1, <1>4, <1>5, <2>1 DEF ClockInv
  <2>3. OrderedInv'
    <3>. SUFFICES ASSUME flags.ordered PROVE OrderedInv'
      BY <1>5 DEF OrderedInv
    <3>1. InCallback \subseteq {m} /\ InCallback' \subseteq {m}
      BY <1>1, <1>3, <1>4 DEF OrderedInv, InCallback
    <3>2. \A n \in Messages \ {m} : callback[n].at \in {"none", "finished"}
      BY <3>1 DEF InCallback
    <3>3. \A n \in Messages \ {m} : callback'[n].arrivedAt <= progress.lastMessageAt
      BY <1>1, <1>4, <3>2 DEF OrderedInv
    <3>4. IF to = "sized" THEN progress.lastMessageAt <= callback[m].arrivedAt
          ELSE to # "last" => callback[m].arrivedAt <= progress.lastMessageAt
      BY <1>1, <1>3 DEF OrderedInv
    <3>5. progress.lastMessageAt <= progress'.lastMessageAt
      BY <1>1, <1>3, <2>1 DEF OrderedInv, Shapes
    <3>6. /\ callback[m].arrivedAt \in Nat /\ progress.lastMessageAt \in Nat
          /\ progress.firstMessageAt \in Nat /\ progress'.lastMessageAt \in Nat
          /\ \A n \in Messages : callback'[n].arrivedAt \in Nat
      BY <1>1, <1>2, <1>4, <1>6 DEF Shapes, Callbacks
    <3>7. \A n \in Messages : IF callback'[n].at \in {"arrived", "counted", "sized"}
                              THEN progress'.lastMessageAt <= callback'[n].arrivedAt
                              ELSE callback'[n].arrivedAt <= progress'.lastMessageAt
      BY <1>3, <1>4, <2>1, <3>2, <3>3, <3>4, <3>5, <3>6
    <3>8. progress'.firstMessageAt <= progress'.lastMessageAt
      BY <1>1, <2>1, <3>4, <3>5, <3>6 DEF OrderedInv
    <3>9. \A n, o \in InCallback' : n = o
      BY <3>1
    <3>. QED  BY <3>7, <3>8, <3>9 DEF OrderedInv
  <2>. QED  BY <2>2, <2>3
<1>10. RunInv' /\ SamplerInv' /\ DisplayInv' /\ CliInv'
  BY <1>1, <1>5, <1>6, OthersUndisturbed DEF IInv, Shapes
<1>. QED  BY <1>6, <1>7, <1>8, <1>9, <1>10 DEF IInv

\* A step of RunSubscribe happens before the command reads anything, and changes
\* of progress only subscribedAt, finishedAt and done.
LEMMA RunStepFrame ==
    ASSUME IInv, RunStep
    PROVE  /\ UNCHANGED <<flags, now, ctxDone, token, callback, closes, display, cli>>
           /\ run.at # "returned" /\ cli.at = "running" /\ display.at # "stopped"
           /\ stats' = stats /\ conn' \in {"live", "closed"}
           /\ run' \in [at : RunPlaces, err : RunErrors, over : BOOLEAN]
           /\ \/ sampler' = sampler
              \/ /\ run.err = "none" /\ run'.err = "none"
                 /\ sampler' = [sampler EXCEPT !.at = "waiting"]
           /\ \/ progress' = progress
              \/ progress' = [progress EXCEPT !.subscribedAt = now]
              \/ progress' = [progress EXCEPT !.finishedAt = now]
              \/ progress' = [progress EXCEPT !.done = TRUE]
<1>. USE DEF RunFrame, Runs, Ends
<1>1. Shapes /\ RunInv /\ DisplayInv /\ CliInv
  BY DEF IInv
<1>2. run \in [at : RunPlaces, err : RunErrors, over : BOOLEAN]
  BY <1>1 DEF Shapes
<1>3. UNCHANGED <<flags, now, ctxDone, token, callback, closes, display, cli>> /\ stats' = stats
  BY DEF RunStep, Subscribed, SubscribeFailed, SubscribeFailedAt, RecordSubscribed,
     StartSampler, StopRun, RecordStopped, CloseRunOver, JoinSampler, JoinWhen, Disconnect,
     EndTime, EndTimeWhen, CloseDone
<1>4. run.at # "returned" /\ conn' \in {"live", "closed"}
  BY <1>1 DEF RunStep, Subscribed, SubscribeFailed, SubscribeFailedAt, RecordSubscribed,
     StartSampler, StopRun, RecordStopped, CloseRunOver, JoinSampler, JoinWhen, Disconnect,
     EndTime, EndTimeWhen, CloseDone, Shapes
<1>5. cli.at = "running" /\ display.at # "stopped"
  BY <1>1, <1>4 DEF RunInv, DisplayInv, CliInv
<1>6. run' \in [at : RunPlaces, err : RunErrors, over : BOOLEAN]
  BY <1>2 DEF RunStep, Subscribed, SubscribeFailed, SubscribeFailedAt, RecordSubscribed,
     StartSampler, StopRun, RecordStopped, CloseRunOver, JoinSampler, JoinWhen, Disconnect,
     EndTime, EndTimeWhen, CloseDone, RunPlaces, Connected, Deferred, RunErrors
<1>7. \/ sampler' = sampler
      \/ run.err = "none" /\ run'.err = "none" /\ sampler' = [sampler EXCEPT !.at = "waiting"]
  <2>1. CASE StartSampler
    BY <1>1, <1>2, <2>1 DEF StartSampler, RunInv, Connected
  <2>2. CASE ~StartSampler
    BY <2>2 DEF RunStep, Subscribed, SubscribeFailed, SubscribeFailedAt, RecordSubscribed,
       StopRun, RecordStopped, CloseRunOver, JoinSampler, JoinWhen, Disconnect, EndTime,
       EndTimeWhen, CloseDone
  <2>. QED  BY <2>1, <2>2
<1>8. \/ progress' = progress
      \/ progress' = [progress EXCEPT !.subscribedAt = now]
      \/ progress' = [progress EXCEPT !.finishedAt = now]
      \/ progress' = [progress EXCEPT !.done = TRUE]
  BY DEF RunStep, Subscribed, SubscribeFailed, SubscribeFailedAt, RecordSubscribed,
     StartSampler, StopRun, RecordStopped, CloseRunOver, JoinSampler, JoinWhen, Disconnect,
     EndTime, EndTimeWhen, CloseDone
<1>. QED  BY <1>3, <1>4, <1>5, <1>6, <1>7, <1>8

\* Every step of RunSubscribe takes it to where it may be with what it has set.
LEMMA RunStepRun ==
    ASSUME IInv, RunStep
    PROVE  RunInv'
<1>. USE DEF RunFrame, Runs, Ends, Connected, Deferred
<1>1. /\ RunInv /\ run \in [at : RunPlaces, err : RunErrors, over : BOOLEAN]
      /\ progress \in [received : Nat, receivedBytes : Nat, firstMessageAt : Nat,
                       lastMessageAt : Nat, subscribedAt : Nat, finishedAt : Nat, done : BOOLEAN]
      /\ now \in Nat \ {0} /\ flags' = flags /\ ctxDone' = ctxDone
  BY RunStepFrame DEF IInv, Shapes
<1>2. progress'.received = progress.received
  BY <1>1, RunStepFrame
<1>3. StopReason' = StopReason
  BY <1>1, <1>2 DEF StopReason
<1>4. CASE Subscribed \/ SubscribeFailed
  BY <1>1, <1>3, <1>4 DEF Subscribed, SubscribeFailed, SubscribeFailedAt, RunInv
<1>5. CASE RecordSubscribed
  BY <1>1, <1>3, <1>5 DEF RecordSubscribed, RunInv
<1>6. CASE StartSampler
  BY <1>1, <1>3, <1>6 DEF StartSampler, RunInv
<1>7. CASE StopRun
  <2>1. StopReason
    BY <1>7 DEF StopRun, StopReason, IInv, CallsInv, Shapes
  <2>. QED  BY <1>1, <1>3, <1>7, <2>1 DEF StopRun, RunInv
<1>8. CASE RecordStopped
  BY <1>1, <1>3, <1>8 DEF RecordStopped, RunInv
<1>9. CASE CloseRunOver
  BY <1>1, <1>3, <1>9 DEF CloseRunOver, RunInv
<1>10. CASE JoinSampler
  BY <1>1, <1>3, <1>10 DEF JoinSampler, JoinWhen, RunInv
<1>11. CASE Disconnect
  BY <1>1, <1>3, <1>11 DEF Disconnect, RunInv
<1>12. CASE EndTime
  BY <1>1, <1>3, <1>12 DEF EndTime, EndTimeWhen, RunInv
<1>13. CASE CloseDone
  BY <1>1, <1>3, <1>13 DEF CloseDone, RunInv
<1>. QED  BY <1>4, <1>5, <1>6, <1>7, <1>8, <1>9, <1>10, <1>11, <1>12, <1>13 DEF RunStep

\* Every step of RunSubscribe preserves the invariant.
LEMMA RunStepInv ==
    ASSUME IInv, RunStep
    PROVE  IInv'
<1>1. Shapes /\ CallsInv /\ CountsInv /\ ClockInv /\ OrderedInv
  BY DEF IInv
<1>2. /\ progress' \in [received : Nat, receivedBytes : Nat, firstMessageAt : Nat,
                        lastMessageAt : Nat, subscribedAt : Nat, finishedAt : Nat,
                        done : BOOLEAN]
      /\ progress'.received = progress.received
      /\ progress'.receivedBytes = progress.receivedBytes
      /\ progress'.firstMessageAt = progress.firstMessageAt
      /\ progress'.lastMessageAt = progress.lastMessageAt
      /\ progress'.subscribedAt \in {progress.subscribedAt, now}
      /\ progress'.finishedAt \in {progress.finishedAt, now}
  <2>1. /\ progress \in [received : Nat, receivedBytes : Nat, firstMessageAt : Nat,
                         lastMessageAt : Nat, subscribedAt : Nat, finishedAt : Nat,
                         done : BOOLEAN]
        /\ now \in Nat
    BY <1>1 DEF Shapes
  <2>. QED  BY <2>1, RunStepFrame
<1>3. Shapes'
  <2>1. sampler' \in [at : {"none", "waiting", "sampling", "stopped"}, total : Nat]
    BY <1>1, RunStepFrame DEF Shapes
  <2>. QED  BY <1>1, <1>2, <2>1, RunStepFrame DEF Shapes
<1>4. CallsInv' /\ CountsInv' /\ OrderedInv'
  BY <1>1, <1>2, RunStepFrame, CallbacksUndisturbed
<1>5. ClockInv'
  BY <1>1, <1>2, RunStepFrame DEF ClockInv, Shapes
<1>6. SamplerInv'
  <2>1. sampler'.total = sampler.total
    BY <1>1, RunStepFrame DEF Shapes
  <2>2. CASE run'.err # "nil"
    BY <1>2, <2>1, <2>2, RunStepFrame DEF IInv, SamplerInv
  <2>3. CASE run'.err = "nil"
    <3>1. run.err = "nil" \/ sampler.at = "stopped"
      BY <1>1, <2>3 DEF RunStep, Subscribed, SubscribeFailed, SubscribeFailedAt,
         RecordSubscribed, StartSampler, StopRun, RecordStopped, CloseRunOver, JoinSampler,
         JoinWhen, Disconnect, EndTime, EndTimeWhen, CloseDone, Runs, Ends, Shapes
    <3>2. sampler' = sampler
      BY <2>3, RunStepFrame
    <3>. QED  BY <1>2, <3>1, <3>2, RunStepFrame DEF IInv, SamplerInv
  <2>. QED  BY <2>2, <2>3
<1>7. DisplayInv' /\ CliInv'
  BY <1>2, RunStepFrame DEF IInv, DisplayInv, CliInv, HasReport, Reporting
<1>. QED  BY <1>3, <1>4, <1>5, <1>6, <1>7, RunStepRun DEF IInv

\* Every step of the sampler preserves the invariant: it only takes samples, and
\* stores them, before it has stopped.
LEMMA SamplerStepInv ==
    ASSUME IInv, SamplerBegins \/ SamplerStops \/ Sample
    PROVE  IInv'
<1>. USE DEF RunFrame, runVars
<1>1. Shapes /\ CallsInv /\ CountsInv /\ ClockInv /\ OrderedInv /\ SamplerInv /\ RunInv /\ CliInv
  BY DEF IInv
<1>2. /\ UNCHANGED <<flags, now, ctxDone, token, callback, closes, display, cli>>
      /\ UNCHANGED <<run, progress, conn>>
      /\ sampler.at # "stopped"
  BY DEF SamplerBegins, SamplerStops, Sample
<1>3. /\ sampler' \in [at : {"none", "waiting", "sampling", "stopped"}, total : Nat]
      /\ sampler'.total <= progress.received
  BY <1>1 DEF SamplerBegins, SamplerStops, Sample, Shapes, SamplerInv
<1>4. \/ stats' = stats
      \/ stats' = [stats EXCEPT !.perInterval = sampler.total]
  BY DEF SamplerBegins, SamplerStops, Sample
<1>5. /\ stats' \in [measured : Nat, unmeasured : Nat, perInterval : Int]
      /\ stats'.perInterval <= progress.received
      /\ stats'.measured = stats.measured /\ stats'.unmeasured = stats.unmeasured
  BY <1>1, <1>4 DEF Shapes, SamplerInv
<1>6. run.err # "nil" /\ ~HasReport
  BY <1>1, <1>2 DEF SamplerInv, CliInv, HasReport
<1>7. Shapes'
  BY <1>1, <1>2, <1>3, <1>5 DEF Shapes
<1>8. CallsInv' /\ CountsInv' /\ OrderedInv'
  BY <1>1, <1>2, <1>5, CallbacksUndisturbed
<1>9. ClockInv' /\ RunInv' /\ SamplerInv'
  BY <1>1, <1>2, <1>3, <1>5, <1>6 DEF ClockInv, RunInv, StopReason, SamplerInv
<1>10. DisplayInv' /\ CliInv'
  BY <1>2, <1>6 DEF IInv, DisplayInv, CliInv, HasReport
<1>. QED  BY <1>7, <1>8, <1>9, <1>10 DEF IInv

\* Every step of the display preserves the invariant: what it adds to the rates is
\* what it sees beyond what it has shown.
LEMMA DisplayStepInv ==
    ASSUME IInv, EndDisplay \/ BarTick \/ LogTick \/ SnapshotReceived \/ LogLine
    PROVE  IInv'
<1>. USE DEF DisplayFrame, CommandFrame, runVars
<1>1. Shapes /\ CallsInv /\ CountsInv /\ ClockInv /\ OrderedInv /\ DisplayInv
  BY DEF IInv
<1>2. /\ UNCHANGED <<flags, now, ctxDone, token, callback, closes, stats, sampler, cli>>
      /\ UNCHANGED <<run, progress, conn>>
      /\ display.at # "stopped"
  BY DEF EndDisplay, EndDisplayIf, BarTick, LogTick, SnapshotReceived, LogLine, LogLineWith
<1>. DEFINE Displays == [at : {"drawing", "ticked", "snapshot", "stopped"}, tickAt : Nat,
                         seen : Nat, baseline : Nat, previousCount : Nat, rated : Int,
                         summary : Int]
<1>3. display \in Displays /\ progress.received \in Nat /\ now \in Nat /\ display.summary = -1
  BY <1>1, <1>2 DEF Shapes, DisplayInv
<1>4. display' \in Displays /\ DisplayInv' /\ display'.tickAt \in {0, now, display.tickAt}
  <2>1. CASE EndDisplay
    <3>. DEFINE summary == IF progress.subscribedAt # 0 THEN progress.received ELSE -1
    <3>1. /\ display' = [display EXCEPT !.at = "stopped", !.summary = summary]
          /\ progress.done /\ display.at = "drawing"
      BY <1>3, <2>1 DEF EndDisplay, EndDisplayIf
    <3>2. /\ summary \in Int /\ summary \in {-1, progress.received}
          /\ (summary = -1 <=> progress.subscribedAt = 0)
      BY <1>3
    <3>. HIDE DEF summary
    <3>3. display' \in Displays
      BY <1>3, <3>1, <3>2
    <3>4. /\ display'.at = "stopped" /\ display'.tickAt = display.tickAt
          /\ display'.seen = display.seen /\ display'.baseline = display.baseline
          /\ display'.previousCount = display.previousCount /\ display'.rated = display.rated
          /\ display'.summary = summary
      BY <1>3, <3>1
    <3>. QED  BY <1>1, <1>2, <1>3, <3>1, <3>2, <3>3, <3>4 DEF DisplayInv
  <2>2. CASE BarTick
    <3>. DEFINE more == display.rated + progress.received - display.previousCount
    <3>0. /\ display' = [display EXCEPT !.rated = more, !.previousCount = progress.received]
          /\ more \in Int /\ display.at = "drawing" /\ ~flags.disableBar
      BY <1>3, <2>2 DEF BarTick
    <3>. HIDE DEF more
    <3>1. /\ display' \in Displays
          /\ display'.at = display.at
          /\ display'.tickAt = display.tickAt /\ display'.summary = display.summary
          /\ display'.seen = display.seen /\ display'.baseline = display.baseline
          /\ display'.previousCount = progress.received
          /\ display'.rated = more
      BY <1>3, <3>0
    <3>2. /\ display.rated = display.baseline + display.previousCount /\ display.baseline = 0
          /\ display.seen <= progress.received
      BY <1>1, <3>0 DEF DisplayInv
    <3>3. display'.rated = progress.received
      BY <1>3, <3>1, <3>2 DEF more
    <3>. QED  BY <1>1, <1>2, <1>3, <3>0, <3>1, <3>2, <3>3 DEF DisplayInv
  <2>3. CASE LogTick
    BY <1>1, <1>2, <1>3, <2>3 DEF LogTick, DisplayInv
  <2>4. CASE SnapshotReceived
    <3>1. /\ display' \in Displays
          /\ display'.at = "snapshot" /\ display.at = "ticked"
          /\ display'.tickAt = display.tickAt /\ display'.summary = display.summary
          /\ display'.seen = progress.received /\ display'.baseline = display.baseline
          /\ display'.previousCount = display.previousCount /\ display'.rated = display.rated
      BY <1>3, <2>4 DEF SnapshotReceived
    <3>. QED  BY <1>1, <1>2, <1>3, <3>1 DEF DisplayInv
  <2>5. CASE LogLine
    <3>1. /\ display.at = "snapshot" /\ flags.disableBar
          /\ display.rated = display.baseline + display.previousCount
          /\ display.rated <= display.seen /\ display.seen <= progress.received
      BY <1>1, <2>5 DEF LogLine, LogLineWith, DisplayInv
    <3>2. display' = [display EXCEPT
            !.at = "drawing", !.tickAt = 0,
            !.rated = IF CurrentCount = 0 THEN @ ELSE @ + CurrentCount - display.previousCount,
            !.baseline = IF Resets THEN display.seen ELSE @,
            !.previousCount = IF Resets THEN 0 ELSE CurrentCount]
      BY <2>5 DEF LogLine, LogLineWith
    <3>3. CurrentCount = display.seen - display.baseline /\ CurrentCount \in Nat
      BY <1>3, <3>1 DEF CurrentCount
    <3>4. /\ display'.at = "drawing" /\ display'.tickAt = 0 /\ display'.seen = display.seen
          /\ display'.summary = display.summary
      BY <1>3, <3>2
    <3>5. /\ display'.rated = display.seen
          /\ display'.baseline = IF Resets THEN display.seen ELSE display.baseline
          /\ display'.previousCount = IF Resets THEN 0 ELSE CurrentCount
      BY <1>3, <3>1, <3>2, <3>3
    <3>6. display' \in Displays
      <4>1. IF Resets THEN display.seen \in Nat /\ 0 \in Nat
                      ELSE display.baseline \in Nat /\ CurrentCount \in Nat
        BY <1>3, <3>3
      <4>2. (IF CurrentCount = 0 THEN display.rated
             ELSE display.rated + CurrentCount - display.previousCount) \in Int
        BY <1>3, <3>3
      <4>. QED  BY <1>3, <3>2, <4>1, <4>2
    <3>7. DisplayInv'
      <4>1. display'.rated = display'.baseline + display'.previousCount
        BY <1>3, <3>1, <3>3, <3>5
      <4>. QED  BY <1>1, <1>2, <1>3, <3>1, <3>4, <3>5, <4>1 DEF DisplayInv
    <3>. QED  BY <3>4, <3>6, <3>7
  <2>. QED  BY <2>1, <2>2, <2>3, <2>4, <2>5
<1>5. Shapes'
  BY <1>1, <1>2, <1>4 DEF Shapes
<1>6. CallsInv' /\ CountsInv' /\ OrderedInv'
  BY <1>1, <1>2, CallbacksUndisturbed
<1>7. ClockInv' /\ RunInv' /\ SamplerInv'
  BY <1>1, <1>2, <1>4 DEF Shapes, IInv, ClockInv, RunInv, StopReason, SamplerInv
<1>8. CliInv'
  BY <1>2 DEF IInv, CliInv, HasReport, Reporting
<1>. QED  BY <1>4, <1>5, <1>6, <1>7, <1>8 DEF IInv

\* Every step of the command preserves the invariant: it reads the count of the
\* messages after everything it compares it with.
LEMMA CommandStepInv ==
    ASSUME IInv, CommandStep
    PROVE  IInv'
<1>. USE DEF Command, Read, CommandFrame, runVars
<1>1. /\ Shapes /\ CallsInv /\ CountsInv /\ ClockInv /\ OrderedInv
      /\ RunInv /\ SamplerInv /\ DisplayInv /\ CliInv
  BY DEF IInv
<1>2. /\ UNCHANGED <<flags, now, ctxDone, token, callback, closes, stats, sampler, display>>
      /\ UNCHANGED <<run, progress, conn>>
  BY DEF CommandStep, AwaitDisplay, CheckSubscribed, ReadReceived, ReadTimes, ReadStats,
     ReadLatency, WriteReport
<1>. DEFINE Reports == [received : Int, startedAt : Int, finishedAt : Int, unmeasured : Int,
                        perInterval : Int, measured : Int]
<1>3. /\ cli \in [at : CliPlaces, exitErr : RunErrors \cup {"reportError"}, report : Reports]
      /\ run.err \in RunErrors
      /\ stats.measured \in Nat /\ stats.unmeasured \in Nat /\ stats.perInterval \in Int
      /\ progress.received \in Nat /\ progress.firstMessageAt \in Nat
      /\ progress.subscribedAt \in Nat /\ progress.finishedAt \in Nat
      /\ NoReport.measured = -1 /\ display.summary \in Int
  BY <1>1 DEF Shapes, NoReport
<1>. DEFINE Clis == [at : CliPlaces, exitErr : RunErrors \cup {"reportError"}, report : Reports]
<1>4. cli' \in Clis
  <2>0. ASSUME NEW r \in Reports, NEW x \in Int, NEW y \in Int
        PROVE  /\ [r EXCEPT !.startedAt = x, !.finishedAt = y] \in Reports
               /\ [r EXCEPT !.unmeasured = x, !.perInterval = y] \in Reports
    OBVIOUS
  <2>1. ASSUME NEW to \in CliPlaces, NEW report \in Reports, Read(cli.at, to, report)
        PROVE  cli' \in Clis
    BY <1>3, <2>1
  <2>2. CliPlaces = {"running", "displayed", "counts", "exited", "times", "stats", "latency",
                     "writing"}
    BY DEF CliPlaces, Reporting
  <2>3. CASE AwaitDisplay \/ CheckSubscribed \/ WriteReport
    <3>1. \E to \in CliPlaces, err \in RunErrors \cup {"reportError"} :
             cli' = [cli EXCEPT !.at = to, !.exitErr = err]
      <4>1. CASE AwaitDisplay
        <5>1. cli' = [cli EXCEPT !.at = "displayed", !.exitErr = cli.exitErr]
          BY <1>3, <4>1 DEF AwaitDisplay
        <5>. QED  BY <1>3, <2>2, <5>1
      <4>2. CASE CheckSubscribed
        <5>1. \/ cli' = [cli EXCEPT !.at = "exited", !.exitErr = run.err]
              \/ cli' = [cli EXCEPT !.at = "counts", !.exitErr = cli.exitErr]
          BY <1>3, <4>2 DEF CheckSubscribed
        <5>. QED  BY <1>3, <2>2, <5>1
      <4>3. CASE WriteReport
        <5>1. PICK err \in {"nil", "reportError", run.err} :
                 cli' = [cli EXCEPT !.at = "exited", !.exitErr = err]
          BY <4>3 DEF WriteReport
        <5>. QED  BY <1>3, <2>2, <5>1 DEF RunErrors
      <4>. QED  BY <2>3, <4>1, <4>2, <4>3
    <3>. QED  BY <1>3, <3>1
  <2>4. CASE ReadReceived
    <3>1. [cli.report EXCEPT !.received = progress.received] \in Reports
      BY <1>3
    <3>. QED  BY <2>1, <2>2, <2>4, <3>1 DEF ReadReceived
  <2>5. CASE ReadTimes
    <3>. DEFINE start == IF progress.firstMessageAt = 0 THEN progress.subscribedAt
                                                        ELSE progress.firstMessageAt
    <3>1. start \in Int
      BY <1>3
    <3>. HIDE DEF start
    <3>2. [cli.report EXCEPT !.startedAt = start, !.finishedAt = progress.finishedAt] \in Reports
      <4>1. cli.report \in Reports /\ progress.finishedAt \in Int
        BY <1>3
      <4>. HIDE DEF Reports
      <4>. QED  BY <2>0, <3>1, <4>1
    <3>3. Read(cli.at, "stats",
               [cli.report EXCEPT !.startedAt = start, !.finishedAt = progress.finishedAt])
      BY <2>5 DEF ReadTimes, start
    <3>. HIDE DEF Clis, Reports
    <3>. QED  BY <2>1, <2>2, <3>2, <3>3
  <2>6. CASE ReadStats
    <3>1. [cli.report EXCEPT !.unmeasured = stats.unmeasured,
                             !.perInterval = stats.perInterval] \in Reports
      <4>1. cli.report \in Reports /\ stats.unmeasured \in Int /\ stats.perInterval \in Int
        BY <1>3
      <4>. HIDE DEF Reports
      <4>. QED  BY <2>0, <4>1
    <3>2. Read(cli.at, "latency", [cli.report EXCEPT !.unmeasured = stats.unmeasured,
                                                     !.perInterval = stats.perInterval])
      BY <2>6 DEF ReadStats
    <3>. HIDE DEF Clis, Reports
    <3>. QED  BY <2>1, <2>2, <3>1, <3>2
  <2>7. CASE ReadLatency
    <3>1. [cli.report EXCEPT !.measured = stats.measured] \in Reports
      BY <1>3
    <3>. QED  BY <2>1, <2>2, <2>7, <3>1 DEF ReadLatency
  <2>. QED  BY <2>3, <2>4, <2>5, <2>6, <2>7 DEF CommandStep
<1>5. CliInv'
  <2>1. CASE AwaitDisplay
    BY <1>1, <1>2, <1>3, <2>1 DEF AwaitDisplay, CliInv, HasReport, Reporting
  <2>2. CASE CheckSubscribed
    BY <1>1, <1>2, <1>3, <2>2
    DEF CheckSubscribed, CliInv, HasReport, Reporting, RunInv, Deferred
  <2>3. CASE ReadReceived
    <3>1. /\ cli.at = "counts" /\ run.err = "nil" /\ run.at = "returned"
          /\ cli' = [cli EXCEPT !.at = "times",
                                !.report = [cli.report EXCEPT !.received = progress.received]]
      BY <1>1, <2>3 DEF ReadReceived, CliInv
    <3>2. /\ cli'.report.received = progress.received /\ cli'.at = "times"
          /\ cli'.report.measured = cli.report.measured
      BY <1>3, <3>1
    <3>3. cli.report.measured = -1
      BY <1>1, <1>3, <3>1 DEF CliInv, HasReport, Reporting
    <3>. QED  BY <1>1, <1>2, <1>3, <3>1, <3>2, <3>3
         DEF CliInv, HasReport, Reporting, RunInv, StopReason, DisplayInv, SamplerInv
  <2>4. CASE ReadTimes
    <3>1. /\ cli'.at = "stats" /\ cli.at = "times" /\ cli'.exitErr = cli.exitErr
          /\ cli'.report.received = cli.report.received
          /\ cli'.report.measured = cli.report.measured
      BY <1>3, <2>4 DEF ReadTimes
    <3>. QED  BY <1>1, <1>2, <3>1 DEF CliInv, HasReport, Reporting
  <2>5. CASE ReadStats
    <3>1. /\ cli'.at = "latency" /\ cli.at = "stats" /\ cli'.exitErr = cli.exitErr
          /\ cli'.report.received = cli.report.received
          /\ cli'.report.measured = cli.report.measured
          /\ cli'.report.perInterval = stats.perInterval
      BY <1>3, <2>5 DEF ReadStats
    <3>. QED  BY <1>1, <1>2, <3>1 DEF CliInv, HasReport, Reporting
  <2>6. CASE ReadLatency
    BY <1>1, <1>2, <1>3, <2>6 DEF ReadLatency, CliInv, HasReport, Reporting
  <2>7. CASE WriteReport
    BY <1>1, <1>2, <1>3, <2>7 DEF WriteReport, CliInv, HasReport, Reporting
  <2>. QED  BY <2>1, <2>2, <2>3, <2>4, <2>5, <2>6, <2>7 DEF CommandStep
<1>6. Shapes'
  BY <1>1, <1>2, <1>4 DEF Shapes
<1>7. CallsInv' /\ CountsInv' /\ OrderedInv'
  BY <1>1, <1>2, CallbacksUndisturbed
<1>8. ClockInv' /\ RunInv' /\ SamplerInv' /\ DisplayInv'
  BY <1>1, <1>2 DEF ClockInv, RunInv, StopReason, SamplerInv, DisplayInv
<1>. QED  BY <1>5, <1>6, <1>7, <1>8 DEF IInv

\* The clock, Ctrl-C and the broker's answer preserve the invariant, and so does
\* a step that changes nothing.
LEMMA EnvironmentInv ==
    ASSUME IInv, Tick \/ Cancel \/ BrokerAnswers \/ UNCHANGED vars
    PROVE  IInv'
<1>. USE DEF Tick, Cancel, BrokerAnswers, Untouched, vars, runVars
<1>1. Shapes /\ CallsInv /\ CountsInv /\ ClockInv /\ OrderedInv
  BY DEF IInv
<1>2. /\ UNCHANGED <<flags, callback, closes, stats, sampler, display, cli>>
      /\ UNCHANGED <<run, progress, conn>>
      /\ ctxDone' \in BOOLEAN /\ (ctxDone => ctxDone')
      /\ token' \in {"pending", "ok", "error"}
      /\ now' \in Nat \ {0} /\ now <= now' /\ now' <= MaxTime[flags]
  <2>1. MaxTime[flags] \in Nat /\ now \in Nat \ {0} /\ now <= MaxTime[flags]
    BY <1>1, MaxTimeAssumption DEF Shapes, ClockInv
  <2>2. now' \in Nat \ {0} /\ now <= now' /\ now' <= MaxTime[flags]
    BY <2>1
  <2>3. UNCHANGED <<flags, callback, closes, stats, sampler, display, cli, run, progress, conn>>
    OBVIOUS
  <2>4. /\ ctxDone' \in BOOLEAN /\ (ctxDone => ctxDone')
        /\ token' \in {"pending", "ok", "error"}
    BY <1>1 DEF Shapes
  <2>. QED  BY <2>2, <2>3, <2>4
<1>3. Shapes'
  BY <1>1, <1>2 DEF Shapes
<1>4. CallsInv' /\ CountsInv' /\ OrderedInv'
  BY <1>1, <1>2, CallbacksUndisturbed
<1>5. ClockInv'
  BY <1>1, <1>2 DEF Shapes, Callbacks, ClockInv
<1>6. progress'.received >= progress.received
  BY <1>1, <1>2 DEF Shapes
<1>7. RunInv' /\ SamplerInv' /\ DisplayInv' /\ CliInv'
  BY <1>1, <1>2, <1>3, <1>6, OthersUndisturbed DEF IInv
<1>. QED  BY <1>3, <1>4, <1>5, <1>7 DEF IInv

\* Every step of the specification preserves the invariant.
LEMMA NextInv == IInv /\ [Next]_vars => IInv'
<1>. SUFFICES ASSUME IInv, [Next]_vars
              PROVE  IInv'
  OBVIOUS
<1>1. ASSUME NEW m \in Messages, Arrive(m) \/ CallbackStep(m)
      PROVE  IInv'
  BY <1>1, ArriveInv, CountMessageInv, AfterNumberInv DEF CallbackStep, AfterNumber
<1>2. CASE RunStep
  BY <1>2, RunStepInv
<1>3. CASE SamplerBegins \/ SamplerStops \/ Sample
  BY <1>3, SamplerStepInv
<1>4. CASE BarTick \/ LogTick \/ DisplayGoesOn
  BY <1>4, DisplayStepInv DEF DisplayGoesOn
<1>5. CASE CommandStep
  BY <1>5, CommandStepInv
<1>6. CASE Tick \/ Cancel \/ BrokerAnswers \/ Terminating \/ UNCHANGED vars
  BY <1>6, EnvironmentInv DEF Terminating
<1>. QED  BY <1>1, <1>2, <1>3, <1>4, <1>5, <1>6 DEF Next

-----------------------------------------------------------------------------
(* The theorems.                                                           *)

\* The goroutines of the run keep the inductive invariant.
THEOREM Invariant == Spec => []IInv
<1>1. Init => IInv
  BY InitInv
<1>2. IInv /\ [Next]_vars => IInv'
  BY NextInv
<1>. QED  BY <1>1, <1>2, PTL DEF Spec

\* Every variable keeps its type, and no counter exceeds the messages delivered.
THEOREM TypeCorrect == Spec => []TypeOK
<1>1. IInv => TypeOK
  <2>. SUFFICES ASSUME IInv PROVE TypeOK
    OBVIOUS
  <2>1. Shapes /\ CallsInv /\ CountsInv /\ ClockInv /\ RunInv /\ SamplerInv /\ DisplayInv
    BY DEF IInv
  <2>. DEFINE N == Cardinality(Messages)
  <2>2. /\ N \in Nat
        /\ Cardinality(Past(Numbered)) \in 0..N /\ Cardinality(Past(Sized)) \in 0..N
        /\ Cardinality(Past(Measured)) \in 0..N
    BY CallbacksFinite, MessagesAssumption, FS_CardinalityType DEF Past
  <2>. HIDE DEF N
  <2>3. progress.received \in 0..N /\ progress.receivedBytes \in 0..N
    BY <2>1, <2>2 DEF CountsInv
  <2>4. stats.measured \in 0..N /\ stats.unmeasured \in 0..N
    <3>1. stats.measured \in Nat /\ stats.unmeasured \in Nat
      BY <2>1 DEF Shapes
    <3>2. stats.measured + stats.unmeasured \in 0..N
      BY <2>1, <2>2 DEF CountsInv
    <3>. QED  BY <2>2, <3>1, <3>2
  <2>5. display.seen \in 0..N /\ display.baseline \in 0..N /\ display.previousCount \in 0..N
          /\ display.rated \in Nat
    <3>1. /\ display.seen \in Nat /\ display.baseline \in Nat /\ display.previousCount \in Nat
          /\ display.rated \in Int
      BY <2>1 DEF Shapes
    <3>2. /\ display.rated = display.baseline + display.previousCount
          /\ display.seen <= progress.received /\ display.rated <= progress.received
      BY <2>1, <2>3, <3>1 DEF DisplayInv
    <3>. QED  BY <2>2, <2>3, <3>1, <3>2
  <2>6. \A m \in Messages : /\ callback[m].number \in 0..N
                            /\ callback[m].arrivedAt \in 0..MaxTime[flags]
    <3>. TAKE m \in Messages
    <3>1. callback[m] \in Callbacks
      BY <2>1 DEF Shapes
    <3>2. callback[m].number \in Nat /\ callback[m].arrivedAt \in Nat
      BY <3>1 DEF Callbacks
    <3>3. /\ callback[m].number <= progress.received
          /\ callback[m].arrivedAt <= now /\ now <= MaxTime[flags]
      BY <2>1 DEF CallsInv, ClockInv
    <3>4. now \in Nat /\ MaxTime[flags] \in Nat
      BY <2>1, MaxTimeAssumption DEF Shapes
    <3>. QED  BY <2>2, <2>3, <3>2, <3>3, <3>4
  <2>7. /\ now \in 1..MaxTime[flags]
        /\ {progress.firstMessageAt, progress.lastMessageAt, progress.subscribedAt,
            progress.finishedAt, display.tickAt} \subseteq 0..MaxTime[flags]
    <3>1. /\ now \in Nat \ {0} /\ MaxTime[flags] \in Nat
          /\ progress.firstMessageAt \in Nat /\ progress.lastMessageAt \in Nat
          /\ progress.subscribedAt \in Nat /\ progress.finishedAt \in Nat
          /\ display.tickAt \in Nat
      BY <2>1, MaxTimeAssumption DEF Shapes
    <3>. QED  BY <2>1, <3>1 DEF ClockInv
  <2>8. /\ flags \in Settings /\ ctxDone \in BOOLEAN
        /\ token \in {"pending", "ok", "error"} /\ conn \in {"live", "closed"}
        /\ progress.done \in BOOLEAN /\ run.over \in BOOLEAN
        /\ closes.firstArrived \in Nat /\ closes.countReached \in Nat /\ sampler.total \in Nat
        /\ run.err \in RunErrors /\ cli.exitErr \in RunErrors \cup {"reportError"}
    BY <2>1 DEF Shapes
  <2>. QED  BY <2>3, <2>4, <2>5, <2>6, <2>7, <2>8 DEF TypeOK, RunErrors, N
<1>. QED  BY <1>1, Invariant, PTL

\* Neither channel is closed twice, however many callbacks run at a time.
THEOREM PlainCloseIsSafe == Spec => []ClosedOnce
<1>1. IInv => ClosedOnce
  BY DEF IInv, CallsInv, ClosedOnce
<1>. QED  BY <1>1, Invariant, PTL

\* A run that subscribed ends for Ctrl-C or for --count, never otherwise.
THEOREM ReasonToStop == Spec => []StopsForAReason
<1>1. IInv => StopsForAReason
  BY DEF IInv, RunInv, StopReason, CliInv, StopsForAReason
<1>. QED  BY <1>1, Invariant, PTL

\* A failed subscribe leaves neither summary nor report, any other run both.
THEOREM SilentFailure == Spec => []FailureIsSilent
<1>1. IInv => FailureIsSilent
  <2>. SUFFICES ASSUME IInv, cli.at = "exited" PROVE FailureIsSilent
    BY DEF FailureIsSilent
  <2>1. Shapes /\ RunInv /\ DisplayInv /\ CliInv
    BY DEF IInv
  <2>2. /\ run.at = "returned" /\ display.at = "stopped"
        /\ (run.err = "nil" <=> progress.subscribedAt # 0)
        /\ (display.summary = -1 <=> progress.subscribedAt = 0)
        /\ display.summary = -1 \/ display.summary \in 0..progress.received
    BY <2>1 DEF CliInv, RunInv, DisplayInv, Deferred
  <2>3. CASE run.err = "nil"
    BY <2>1, <2>2, <2>3 DEF CliInv, HasReport, FailureIsSilent
  <2>4. CASE run.err # "nil"
    BY <2>1, <2>2, <2>4 DEF CliInv, HasReport, Reporting, FailureIsSilent
  <2>. QED  BY <2>3, <2>4
<1>. QED  BY <1>1, Invariant, PTL

\* The report reads the samples after the sampler has stopped.
THEOREM SamplesComplete == Spec => []SamplesFinal
<1>1. IInv => SamplesFinal
  <2>. SUFFICES ASSUME IInv, cli.report.measured >= 0 PROVE SamplesFinal
    BY DEF SamplesFinal
  <2>1. SamplerInv /\ CliInv
    BY DEF IInv
  <2>2. HasReport /\ cli.at \notin {"times", "stats"}
    BY <2>1 DEF CliInv, NoReport
  <2>. QED  BY <2>1, <2>2 DEF CliInv, HasReport, Reporting, SamplerInv, SamplesFinal
<1>. QED  BY <1>1, Invariant, PTL

\* The display shows every message it has seen once, whatever it resets.
THEOREM RatesComplete == Spec => []RatesAddUp
<1>1. IInv => RatesAddUp
  BY DEF IInv, DisplayInv, RatesAddUp
<1>. QED  BY <1>1, Invariant, PTL

\* Only the callbacks and RunSubscribe write to the progress of the run.
LEMMA WritersOfProgress ==
    ASSUME IInv, Next
    PROVE  /\ flags' = flags
           /\ (\E m \in Messages : CallbackStep(m)) \/ RunStep \/ progress' = progress
<1>1. ASSUME NEW m \in Messages, Arrive(m) \/ CallbackStep(m)
      PROVE  flags' = flags /\ (CallbackStep(m) \/ progress' = progress)
  BY <1>1 DEF MessageFrame, Arrive, ArriveOn, CallbackStep, CountMessage, CountBytes,
     SetLastMessageAt, SetFirstMessageAt, RecordLatency, CloseFirstArrived, CloseCountReached,
     CloseCountReachedWhen
<1>2. CASE RunStep
  BY <1>2, RunStepFrame
<1>3. CASE \/ SamplerBegins \/ SamplerStops \/ Sample
           \/ BarTick \/ LogTick \/ DisplayGoesOn \/ CommandStep
  BY <1>3 DEF SamplerBegins, SamplerStops, Sample, RunFrame, BarTick, LogTick, DisplayGoesOn,
     EndDisplay, EndDisplayIf, SnapshotReceived, LogLine, LogLineWith, DisplayFrame,
     CommandFrame, CommandStep, AwaitDisplay, CheckSubscribed, ReadReceived, ReadTimes,
     ReadStats, ReadLatency, WriteReport, Command, Read, runVars
<1>4. CASE Tick \/ Cancel \/ BrokerAnswers \/ Terminating
  BY <1>4 DEF Tick, Cancel, BrokerAnswers, Untouched, Terminating, runVars, vars
<1>. QED  BY <1>1, <1>2, <1>3, <1>4 DEF Next

\* The end time is set once: the deferred finish leaves the one of the run alone.
THEOREM EndTimeFinal == Spec => EndTimeKept
<1>1. IInv /\ [Next]_vars =>
        [progress.finishedAt # 0 => progress'.finishedAt = progress.finishedAt]_vars
  <2>. SUFFICES ASSUME IInv, Next, progress.finishedAt # 0
                PROVE  progress'.finishedAt = progress.finishedAt
    OBVIOUS
  <2>1. Shapes /\ RunInv
    BY DEF IInv
  <2>2. ASSUME NEW m \in Messages, CallbackStep(m)
        PROVE  progress'.finishedAt = progress.finishedAt
    BY <2>1, <2>2 DEF Shapes, CallbackStep, CountMessage, CountBytes, SetLastMessageAt,
       SetFirstMessageAt, RecordLatency, CloseFirstArrived, CloseCountReached,
       CloseCountReachedWhen
  <2>3. CASE RunStep
    <3>1. run.at # "stopping"
      BY <2>1 DEF RunInv, Deferred
    <3>. QED  BY <2>1, <2>3, <3>1 DEF Shapes, RunStep, Subscribed, SubscribeFailed,
              SubscribeFailedAt, RecordSubscribed, StartSampler, StopRun, RecordStopped,
              CloseRunOver, JoinSampler, JoinWhen, Disconnect, EndTime, EndTimeWhen, CloseDone,
              Runs, Ends
  <2>. QED  BY <2>2, <2>3, WritersOfProgress
<1>. QED  BY <1>1, Invariant, PTL DEF Spec, EndTimeKept

\* With --ordered the last message never moves back, nor behind the first.
THEOREM TimesInOrder == Spec => OrderedTimes
<1>1. IInv /\ IInv' /\ [Next]_vars =>
        [flags.ordered => /\ progress'.lastMessageAt >= progress.lastMessageAt
                          /\ progress'.firstMessageAt <= progress'.lastMessageAt]_vars
  <2>. SUFFICES ASSUME IInv, IInv', Next, flags.ordered
                PROVE  /\ progress'.lastMessageAt >= progress.lastMessageAt
                       /\ progress'.firstMessageAt <= progress'.lastMessageAt
    OBVIOUS
  <2>1. Shapes /\ OrderedInv /\ OrderedInv'
    BY DEF IInv
  <2>2. progress.lastMessageAt \in Nat
    BY <2>1 DEF Shapes
  <2>3. progress'.firstMessageAt <= progress'.lastMessageAt
    BY <2>1, WritersOfProgress DEF OrderedInv
  <2>4. progress'.lastMessageAt >= progress.lastMessageAt
    <3>1. ASSUME NEW m \in Messages, SetLastMessageAt(m)
          PROVE  progress'.lastMessageAt >= progress.lastMessageAt
      BY <2>1, <3>1 DEF SetLastMessageAt, At, OrderedInv, Shapes, Callbacks
    <3>2. ASSUME NEW m \in Messages, CallbackStep(m), ~SetLastMessageAt(m)
          PROVE  progress'.lastMessageAt = progress.lastMessageAt
      BY <2>1, <3>2 DEF Shapes, CallbackStep, CountMessage, CountBytes, SetFirstMessageAt,
         RecordLatency, CloseFirstArrived, CloseCountReached, CloseCountReachedWhen
    <3>3. RunStep => progress'.lastMessageAt = progress.lastMessageAt
      BY <2>1, RunStepFrame DEF Shapes
    <3>. QED  BY <2>2, <3>1, <3>2, <3>3, WritersOfProgress
  <2>. QED  BY <2>3, <2>4
<1>. QED  BY <1>1, Invariant, PTL DEF Spec, OrderedTimes

\* Under --ordered a reset comes only when every message that has got as far as
\* lastMessageAt is older than --reset-after.
THEOREM ResetOnlyInSilence == Spec => ResetInSilence
<1>1. IInv /\ [Next]_vars =>
        [flags.ordered /\ display'.baseline # display.baseline =>
            \A m \in Messages :
                callback[m].at \in {"none", "arrived", "counted", "sized"}
                  \/ display.tickAt - callback[m].arrivedAt > ResetAfter]_vars
  <2>. SUFFICES ASSUME IInv, Next, flags.ordered, display'.baseline # display.baseline,
                       NEW m \in Messages,
                       callback[m].at \notin {"none", "arrived", "counted", "sized"}
                PROVE  display.tickAt - callback[m].arrivedAt > ResetAfter
    OBVIOUS
  <2>1. Shapes /\ OrderedInv
    BY DEF IInv
  <2>2. EndDisplay \/ BarTick \/ LogTick \/ SnapshotReceived \/ LogLine
    <3>1. ~UNCHANGED display
      OBVIOUS
    <3>2. ASSUME NEW n \in Messages PROVE ~(Arrive(n) \/ CallbackStep(n))
      BY <3>1 DEF MessageFrame, Arrive, ArriveOn, CallbackStep, CountMessage, CountBytes,
         SetLastMessageAt, SetFirstMessageAt, RecordLatency, CloseFirstArrived,
         CloseCountReached, CloseCountReachedWhen
    <3>3. ~RunStep
      BY <3>1, RunStepFrame
    <3>4. ~(SamplerBegins \/ SamplerStops \/ Sample \/ CommandStep)
      BY <3>1 DEF SamplerBegins, SamplerStops, Sample, RunFrame, CommandStep, AwaitDisplay,
         CheckSubscribed, ReadReceived, ReadTimes, ReadStats, ReadLatency, WriteReport,
         Command, Read
    <3>5. ~(Tick \/ Cancel \/ BrokerAnswers \/ Terminating)
      BY <3>1 DEF Tick, Cancel, BrokerAnswers, Untouched, Terminating, vars
    <3>. QED  BY <3>2, <3>3, <3>4, <3>5 DEF Next, DisplayGoesOn
  <2>3. LogLine /\ Resets
    BY <2>1, <2>2 DEF Shapes, EndDisplay, EndDisplayIf, BarTick, LogTick, SnapshotReceived,
       LogLine, LogLineWith
  <2>4. display.tickAt - progress.lastMessageAt > ResetAfter
    BY <2>3 DEF Resets
  <2>5. callback[m].arrivedAt <= progress.lastMessageAt
    BY <2>1 DEF OrderedInv
  <2>6. /\ callback[m].arrivedAt \in Nat /\ progress.lastMessageAt \in Nat
        /\ display.tickAt \in Nat
    BY <2>1 DEF Shapes, Callbacks
  <2>. QED  BY <2>4, <2>5, <2>6, ResetAfterAssumption
<1>. QED  BY <1>1, Invariant, PTL DEF Spec, ResetInSilence

=============================================================================
