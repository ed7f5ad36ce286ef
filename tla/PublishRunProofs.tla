-------------------------- MODULE PublishRunProofs --------------------------
(* Theorems about PublishRun for every set of clients and every setting,    *)
(* from the theorems about the two modules it composes.                     *)
EXTENDS PublishRun, NumberTheorems

Connecting == INSTANCE ConnectClientsProofs
Loops      == INSTANCE PublishClientProofs

-----------------------------------------------------------------------------
(* The composed modules.  Their lemmas speak of their own instances of the  *)
(* definitions, which say the same.                                         *)

\* The assumptions of the composed modules are those of this one.
LEMMA PartsAssumed ==
    /\ Connecting!ClientsAssumption /\ Connecting!LimitAssumption
    /\ Loops!CountAssumption /\ Loops!InFlightAssumption
    /\ Loops!QoSAssumption /\ Loops!PacedAssumption
BY ClientsAssumption, LimitAssumption, CountAssumption, InFlightAssumption, QoSAssumption,
   PacedAssumption DEF IsFiniteSet, Connecting!IsFiniteSet

\* The steps of connectClients, its tasks and the broker.
LEMMA ConnectSteps ==
    /\ Connect!GroupStep => Connecting!GroupStep
    /\ \A c \in Clients :
          /\ Connect!TaskStep(c) => Connecting!TaskStep(c)
          /\ Connect!BrokerAccepts(c) => Connecting!BrokerAccepts(c)
          /\ Connect!BrokerRefuses(c) => Connecting!BrokerRefuses(c)
<1>1. Connect!GroupStep => Connecting!GroupStep
  BY DEF Connect!GroupStep, Connect!Launch, Connect!Wait, Connect!DisconnectNext,
     Connect!DisconnectedAll, Connect!Enter, Connect!Active, Connect!Tasks, Connect!GroupDone,
     Connect!connectVars,
     Connecting!GroupStep, Connecting!Launch, Connecting!Wait, Connecting!DisconnectNext,
     Connecting!DisconnectedAll, Connecting!Enter, Connecting!Active, Connecting!Tasks,
     Connecting!GroupDone, Connecting!connectVars,
     Cardinality, Connect!Cardinality, Connecting!Cardinality
<1>2. ASSUME NEW c \in Clients
      PROVE  Connect!TaskStep(c) => Connecting!TaskStep(c)
  BY DEF Connect!TaskStep, Connect!CheckPassed, Connect!Skip, Connect!Dial, Connect!DialAccepted,
     Connect!DialRefused, Connect!DialCancelled, Connect!Record, Connect!ReportError,
     Connect!Finish, Connect!Enter, Connect!FailWith, Connect!GroupDone,
     Connecting!TaskStep, Connecting!CheckPassed, Connecting!Skip, Connecting!Dial,
     Connecting!DialAccepted, Connecting!DialRefused, Connecting!DialCancelled,
     Connecting!Record, Connecting!ReportError, Connecting!Finish, Connecting!Enter,
     Connecting!FailWith, Connecting!GroupDone
<1>3. ASSUME NEW c \in Clients
      PROVE  /\ Connect!BrokerAccepts(c) => Connecting!BrokerAccepts(c)
             /\ Connect!BrokerRefuses(c) => Connecting!BrokerRefuses(c)
  BY DEF Connect!BrokerAccepts, Connect!BrokerRefuses, Connecting!BrokerAccepts,
     Connecting!BrokerRefuses
<1>. QED  BY <1>1, <1>2, <1>3

\* The steps of the publish loops, their waiters and the broker.
LEMMA LoopSteps ==
    /\ Client!Messages = Loops!Messages
    /\ \A c \in Clients : Client!SendStep(c) => Loops!SendStep(c)
    /\ \A c \in Clients, m \in Client!Messages :
          /\ Client!WaitStep(c, m) => Loops!WaitStep(c, m)
          /\ Client!BrokerAnswers(c, m) => Loops!BrokerAnswers(c, m)
<1>1. Client!Messages = Loops!Messages
  BY DEF Client!Messages, Loops!Messages
<1>2. ASSUME NEW c \in Clients
      PROVE  Client!SendStep(c) => Loops!SendStep(c)
  BY DEF Client!SendStep, Client!Start, Client!Acquire, Client!AcquireCancelled, Client!Publish,
     Client!CountPublished, Client!Spawn, Client!PauseOver, Client!PauseCancelled,
     Client!Drained, Client!Disconnect, Client!Goto, Client!counterVars,
     Loops!SendStep, Loops!Start, Loops!Acquire, Loops!AcquireCancelled, Loops!Publish,
     Loops!CountPublished, Loops!Spawn, Loops!PauseOver, Loops!PauseCancelled,
     Loops!Drained, Loops!Disconnect, Loops!Goto, Loops!counterVars
<1>3. ASSUME NEW c \in Clients, NEW m \in Client!Messages
      PROVE  /\ Client!WaitStep(c, m) => Loops!WaitStep(c, m)
             /\ Client!BrokerAnswers(c, m) => Loops!BrokerAnswers(c, m)
  BY DEF Client!WaitStep, Client!CountTimedOut, Client!CountFailed, Client!RecordLatency,
     Client!CountAcked, Client!Release, Client!WaiterDone, Client!Move, Client!BrokerAnswers,
     Client!counterVars,
     Loops!WaitStep, Loops!CountTimedOut, Loops!CountFailed, Loops!RecordLatency,
     Loops!CountAcked, Loops!Release, Loops!WaiterDone, Loops!Move, Loops!BrokerAnswers,
     Loops!counterVars
<1>. QED  BY <1>1, <1>2, <1>3

-----------------------------------------------------------------------------
(* The inductive invariant: those of the two parts, and what RunPublish, the *)
(* sampler, the display and the command have made of them.                  *)

\* connectClients has reported that every client is connected.
HandedOver == stage = "returned" /\ result = "ok"

\* A loop only runs on a connection it was handed, and only it closes it.
HandoverInv ==
    \A c \in Clients :
        /\ pc[c] # "idle" => HandedOver
        /\ HandedOver => conn[c] = IF pc[c] = "done" THEN "closed" ELSE "live"

\* What RunPublish has published about itself by the time it stands where it
\* stands.
RunInv ==
    /\ run \in RunStates
    /\ run # "connecting" => stage = "returned"
    /\ connectFailed <=> run # "connecting" /\ result # "ok"
    /\ publishStarted <=> run # "connecting" /\ result = "ok"
    /\ connectFinished <=> run \notin {"connecting", "connected"}
    /\ run \in {"starting", "publishing", "sampling"} => result = "ok"
    /\ run = "finishing" => result # "ok"
    /\ finished <=> run \in {"closing", "sampling", "returned"}
    /\ done <=> run \in {"sampling", "returned"}
    /\ run \in {"connecting", "connected", "starting", "finishing"} =>
          \A c \in Clients : pc[c] = "idle"
    /\ run \in {"closing", "sampling", "returned"} /\ result = "ok" => Client!AllDone

\* The error of the run is about the counts it ended with.
ErrorInv ==
    run = "returned" =>
        IF result = "ok"
        THEN runErr = IF Counts.failed + Counts.timedOut > 0 THEN "publishError" ELSE "nil"
        ELSE runErr = "connectError" \/ (runErr = "nil" /\ ctxDone)

\* The sampler lives from the start of the loops to the end of the run.
SamplerInv ==
    /\ sampler \in {"none", "running", "stopped"}
    /\ sampler # "none" => result = "ok" /\ run \notin {"connecting", "connected", "starting"}
    /\ run = "returned" /\ result = "ok" => sampler = "stopped"
    /\ sampled \in 0..Total(acked)
    /\ sampler = "stopped" => ackedPerInterval \in 0..Total(acked)

\* What the display draws for the last time it reads from final values.
DisplayInv ==
    /\ display \in {"connectBar", "publishBar", "summary", "stopped"}
    /\ display # "connectBar" => connectFinished /\ connectBar = connected
    /\ display \in {"publishBar", "summary"} => result = "ok"
    /\ display = "summary" => done /\ bar = Counts.published
    /\ display = "stopped" =>
          IF result = "ok"
          THEN done /\ logged = Counts /\ bar = Counts.published
          ELSE logged = NoCounts
    /\ display # "stopped" => logged = NoCounts

\* The command waits for the run, then for the display, then reports.
CliInv ==
    /\ cli \in {"running", "waiting", "reporting", "exited"}
    /\ cli # "running" => run = "returned"
    /\ cli \in {"reporting", "exited"} => display = "stopped"
    /\ cli = "reporting" => result = "ok"
    /\ cli # "exited" => report = NoReport
    /\ cli = "exited" =>
          IF result = "ok"
          THEN /\ report = Report
               /\ exitErr \in IF runErr = "nil" THEN {"nil", "reportError"} ELSE {runErr}
          ELSE report = NoReport /\ exitErr = runErr

PartsInv == Connecting!ConnectInv /\ Loops!LoopInv /\ HandoverInv
ProgressInv == RunInv /\ ErrorInv /\ SamplerInv /\ DisplayInv /\ CliInv
IInv == PartsInv /\ ProgressInv

-----------------------------------------------------------------------------
(* Totals.                                                                 *)

\* The totals are those of the sums over all clients.
LEMMA TotalIs ==
    ASSUME NEW f \in [Clients -> Nat]
    PROVE  /\ Total(f) = SumFunctionOnSet(f, Clients)
           /\ Total(f) \in Nat
<1>1. Total(f) = SumFunctionOnSet(f, Clients)
  BY DEF Total, SumFunction
<1>. QED  BY <1>1, SumNat, ClientsAssumption

\* The counters count.
LEMMA CounterTypes ==
    ASSUME Loops!LoopInv
    PROVE  /\ published \in [Clients -> Nat] /\ acked \in [Clients -> Nat]
           /\ failed \in [Clients -> Nat] /\ timedOut \in [Clients -> Nat]
           /\ recorded \in [Clients -> Nat] /\ sent \in [Clients -> 0..Count]
           /\ pc \in [Clients -> Loops!PCs] /\ conn \in [Clients -> Loops!Conns]
BY DEF Loops!LoopInv, Loops!TypeOK

\* Nothing is left to happen to the counters once every client is done.
LEMMA NoWaiterLeft ==
    ASSUME Loops!LoopInv, NEW c \in Clients, NEW m \in Loops!Messages,
           pc[c] \in {"idle", "done"}
    PROVE  ~Loops!WaitStep(c, m)
<1>1. waiter[c][m] \in {"none", "finished"}
  BY PartsAssumed, Loops!RestAddsUp
<1>. QED  BY <1>1 DEF Loops!WaitStep, Loops!CountTimedOut, Loops!CountFailed,
          Loops!RecordLatency, Loops!CountAcked, Loops!Release, Loops!WaiterDone

-----------------------------------------------------------------------------
(* The invariant is inductive.                                             *)

\* The initial states satisfy the invariant.
LEMMA InitInv == Init => IInv
<1>. HAVE Init
<1>1. Connecting!Init /\ Loops!InitLoops
  BY DEF Init, Connect!Init, Connect!InitConnect, Connecting!Init, Connecting!InitConnect,
     Client!InitLoops, Client!Messages, Loops!InitLoops, Loops!Messages
<1>2. Connecting!ConnectInv
  BY <1>1, PartsAssumed, Connecting!InitInv DEF Connecting!IInv
<1>3. ctxDone \in BOOLEAN /\ conn = [c \in Clients |-> "none"]
  BY <1>1 DEF Connecting!Init
<1>4. Loops!LoopInv
  BY <1>1, <1>3, PartsAssumed, Loops!InitInv DEF Loops!Conns
<1>5. /\ pc = [c \in Clients |-> "idle"] /\ stage = "launch" /\ result = "none"
      /\ acked = [c \in Clients |-> 0]
  BY <1>1 DEF Connecting!Init, Connecting!InitConnect, Loops!InitLoops
<1>6. HandoverInv
  BY <1>5 DEF HandoverInv, HandedOver
<1>7. 0 \in 0..Total(acked)
  BY <1>5, TotalIs
<1>8. ProgressInv
  BY <1>5, <1>7 DEF Init, ProgressInv, RunInv, ErrorInv, SamplerInv, DisplayInv, CliInv, RunStates
<1>. QED  BY <1>2, <1>4, <1>6, <1>8 DEF IInv, PartsInv

\* connectClients and its tasks are done when RunPublish goes on.
LEMMA ConnectsBeforeReturn ==
    ASSUME Connecting!ConnectInv, NEW c \in Clients,
           Connecting!GroupStep \/ Connecting!TaskStep(c)
    PROVE  stage # "returned"
<1>1. CASE Connecting!GroupStep
  BY <1>1 DEF Connecting!GroupStep, Connecting!Launch, Connecting!Wait,
     Connecting!DisconnectNext, Connecting!DisconnectedAll
<1>2. CASE Connecting!TaskStep(c)
  <2>1. stage' # "returned"
    BY <1>2, PartsAssumed, Connecting!TaskStepInv
  <2>2. stage' = stage
    BY <1>2 DEF Connecting!TaskStep, Connecting!CheckPassed, Connecting!Skip, Connecting!Dial,
       Connecting!DialAccepted, Connecting!DialRefused, Connecting!DialCancelled,
       Connecting!Record, Connecting!ReportError, Connecting!Finish
  <2>. QED  BY <2>1, <2>2
<1>. QED  BY <1>1, <1>2

\* Steps beside connecting and the loops leave both as they are.
LEMMA PartsFrame ==
    ASSUME PartsInv, UNCHANGED <<conn, connectVars, loopVars>>,
           ctxDone' \in BOOLEAN, ctxDone => ctxDone'
    PROVE  PartsInv'
<1>1. conn \in [Clients -> Loops!Conns]
  BY CounterTypes DEF PartsInv
<1>2. Connecting!ConnectInv'
  BY <1>1, PartsAssumed, Connecting!OutsideInv
     DEF PartsInv, connectVars, Connecting!connectVars, Loops!Conns, Connecting!Conns
<1>3. Loops!LoopInv'
  BY <1>1, PartsAssumed, Loops!ContextInv DEF PartsInv, loopVars, Loops!counterVars
<1>4. HandoverInv'
  BY DEF PartsInv, HandoverInv, HandedOver, connectVars, loopVars
<1>. QED  BY <1>2, <1>3, <1>4 DEF PartsInv

\* The context is a flag.
LEMMA ContextType == PartsInv => ctxDone \in BOOLEAN
BY DEF PartsInv, Loops!LoopInv, Loops!TypeOK

\* Connecting goes on while RunPublish waits for it and no loop has started.
LEMMA ConnectStepInv ==
    ASSUME IInv, ConnectStep
    PROVE  IInv'
<1>1. Connecting!ConnectInv /\ Loops!LoopInv /\ HandoverInv /\ ProgressInv
  BY DEF IInv, PartsInv
<1>2. PICK c \in Clients : Connecting!GroupStep \/ Connecting!TaskStep(c)
  BY ConnectSteps, ClientsAssumption DEF ConnectStep
<1>3. stage # "returned" /\ run = "connecting" /\ \A d \in Clients : pc[d] = "idle"
  BY <1>1, <1>2, ConnectsBeforeReturn DEF ProgressInv, RunInv
<1>4. /\ Connecting!ConnectInv'
      /\ HandedOver' => \A d \in Clients : conn'[d] = "live"
  <2>1. CASE Connecting!GroupStep
    <3>1. ~Connecting!HandedOver
      BY <1>3 DEF Connecting!HandedOver
    <3>2. /\ Connecting!ConnectInv'
          /\ Connecting!HandedOver' => \A d \in Clients : conn'[d] = "live"
      BY <1>1, <2>1, <3>1, PartsAssumed, Connecting!GroupStepInv
    <3>. QED  BY <3>2 DEF Connecting!HandedOver, HandedOver
  <2>2. CASE Connecting!TaskStep(c)
    <3>1. Connecting!ConnectInv' /\ stage' # "returned"
      BY <1>1, <2>2, PartsAssumed, Connecting!TaskStepInv
    <3>. QED  BY <3>1 DEF HandedOver
  <2>. QED  BY <1>2, <2>1, <2>2
<1>5. ctxDone' \in BOOLEAN /\ conn' \in [Clients -> Loops!Conns]
  BY <1>4 DEF Connecting!ConnectInv, Connecting!TypeOK, Connecting!Conns, Loops!Conns
<1>6. UNCHANGED <<loopVars, runVars, samplerVars, displayVars, cliVars>>
  BY DEF ConnectStep
<1>7. Loops!LoopInv'
  BY <1>1, <1>5, <1>6, PartsAssumed, Loops!ContextInv DEF loopVars, Loops!counterVars
<1>8. HandoverInv'
  BY <1>3, <1>4, <1>6 DEF HandoverInv, loopVars
<1>9. ProgressInv'
  <2>1. RunInv' /\ ErrorInv'
    BY <1>1, <1>3, <1>6 DEF ProgressInv, RunInv, ErrorInv, loopVars, runVars
  <2>2. SamplerInv'
    BY <1>1, <1>3, <1>6
       DEF ProgressInv, SamplerInv, loopVars, runVars, samplerVars, Total
  <2>3. DisplayInv'
    BY <1>1, <1>3, <1>6 DEF ProgressInv, RunInv, DisplayInv, runVars, displayVars
  <2>4. CliInv'
    BY <1>1, <1>3, <1>6 DEF ProgressInv, CliInv, runVars, displayVars, cliVars
  <2>. QED  BY <2>1, <2>2, <2>3, <2>4 DEF ProgressInv
<1>. QED  BY <1>4, <1>7, <1>8, <1>9 DEF IInv, PartsInv

\* While the loops publish nobody has drawn a conclusion from their counters yet;
\* the samples only need the acks to grow.
LEMMA PublishingInv ==
    ASSUME IInv, run = "publishing", Loops!LoopInv',
           UNCHANGED <<connectVars, runVars, samplerVars, displayVars, cliVars>>,
           ctxDone => ctxDone', \A c \in Clients : acked[c] <= acked'[c]
    PROVE  ProgressInv'
<1>1. Loops!LoopInv /\ ProgressInv
  BY DEF IInv, PartsInv
<1>2. result = "ok" /\ ~done /\ display \in {"connectBar", "publishBar"} /\ cli = "running"
  BY <1>1 DEF ProgressInv, RunInv, DisplayInv, CliInv
<1>3. Total(acked) \in Nat /\ Total(acked') \in Nat /\ Total(acked) <= Total(acked')
  <2>1. acked \in [Clients -> Nat] /\ acked' \in [Clients -> Nat]
    BY <1>1, CounterTypes DEF Loops!LoopInv, Loops!TypeOK
  <2>2. SumFunctionOnSet(acked, Clients) <= SumFunctionOnSet(acked', Clients)
    BY <2>1, SumMonotone, ClientsAssumption
  <2>. QED  BY <2>1, <2>2, TotalIs
<1>4. RunInv' /\ ErrorInv'
  BY <1>1, <1>2 DEF ProgressInv, RunInv, ErrorInv, runVars, connectVars
<1>5. SamplerInv'
  <2>1. SamplerInv /\ RunInv
    BY <1>1 DEF ProgressInv
  <2>2. sampler # "stopped" => sampler' # "stopped"
    BY DEF samplerVars
  <2>3. 0..Total(acked) \subseteq 0..Total(acked')
    BY <1>3
  <2>4. Total(acked)' = Total(acked')
    BY DEF Total
  <2>. QED  BY <2>1, <2>3, <2>4 DEF SamplerInv, runVars, connectVars, samplerVars
<1>6. DisplayInv'
  BY <1>1, <1>2 DEF ProgressInv, DisplayInv, runVars, connectVars, displayVars
<1>7. CliInv'
  BY <1>1, <1>2 DEF ProgressInv, CliInv, runVars, connectVars, displayVars, cliVars
<1>. QED  BY <1>4, <1>5, <1>6, <1>7 DEF ProgressInv

\* A step of a publish loop preserves the invariant: it closes its connection
\* itself, after it was handed over.
LEMMA LoopStepInv ==
    ASSUME IInv, NEW c \in Clients, LoopStep(c)
    PROVE  IInv'
<1>1. Connecting!ConnectInv /\ Loops!LoopInv /\ HandoverInv /\ ProgressInv
  BY DEF IInv, PartsInv
<1>2. /\ run = "publishing" /\ Loops!SendStep(c)
      /\ UNCHANGED <<connectVars, runVars, samplerVars, displayVars, cliVars>>
  BY LoopSteps DEF LoopStep
<1>3. HandedOver /\ HandedOver'
  BY <1>1, <1>2 DEF ProgressInv, RunInv, HandedOver, connectVars
<1>4. Loops!LoopInv'
  BY <1>1, <1>2, PartsAssumed, Loops!SendStepInv
<1>5. /\ pc[c] # "done" /\ ctxDone' = ctxDone /\ acked' = acked
      /\ \/ conn' = conn /\ pc'[c] # "done"
         \/ conn' = [conn EXCEPT ![c] = "closed"] /\ pc'[c] = "done"
      /\ \A d \in Clients \ {c} : pc'[d] = pc[d]
  <2>1. pc \in [Clients -> Loops!PCs]
    BY <1>1, CounterTypes
  <2>. QED  BY <1>2, <2>1
       DEF Loops!SendStep, Loops!Start, Loops!Acquire, Loops!AcquireCancelled, Loops!Publish,
           Loops!CountPublished, Loops!Spawn, Loops!PauseOver, Loops!PauseCancelled,
           Loops!Drained, Loops!Disconnect, Loops!Goto, Loops!counterVars
<1>6. conn \in [Clients -> Loops!Conns] /\ ctxDone \in BOOLEAN
  BY <1>1, CounterTypes, ContextType DEF IInv
<1>7. HandoverInv'
  BY <1>1, <1>3, <1>5, <1>6 DEF HandoverInv
<1>8. Connecting!ConnectInv'
  <2>1. conn' \in [Clients -> Connecting!Conns]
    BY <1>5, <1>6 DEF Connecting!Conns, Loops!Conns
  <2>2. Connecting!HandedOver
    BY <1>3 DEF HandedOver, Connecting!HandedOver
  <2>3. \A d \in Clients : conn'[d] = conn[d] \/ (Connecting!HandedOver /\ conn'[d] = "closed")
    BY <1>5, <1>6, <2>2
  <2>4. UNCHANGED Connecting!connectVars
    BY <1>2 DEF connectVars, Connecting!connectVars
  <2>. QED  BY <1>1, <1>5, <1>6, <2>1, <2>3, <2>4, PartsAssumed, Connecting!OutsideInv
<1>9. \A d \in Clients : acked[d] <= acked'[d]
  <2>1. acked \in [Clients -> Nat]
    BY <1>1, CounterTypes
  <2>. QED  BY <1>5, <2>1
<1>10. ProgressInv'
  BY <1>2, <1>4, <1>5, <1>9, PublishingInv
<1>. QED  BY <1>4, <1>7, <1>8, <1>10 DEF IInv, PartsInv

\* A step of a waiter preserves the invariant: waiters only run while their loop
\* does, so nobody has read the final counts yet.
LEMMA WaiterStepInv ==
    ASSUME IInv, NEW c \in Clients, NEW m \in Client!Messages, WaiterStep(c, m)
    PROVE  IInv'
<1>1. Connecting!ConnectInv /\ Loops!LoopInv /\ HandoverInv /\ ProgressInv
  BY DEF IInv, PartsInv
<1>2. /\ m \in Loops!Messages /\ Loops!WaitStep(c, m)
      /\ UNCHANGED <<connectVars, runVars, samplerVars, displayVars, cliVars>>
  BY LoopSteps DEF WaiterStep
<1>3. pc[c] \notin {"idle", "done"}
  BY <1>1, <1>2, NoWaiterLeft
<1>4. run = "publishing"
  <2>1. result = "ok" /\ stage = "returned"
    BY <1>1, <1>3 DEF HandoverInv, HandedOver
  <2>2. ~Client!AllDone
    BY <1>3 DEF Client!AllDone
  <2>. QED  BY <1>1, <1>3, <2>1, <2>2 DEF ProgressInv, RunInv, RunStates
<1>5. Loops!LoopInv'
  BY <1>1, <1>2, PartsAssumed, Loops!WaitStepInv
<1>6. /\ ctxDone' = ctxDone /\ conn' = conn /\ pc' = pc
      /\ acked' = acked \/ acked' = [acked EXCEPT ![c] = @ + 1]
  BY <1>2 DEF Loops!WaitStep, Loops!CountTimedOut, Loops!CountFailed, Loops!RecordLatency,
     Loops!CountAcked, Loops!Release, Loops!WaiterDone, Loops!counterVars
<1>7. HandoverInv'
  BY <1>1, <1>2, <1>6 DEF HandoverInv, HandedOver, connectVars
<1>8. Connecting!ConnectInv'
  <2>1. conn \in [Clients -> Connecting!Conns] /\ ctxDone \in BOOLEAN
    BY <1>1, CounterTypes, ContextType DEF IInv, Connecting!Conns, Loops!Conns
  <2>2. UNCHANGED Connecting!connectVars
    BY <1>2 DEF connectVars, Connecting!connectVars
  <2>. QED  BY <1>1, <1>6, <2>1, <2>2, PartsAssumed, Connecting!OutsideInv
<1>9. \A d \in Clients : acked[d] <= acked'[d]
  <2>1. acked \in [Clients -> Nat]
    BY <1>1, CounterTypes
  <2>. QED  BY <1>6, <2>1
<1>10. ProgressInv'
  BY <1>2, <1>4, <1>5, <1>6, <1>9, PublishingInv
<1>. QED  BY <1>5, <1>7, <1>8, <1>10 DEF IInv, PartsInv

\* The counts are what the counters are.
LEMMA CountsFrame ==
    ASSUME UNCHANGED loopVars
    PROVE  /\ Counts' = Counts /\ Total(acked)' = Total(acked)
           /\ Total(recorded)' = Total(recorded) /\ Client!AllDone' = Client!AllDone
           /\ UNCHANGED <<pc, acked>>
BY DEF loopVars, Counts, Total, Client!AllDone

\* The broker answers dials before the handover and tokens at any time.
LEMMA BrokerStepInv ==
    ASSUME IInv, BrokerStep
    PROVE  IInv'
<1>1. Connecting!ConnectInv /\ Loops!LoopInv /\ HandoverInv /\ ProgressInv
  BY DEF IInv, PartsInv
<1>2. ASSUME NEW c \in Clients, Connect!BrokerAccepts(c) \/ Connect!BrokerRefuses(c),
             UNCHANGED <<loopVars, runVars, samplerVars, displayVars, cliVars>>
      PROVE  IInv'
  <2>1. Connecting!BrokerAccepts(c) \/ Connecting!BrokerRefuses(c)
    BY <1>2, ConnectSteps
  <2>2. /\ Connecting!ConnectInv' /\ ~Connecting!HandedOver
        /\ Connecting!HandedOver' = Connecting!HandedOver
    BY <1>1, <2>1, PartsAssumed, Connecting!BrokerInv
  <2>3. UNCHANGED <<ctxDone, stage, result, connected>>
    BY <2>1 DEF Connecting!BrokerAccepts, Connecting!BrokerRefuses
  <2>4. conn' \in [Clients -> Loops!Conns] /\ ctxDone' \in BOOLEAN
    BY <2>2 DEF Connecting!ConnectInv, Connecting!TypeOK, Connecting!Conns, Loops!Conns
  <2>5. Loops!LoopInv'
    BY <1>1, <1>2, <2>4, PartsAssumed, Loops!ContextInv DEF loopVars, Loops!counterVars
  <2>6. HandoverInv'
    BY <1>1, <1>2, <2>2, <2>3, CountsFrame DEF HandoverInv, HandedOver, Connecting!HandedOver
  <2>7. ProgressInv'
    BY <1>1, <1>2, <2>3, CountsFrame
       DEF ProgressInv, RunInv, ErrorInv, SamplerInv, DisplayInv, CliInv, Report,
           runVars, samplerVars, displayVars, cliVars
  <2>. QED  BY <2>2, <2>5, <2>6, <2>7 DEF IInv, PartsInv
<1>3. ASSUME NEW c \in Clients, NEW m \in Client!Messages, Client!BrokerAnswers(c, m),
             UNCHANGED <<connectVars, runVars, samplerVars, displayVars, cliVars>>
      PROVE  IInv'
  <2>1. Loops!BrokerAnswers(c, m) /\ m \in Loops!Messages
    BY <1>3, LoopSteps
  <2>2. Loops!LoopInv'
    BY <1>1, <2>1, PartsAssumed, Loops!AnswerInv
  <2>3. UNCHANGED <<ctxDone, conn, pc, published, acked, failed, timedOut, recorded>>
    BY <2>1 DEF Loops!BrokerAnswers, Loops!counterVars
  <2>4. Connecting!ConnectInv'
    <3>1. conn \in [Clients -> Connecting!Conns] /\ ctxDone \in BOOLEAN
      BY <1>1, CounterTypes, ContextType DEF IInv, Connecting!Conns, Loops!Conns
    <3>2. UNCHANGED Connecting!connectVars
      BY <1>3 DEF connectVars, Connecting!connectVars
    <3>. QED  BY <1>1, <2>3, <3>1, <3>2, PartsAssumed, Connecting!OutsideInv
  <2>5. HandoverInv'
    BY <1>1, <1>3, <2>3 DEF HandoverInv, HandedOver, connectVars
  <2>6. /\ Counts' = Counts /\ Total(acked)' = Total(acked)
        /\ Total(recorded)' = Total(recorded) /\ Client!AllDone' = Client!AllDone
    BY <2>3 DEF Counts, Total, Client!AllDone
  <2>7. ProgressInv'
    BY <1>1, <1>3, <2>3, <2>6
       DEF ProgressInv, RunInv, ErrorInv, SamplerInv, DisplayInv, CliInv, Report,
           connectVars, runVars, samplerVars, displayVars, cliVars
  <2>. QED  BY <2>2, <2>4, <2>5, <2>7 DEF IInv, PartsInv
<1>. QED  BY <1>2, <1>3 DEF BrokerStep

\* Ctrl-C preserves the invariant.
LEMMA CancelInv ==
    ASSUME IInv, Cancel
    PROVE  IInv'
<1>1. /\ ctxDone' = TRUE
      /\ UNCHANGED <<conn, connectVars, loopVars, runVars, samplerVars, displayVars, cliVars>>
  BY DEF Cancel, Connect!Cancel, Connect!connectVars, connectVars
<1>2. PartsInv'
  BY <1>1, PartsFrame DEF IInv
<1>3. ProgressInv'
  BY <1>1, CountsFrame
     DEF IInv, ProgressInv, RunInv, ErrorInv, SamplerInv, DisplayInv, CliInv, Report,
         connectVars, runVars, samplerVars, displayVars, cliVars
<1>. QED  BY <1>2, <1>3 DEF IInv

-----------------------------------------------------------------------------
(* The steps of the run itself and of the goroutines beside it.            *)

\* What every such step leaves alone.
LEMMA BesideFrame ==
    ASSUME IInv, UNCHANGED <<ctxDone, conn, connectVars, loopVars>>
    PROVE  /\ PartsInv' /\ Counts' = Counts /\ Total(acked)' = Total(acked)
           /\ Total(recorded)' = Total(recorded) /\ Client!AllDone' = Client!AllDone
           /\ UNCHANGED <<pc, acked, stage, result, connected>>
           /\ ctxDone' = ctxDone
BY PartsFrame, CountsFrame, ContextType DEF IInv, connectVars

\* A step of RunPublish after connecting preserves the invariant.
LEMMA RunStepInv ==
    ASSUME IInv,
           \/ MarkConnected \/ CloseConnectFinished \/ StartSampler
           \/ Finish \/ CloseDone \/ Return
    PROVE  IInv'
<1>1. /\ RunFrame
      /\ PartsInv' /\ Counts' = Counts /\ Total(acked)' = Total(acked)
      /\ Total(recorded)' = Total(recorded) /\ Client!AllDone' = Client!AllDone
      /\ UNCHANGED <<pc, acked, stage, result, connected>> /\ ctxDone' = ctxDone
  BY BesideFrame DEF MarkConnected, CloseConnectFinished, StartSampler, Finish, CloseDone,
     Return, RunFrame
<1>2. RunInv /\ ErrorInv /\ SamplerInv /\ DisplayInv /\ CliInv
  BY DEF IInv, ProgressInv
<1>3. /\ run # "returned" /\ run \in RunStates /\ cli = "running"
      /\ UNCHANGED <<display, connectBar, bar, logged, cli, runFinished, stopLine, report,
                     exitErr, sampled, ackedPerInterval>>
  BY <1>1, <1>2 DEF RunFrame, displayVars, cliVars, samplerVars, MarkConnected, RunInv, CliInv,
     CloseConnectFinished, StartSampler, Finish, CloseDone, Return
<1>4. RunInv'
  <2>1. CASE MarkConnected
    BY <1>1, <1>2, <2>1 DEF MarkConnected, RunInv, RunStates
  <2>2. CASE CloseConnectFinished
    BY <1>1, <1>2, <2>2 DEF CloseConnectFinished, RunInv, RunStates
  <2>3. CASE StartSampler
    BY <1>1, <1>2, <2>3 DEF StartSampler, RunInv, RunStates
  <2>4. CASE Finish
    BY <1>1, <1>2, <2>4 DEF Finish, RunInv, RunStates
  <2>5. CASE CloseDone
    BY <1>1, <1>2, <2>5 DEF CloseDone, RunInv, RunStates
  <2>6. CASE Return
    BY <1>1, <1>2, <2>6 DEF Return, RunInv, RunStates
  <2>. QED  BY <2>1, <2>2, <2>3, <2>4, <2>5, <2>6
<1>5. ErrorInv'
  BY <1>1, <1>2, <1>3 DEF ErrorInv, RunInv, MarkConnected, CloseConnectFinished, StartSampler,
     Finish, CloseDone, Return
<1>6. SamplerInv'
  BY <1>1, <1>2, <1>3 DEF SamplerInv, RunInv, MarkConnected, CloseConnectFinished, StartSampler,
     Finish, CloseDone, Return, samplerVars
<1>7. DisplayInv'
  <2>1. (done => done') /\ (connectFinished => connectFinished')
    BY <1>2, <1>3 DEF RunInv, MarkConnected, CloseConnectFinished, StartSampler, Finish,
       CloseDone, Return
  <2>. QED  BY <1>1, <1>2, <1>3, <2>1 DEF DisplayInv
<1>8. CliInv'
  BY <1>1, <1>2, <1>3 DEF CliInv
<1>. QED  BY <1>1, <1>4, <1>5, <1>6, <1>7, <1>8 DEF IInv, ProgressInv

\* A step of the sampler preserves the invariant.
LEMMA SamplerStepInv ==
    ASSUME IInv, Sample \/ StopSampler
    PROVE  IInv'
<1>1. /\ UNCHANGED runVars /\ UNCHANGED <<displayVars, cliVars>>
      /\ PartsInv' /\ Counts' = Counts /\ Total(acked)' = Total(acked)
      /\ Total(recorded)' = Total(recorded) /\ Client!AllDone' = Client!AllDone
      /\ UNCHANGED <<pc, acked, stage, result, connected>> /\ ctxDone' = ctxDone
  BY BesideFrame DEF Sample, StopSampler, RunFrame
<1>2. RunInv /\ ErrorInv /\ SamplerInv /\ DisplayInv /\ CliInv
  BY DEF IInv, ProgressInv
<1>3. sampler = "running" /\ cli # "exited"
  BY <1>2 DEF Sample, StopSampler, CliInv, SamplerInv
<1>4. RunInv' /\ ErrorInv' /\ DisplayInv'
  BY <1>1, <1>2 DEF RunInv, ErrorInv, DisplayInv, runVars, displayVars
<1>5. SamplerInv'
  <2>1. Total(acked) \in Nat
    BY TotalIs, CounterTypes DEF IInv, PartsInv
  <2>2. CASE Sample
    BY <1>1, <1>2, <2>1, <2>2 DEF Sample, SamplerInv, runVars, Counts
  <2>3. CASE StopSampler
    BY <1>1, <1>2, <2>3 DEF StopSampler, SamplerInv, runVars
  <2>. QED  BY <2>2, <2>3
<1>6. CliInv'
  BY <1>1, <1>2, <1>3 DEF CliInv, runVars, displayVars, cliVars
<1>. QED  BY <1>1, <1>4, <1>5, <1>6 DEF IInv, ProgressInv

\* A step of the display preserves the invariant.
LEMMA DisplayStepInv ==
    ASSUME IInv, TickConnectBar \/ TickPublishBar \/ DisplayStep
    PROVE  IInv'
<1>1. /\ UNCHANGED <<runVars, samplerVars, cliVars>>
      /\ PartsInv' /\ Counts' = Counts /\ Total(acked)' = Total(acked)
      /\ Total(recorded)' = Total(recorded) /\ Client!AllDone' = Client!AllDone
      /\ UNCHANGED <<pc, acked, stage, result, connected>> /\ ctxDone' = ctxDone
  BY BesideFrame DEF TickConnectBar, TickPublishBar, DisplayStep, EndConnectBar, EndPublishBar,
     LogSummary, DisplayFrame
<1>2. RunInv /\ ErrorInv /\ SamplerInv /\ DisplayInv /\ CliInv
  BY DEF IInv, ProgressInv
<1>3. display # "stopped" /\ cli \notin {"reporting", "exited"}
  BY <1>2 DEF TickConnectBar, TickPublishBar, DisplayStep, EndConnectBar, EndPublishBar,
     LogSummary, CliInv
<1>4. RunInv' /\ ErrorInv' /\ SamplerInv'
  BY <1>1, <1>2 DEF RunInv, ErrorInv, SamplerInv, runVars, samplerVars
<1>5. DisplayInv'
  BY <1>1, <1>2 DEF DisplayInv, RunInv, TickConnectBar, TickPublishBar, DisplayStep,
     EndConnectBar, EndPublishBar, LogSummary, runVars
<1>6. CliInv'
  BY <1>1, <1>2, <1>3 DEF CliInv, runVars, samplerVars, cliVars
<1>. QED  BY <1>1, <1>4, <1>5, <1>6 DEF IInv, ProgressInv

\* A step of the command preserves the invariant.
LEMMA CommandStepInv ==
    ASSUME IInv, CliStep \/ StopLineStep
    PROVE  IInv'
<1>1. /\ UNCHANGED <<runVars, samplerVars, displayVars>>
      /\ PartsInv' /\ Counts' = Counts /\ Total(acked)' = Total(acked)
      /\ Total(recorded)' = Total(recorded) /\ Client!AllDone' = Client!AllDone
      /\ UNCHANGED <<pc, acked, stage, result, connected>> /\ ctxDone' = ctxDone
  BY BesideFrame DEF CliStep, StopLineStep, CloseRunFinished, AwaitDisplay, WriteReport,
     LogStopping, SkipStopping, CliFrame
<1>2. RunInv /\ ErrorInv /\ SamplerInv /\ DisplayInv /\ CliInv
  BY DEF IInv, ProgressInv
<1>3. RunInv' /\ ErrorInv' /\ SamplerInv' /\ DisplayInv'
  BY <1>1, <1>2 DEF RunInv, ErrorInv, SamplerInv, DisplayInv, runVars, samplerVars, displayVars
<1>4. Report' = Report
  BY <1>1 DEF Report, samplerVars
<1>5. CliInv'
  BY <1>1, <1>2, <1>4 DEF CliInv, RunInv, CliStep, StopLineStep, CloseRunFinished, AwaitDisplay,
     WriteReport, LogStopping, SkipStopping, runVars, displayVars
<1>. QED  BY <1>1, <1>3, <1>5 DEF IInv, ProgressInv

\* Every step of the run preserves the invariant.
LEMMA NextInv == IInv /\ [Next]_vars => IInv'
<1>. SUFFICES ASSUME IInv, [Next]_vars
              PROVE  IInv'
  OBVIOUS
<1>1. CASE UNCHANGED vars
  <2>1. /\ PartsInv' /\ Counts' = Counts /\ Total(acked)' = Total(acked)
        /\ Total(recorded)' = Total(recorded) /\ Client!AllDone' = Client!AllDone
        /\ UNCHANGED <<pc, acked, stage, result, connected>> /\ ctxDone' = ctxDone
    BY <1>1, BesideFrame DEF vars
  <2>. QED  BY <1>1, <2>1
       DEF vars, IInv, ProgressInv, RunInv, ErrorInv, SamplerInv, DisplayInv, CliInv, Report,
           runVars, samplerVars, displayVars, cliVars
<1>2. CASE RunStep
  BY <1>2, ConnectStepInv, RunStepInv DEF RunStep
<1>3. CASE Sample \/ StopSampler
  BY <1>3, SamplerStepInv
<1>4. CASE TickConnectBar \/ TickPublishBar \/ DisplayStep
  BY <1>4, DisplayStepInv
<1>5. CASE CliStep \/ StopLineStep
  BY <1>5, CommandStepInv
<1>6. CASE \E c \in Clients : LoopStep(c)
  BY <1>6, LoopStepInv
<1>7. CASE \E c \in Clients, m \in Client!Messages : WaiterStep(c, m)
  BY <1>7, WaiterStepInv
<1>8. CASE BrokerStep
  BY <1>8, BrokerStepInv
<1>9. CASE Cancel
  BY <1>9, CancelInv
<1>. QED  BY <1>1, <1>2, <1>3, <1>4, <1>5, <1>6, <1>7, <1>8, <1>9 DEF Next, Terminating

\* The invariant holds throughout every run.
THEOREM Invariant == Spec => []IInv
<1>. QED  BY InitInv, NextInv, PTL DEF Spec

-----------------------------------------------------------------------------
(* Types.  The invariant has those of the two parts, and of all that decides  *)
(* where a goroutine goes; the rest follows step by step.                     *)

\* What the goroutines of a run show, report and return.
ShownTypes ==
    /\ runErr \in RunErrors /\ exitErr \in RunErrors
    /\ connectFailed \in BOOLEAN /\ connectFinished \in BOOLEAN /\ publishStarted \in BOOLEAN
    /\ finished \in BOOLEAN /\ done \in BOOLEAN /\ runFinished \in BOOLEAN
    /\ ackedPerInterval \in Nat \cup {-1}
    /\ bar \in Nat /\ connectBar \in 0..Cardinality(Clients)
    /\ stopLine \in {"waiting", "logged", "over"}

\* The two parts have their types, as seen from here.
LEMMA PartsTyped == IInv => Connect!TypeOK /\ Client!TypeOK
<1>. HAVE IInv
<1>1. Connecting!TypeOK /\ Loops!TypeOK
  BY DEF IInv, PartsInv, Connecting!ConnectInv, Loops!LoopInv
<1>2. Connecting!TypeOK => Connect!TypeOK
  BY DEF Connecting!TypeOK, Connect!TypeOK, Connecting!Conns, Connect!Conns,
     Connecting!Dials, Connect!Dials, Connecting!Tasks, Connect!Tasks,
     Connecting!Errors, Connect!Errors, Connecting!Stages, Connect!Stages,
     Connecting!Results, Connect!Results,
     Cardinality, Connecting!Cardinality, Connect!Cardinality
<1>3. Loops!TypeOK => Client!TypeOK
  BY DEF Loops!TypeOK, Client!TypeOK, Loops!Conns, Client!Conns, Loops!PCs, Client!PCs,
     Loops!Publishing, Client!Publishing, Loops!Tokens, Client!Tokens,
     Loops!Waiters, Client!Waiters, Loops!Running, Client!Running,
     Loops!Holding, Client!Holding, Loops!Unsettled, Client!Unsettled,
     Loops!Messages, Client!Messages
<1>. QED  BY <1>1, <1>2, <1>3

\* What the bars and the sampler take their numbers from.
LEMMA ShownNumbers ==
    ASSUME IInv
    PROVE  Counts.published \in Nat /\ sampled \in Nat /\ connected \in 0..Cardinality(Clients)
<1>1. Loops!LoopInv /\ SamplerInv
  BY DEF IInv, PartsInv, ProgressInv
<1>2. Counts.published \in Nat /\ sampled \in Nat
  BY <1>1, CounterTypes, TotalIs DEF Counts, SamplerInv
<1>3. connected \in 0..Cardinality(Clients)
  BY PartsTyped DEF Connect!TypeOK, Cardinality, Connect!Cardinality
<1>. QED  BY <1>2, <1>3

\* A run is typed throughout.
THEOREM TypeCorrect == Spec => []TypeOK
<1>1. Init => ShownTypes
  <2>1. Cardinality(Clients) \in Nat
    BY ClientsAssumption, FS_CardinalityType
  <2>. HAVE Init
  <2>2. /\ runErr \in RunErrors /\ exitErr \in RunErrors
        /\ stopLine \in {"waiting", "logged", "over"}
    BY DEF Init, RunErrors
  <2>3. /\ connectFailed \in BOOLEAN /\ connectFinished \in BOOLEAN
        /\ publishStarted \in BOOLEAN /\ finished \in BOOLEAN
        /\ done \in BOOLEAN /\ runFinished \in BOOLEAN
    BY DEF Init
  <2>4. ackedPerInterval \in Nat \cup {-1} /\ bar \in Nat
    BY DEF Init
  <2>5. connectBar \in 0..Cardinality(Clients)
    BY <2>1 DEF Init
  <2>. QED  BY <2>2, <2>3, <2>4, <2>5 DEF ShownTypes
<1>2. IInv /\ ShownTypes /\ [Next]_vars => ShownTypes'
  <2>. SUFFICES ASSUME IInv, ShownTypes, [Next]_vars
                PROVE  ShownTypes'
    OBVIOUS
  <2>. USE DEF ShownTypes, runVars, samplerVars, displayVars, cliVars
  <2>1. CASE RunStep
    BY <2>1 DEF RunStep, ConnectStep, MarkConnected, CloseConnectFinished, StartSampler, Finish,
       CloseDone, Return, RunFrame, RunErrors
  <2>2. CASE Sample \/ StopSampler
    BY <2>2, ShownNumbers DEF Sample, StopSampler, RunFrame
  <2>3. CASE TickConnectBar \/ TickPublishBar \/ DisplayStep
    BY <2>3, ShownNumbers DEF TickConnectBar, TickPublishBar, DisplayStep, EndConnectBar,
       EndPublishBar, LogSummary, DisplayFrame
  <2>4. CASE CliStep \/ StopLineStep
    BY <2>4 DEF CliStep, StopLineStep, CloseRunFinished, AwaitDisplay, WriteReport,
       LogStopping, SkipStopping, CliFrame, RunErrors
  <2>5. CASE \/ \E c \in Clients : LoopStep(c)
             \/ \E c \in Clients, m \in Client!Messages : WaiterStep(c, m)
             \/ BrokerStep \/ Cancel \/ UNCHANGED vars
    BY <2>5 DEF LoopStep, WaiterStep, BrokerStep, Cancel, vars
  <2>. QED  BY <2>1, <2>2, <2>3, <2>4, <2>5 DEF Next, Terminating
<1>3. IInv /\ ShownTypes => TypeOK
  <2>. HAVE IInv /\ ShownTypes
  <2>1. RunInv /\ SamplerInv /\ DisplayInv /\ CliInv
    BY DEF IInv, ProgressInv
  <2>. QED  BY <2>1, PartsTyped, ShownNumbers
       DEF TypeOK, ShownTypes, RunInv, SamplerInv, DisplayInv, CliInv
<1>. QED  BY <1>1, <1>2, <1>3, Invariant, PTL DEF Spec

-----------------------------------------------------------------------------
(* The checked invariants.                                                 *)

\* No client publishes before all are connected and RunPublish has said so.
THEOREM AllConnectedFirst == Spec => []PublishOnlyWhenAllConnected
<1>1. IInv => PublishOnlyWhenAllConnected
  <2>. SUFFICES ASSUME IInv, NEW c \in Clients, pc[c] # "idle"
                PROVE  /\ result = "ok" /\ stored = Clients
                       /\ connectFinished /\ publishStarted
    BY DEF PublishOnlyWhenAllConnected
  <2>1. result = "ok" /\ RunInv /\ Connecting!ConnectInv
    BY DEF IInv, PartsInv, ProgressInv, HandoverInv, HandedOver
  <2>2. stored = Clients
    BY <2>1, PartsAssumed, Connecting!SuccessStores
  <2>. QED  BY <2>1, <2>2 DEF RunInv
<1>. QED  BY <1>1, Invariant, PTL

\* The command exits with every connection closed and every goroutine ended.
THEOREM LeavesNothingBehind == Spec => []CleanExit
<1>1. IInv => CleanExit
  <2>. SUFFICES ASSUME IInv, cli = "exited"
                PROVE  /\ \A c \in Clients : conn[c] # "live"
                       /\ \A c \in Clients, m \in Client!Messages :
                             waiter[c][m] \in {"none", "finished"}
                       /\ sampler # "running"
                       /\ display = "stopped"
    BY DEF CleanExit
  <2>1. /\ Connecting!ConnectInv /\ Loops!LoopInv /\ HandoverInv
        /\ RunInv /\ SamplerInv /\ CliInv
    BY DEF IInv, PartsInv, ProgressInv
  <2>2. run = "returned" /\ stage = "returned" /\ display = "stopped" /\ sampler # "running"
    BY <2>1 DEF RunInv, SamplerInv, CliInv
  <2>3. ASSUME NEW c \in Clients, result = "ok"
        PROVE  pc[c] = "done" /\ conn[c] # "live"
    BY <2>1, <2>2, <2>3 DEF RunInv, Client!AllDone, HandoverInv, HandedOver
  <2>4. ASSUME NEW c \in Clients, result # "ok"
        PROVE  pc[c] = "idle" /\ conn[c] # "live"
    BY <2>1, <2>2, <2>4, PartsAssumed, Connecting!FailureCloses DEF HandoverInv, HandedOver
  <2>5. ASSUME NEW c \in Clients, NEW m \in Client!Messages
        PROVE  waiter[c][m] \in {"none", "finished"}
    <3>1. m \in Loops!Messages
      BY LoopSteps
    <3>2. pc[c] \in {"idle", "done"}
      BY <2>3, <2>4
    <3>. QED  BY <2>1, <3>1, <3>2, PartsAssumed, Loops!RestAddsUp
  <2>. QED  BY <2>2, <2>3, <2>4, <2>5
<1>. QED  BY <1>1, Invariant, PTL

\* The totals of a run that is over add up, with one latency per ack.
LEMMA FinalTotals ==
    ASSUME Loops!LoopInv, Client!AllDone
    PROVE  /\ Counts.published = Counts.acked + Counts.failed + Counts.timedOut
           /\ Total(recorded) = IF QoS = 0 THEN 0 ELSE Counts.acked
<1>. DEFINE failures == [c \in Clients |-> failed[c] + timedOut[c]]
<1>1. /\ published \in [Clients -> Nat] /\ acked \in [Clients -> Nat]
      /\ failed \in [Clients -> Nat] /\ timedOut \in [Clients -> Nat]
      /\ recorded \in [Clients -> Nat]
  BY CounterTypes
<1>2. ASSUME NEW c \in Clients
      PROVE  /\ acked[c] + failed[c] + timedOut[c] = published[c]
             /\ recorded[c] = IF QoS = 0 THEN 0 ELSE acked[c]
  BY PartsAssumed, Loops!RestAddsUp DEF Client!AllDone
<1>3. SumFunctionOnSet(failures, Clients)
        = SumFunctionOnSet(failed, Clients) + SumFunctionOnSet(timedOut, Clients)
  BY <1>1, SumPlus, ClientsAssumption
<1>4. SumFunctionOnSet(published, Clients)
        = SumFunctionOnSet(acked, Clients) + SumFunctionOnSet(failures, Clients)
  <2>1. \A c \in Clients : acked[c] \in Nat /\ failures[c] \in Nat
                           /\ published[c] = acked[c] + failures[c]
    BY <1>1, <1>2
  <2>. HIDE DEF failures
  <2>. QED  BY <2>1, SumPlus, ClientsAssumption
<1>5. SumFunctionOnSet(recorded, Clients)
        = IF QoS = 0 THEN 0 ELSE SumFunctionOnSet(acked, Clients)
  <2>1. CASE QoS = 0
    BY <1>2, <2>1, SumZero, ClientsAssumption
  <2>2. CASE QoS # 0
    BY <1>1, <1>2, <2>2, SumSame, ClientsAssumption
  <2>. QED  BY <2>1, <2>2
<1>. HIDE DEF failures
<1>6. /\ Total(published) = SumFunctionOnSet(published, Clients)
      /\ Total(acked) = SumFunctionOnSet(acked, Clients) /\ Total(acked) \in Nat
      /\ Total(failed) = SumFunctionOnSet(failed, Clients) /\ Total(failed) \in Nat
      /\ Total(timedOut) = SumFunctionOnSet(timedOut, Clients) /\ Total(timedOut) \in Nat
      /\ Total(recorded) = SumFunctionOnSet(recorded, Clients)
  BY <1>1, TotalIs
<1>7. Total(published) = Total(acked) + Total(failed) + Total(timedOut)
  BY <1>3, <1>4, <1>6
<1>. QED  BY <1>5, <1>6, <1>7 DEF Counts

\* Bars, the "pub stopped" line and the report agree, and add up.
THEOREM SameNumbersEverywhere == Spec => []NumbersAgree
<1>1. IInv => NumbersAgree
  <2>. SUFFICES ASSUME IInv
                PROVE  NumbersAgree
    OBVIOUS
  <2>1. Loops!LoopInv /\ RunInv /\ SamplerInv /\ DisplayInv /\ CliInv
    BY DEF IInv, PartsInv, ProgressInv
  <2>2. display # "connectBar" => connectBar = connected
    BY <2>1 DEF DisplayInv
  <2>3. ASSUME report # NoReport
        PROVE  /\ report.counts = logged
               /\ bar = logged.published
               /\ logged.published = logged.acked + logged.failed + logged.timedOut
               /\ report.latencies = IF QoS = 0 THEN 0 ELSE logged.acked
               /\ report.sampled \in 0..logged.acked
    <3>1. cli = "exited" /\ result = "ok" /\ report = Report
      BY <2>1, <2>3 DEF CliInv
    <3>2. run = "returned" /\ Client!AllDone /\ sampler = "stopped"
      BY <2>1, <3>1 DEF RunInv, SamplerInv, CliInv
    <3>3. logged = Counts /\ bar = Counts.published
      BY <2>1, <3>1 DEF DisplayInv, CliInv
    <3>4. /\ report.counts = Counts /\ report.latencies = Total(recorded)
          /\ report.sampled = ackedPerInterval
      BY <3>1 DEF Report
    <3>5. ackedPerInterval \in 0..Counts.acked
      BY <2>1, <3>2 DEF SamplerInv, Counts
    <3>6. /\ Counts.published = Counts.acked + Counts.failed + Counts.timedOut
          /\ Total(recorded) = IF QoS = 0 THEN 0 ELSE Counts.acked
      BY <2>1, <3>2, FinalTotals
    <3>. QED  BY <3>3, <3>4, <3>5, <3>6
  <2>. QED  BY <2>2, <2>3 DEF NumbersAgree
<1>. QED  BY <1>1, Invariant, PTL

\* The exit status is an error exactly when a publish went wrong.
THEOREM TruthfulExit == Spec => []ExitTruthful
<1>1. IInv => ExitTruthful
  <2>. SUFFICES ASSUME IInv, cli = "exited"
                PROVE  IF connectFailed
                       THEN /\ Total(sent) = 0 /\ report = NoReport
                            /\ exitErr = "nil" => ctxDone
                       ELSE (exitErr = "publishError")
                              <=> (report.counts.failed + report.counts.timedOut > 0)
    BY DEF ExitTruthful
  <2>1. Loops!LoopInv /\ HandoverInv /\ RunInv /\ ErrorInv /\ CliInv
    BY DEF IInv, PartsInv, ProgressInv
  <2>2. run = "returned" /\ (connectFailed <=> result # "ok")
    BY <2>1 DEF RunInv, CliInv
  <2>3. CASE connectFailed
    <3>1. \A c \in Clients : pc[c] = "idle"
      BY <2>1, <2>2, <2>3 DEF HandoverInv, HandedOver
    <3>2. \A c \in Clients : sent[c] = 0
      BY <2>1, <3>1 DEF Loops!LoopInv, Loops!Sending
    <3>3. Total(sent) = 0
      <4>1. DOMAIN sent = Clients
        BY <2>1, CounterTypes
      <4>. QED  BY <3>2, <4>1, SumZero, ClientsAssumption DEF Total, SumFunction
    <3>. QED  BY <2>1, <2>2, <2>3, <3>3 DEF ErrorInv, CliInv
  <2>4. CASE ~connectFailed
    <3>1. report.counts = Counts
      BY <2>1, <2>2, <2>4 DEF CliInv, Report
    <3>2. runErr = IF Counts.failed + Counts.timedOut > 0 THEN "publishError" ELSE "nil"
      BY <2>1, <2>2, <2>4 DEF ErrorInv
    <3>3. exitErr \in IF runErr = "nil" THEN {"nil", "reportError"} ELSE {runErr}
      BY <2>1, <2>2, <2>4 DEF CliInv
    <3>. QED  BY <2>4, <3>1, <3>2, <3>3
  <2>. QED  BY <2>3, <2>4
<1>. QED  BY <1>1, Invariant, PTL

\* The display publishes only what the run has decided, and logs a summary of a
\* run that is over.
THEOREM DisplayFollows == Spec => []DisplayFollowsRun
<1>1. IInv => DisplayFollowsRun
  <2>. SUFFICES ASSUME IInv
                PROVE  DisplayFollowsRun
    OBVIOUS
  <2>1. Loops!LoopInv /\ RunInv /\ DisplayInv
    BY DEF IInv, PartsInv, ProgressInv
  <2>2. Counts # NoCounts
    <3>1. Total(published) \in Nat
      BY <2>1, CounterTypes, TotalIs
    <3>2. Counts.published = Total(published) /\ NoCounts.published = -1
      BY DEF Counts, NoCounts
    <3>. QED  BY <3>1, <3>2
  <2>3. display \in {"publishBar", "summary"} => publishStarted /\ ~connectFailed
    BY <2>1 DEF RunInv, DisplayInv
  <2>4. display = "stopped" /\ logged = NoCounts => connectFailed
    BY <2>1, <2>2 DEF RunInv, DisplayInv
  <2>5. logged # NoCounts => finished /\ Client!AllDone
    BY <2>1 DEF RunInv, DisplayInv
  <2>. QED  BY <2>3, <2>4, <2>5 DEF DisplayFollowsRun
<1>. QED  BY <1>1, Invariant, PTL

-----------------------------------------------------------------------------
(* What the two parts promise on their own they promise in this run.         *)

\* The loops of a run work on connections that are open until they close them.
LEMMA LoopsServed == IInv => Loops!ServedInv
<1>. HAVE IInv
<1>1. Loops!LoopInv /\ HandoverInv
  BY DEF IInv, PartsInv
<1>2. \A c \in Clients : pc[c] \notin {"idle", "done"} => conn[c] # "closed"
  BY <1>1 DEF HandoverInv
<1>. QED  BY <1>1, <1>2 DEF Loops!ServedInv, Loops!ClosedInv

\* What RunPublish, the sampler, the display, the command and Ctrl-C do beside
\* connecting and the loops leaves the clients as they are.
LEMMA OtherSteps ==
    ASSUME [Next]_vars, ~ConnectStep, ~BrokerStep,
           \A c \in Clients : ~LoopStep(c),
           \A c \in Clients, m \in Client!Messages : ~WaiterStep(c, m)
    PROVE  UNCHANGED <<conn, loopVars>> /\ (ctxDone => ctxDone')
<1>1. CASE RunStep
  BY <1>1 DEF RunStep, MarkConnected, CloseConnectFinished, StartSampler, Finish, CloseDone,
     Return, RunFrame
<1>2. CASE Sample \/ StopSampler
  BY <1>2 DEF Sample, StopSampler, RunFrame
<1>3. CASE TickConnectBar \/ TickPublishBar \/ DisplayStep
  BY <1>3 DEF TickConnectBar, TickPublishBar, DisplayStep, EndConnectBar, EndPublishBar,
     LogSummary, DisplayFrame
<1>4. CASE CliStep \/ StopLineStep
  BY <1>4 DEF CliStep, StopLineStep, CloseRunFinished, AwaitDisplay, WriteReport, LogStopping,
     SkipStopping, CliFrame
<1>5. CASE Cancel \/ UNCHANGED vars
  BY <1>5 DEF Cancel, Connect!Cancel, vars
<1>. QED  BY <1>1, <1>2, <1>3, <1>4, <1>5 DEF Next, Terminating

\* A client whose connection is closed has one verdict for every message it sent.
THEOREM RunSettlesPublishes == Spec => []Client!EveryPublishSettled
<1>1. IInv => Loops!EveryPublishSettled
  BY LoopsServed, PartsAssumed, Loops!PromisesKept
<1>2. Loops!EveryPublishSettled <=> Client!EveryPublishSettled
  BY DEF Loops!EveryPublishSettled, Client!EveryPublishSettled
<1>. QED  BY <1>1, <1>2, Invariant, PTL

\* Neither connectClients nor a loop closes a connection that is still in use.
THEOREM RunNeverClosesUnderLoad == Spec => []Client!NoDisconnectUnderLoad
<1>1. IInv => Loops!NoDisconnectUnderLoad
  BY LoopsServed, PartsAssumed, Loops!PromisesKept
<1>2. Loops!NoDisconnectUnderLoad <=> Client!NoDisconnectUnderLoad
  BY DEF Loops!NoDisconnectUnderLoad, Client!NoDisconnectUnderLoad, Loops!Publishing,
     Client!Publishing, Loops!Messages, Client!Messages
<1>. QED  BY <1>1, <1>2, Invariant, PTL

\* The slots, the verdicts and the latencies of a run are accounted for.
THEOREM RunAccounts ==
    Spec => [](Client!SlotsAccounted /\ Client!VerdictsTruthful /\ Client!LatencyPerAck)
<1>1. IInv => Loops!SlotsAccounted /\ Loops!VerdictsTruthful /\ Loops!LatencyPerAck
  BY LoopsServed, PartsAssumed, Loops!PromisesKept, Loops!VerdictsAnswered
     DEF IInv, PartsInv
<1>2. Loops!SlotsAccounted => Client!SlotsAccounted
  BY DEF Loops!SlotsAccounted, Client!SlotsAccounted, Loops!Messages, Client!Messages,
     Loops!Holding, Client!Holding, Loops!Unsettled, Client!Unsettled,
     Loops!Publishing, Client!Publishing, Cardinality, Loops!Cardinality, Client!Cardinality
<1>3. Loops!VerdictsTruthful => Client!VerdictsTruthful
  BY DEF Loops!VerdictsTruthful, Client!VerdictsTruthful, Loops!Messages, Client!Messages,
     Cardinality, Loops!Cardinality, Client!Cardinality
<1>4. Loops!LatencyPerAck => Client!LatencyPerAck
  BY DEF Loops!LatencyPerAck, Client!LatencyPerAck
<1>. QED  BY <1>1, <1>2, <1>3, <1>4, Invariant, PTL

\* After Ctrl-C a client of the run makes at most the one Publish call whose slot
\* it holds already, whatever phase the run is in.
THEOREM RunStopsSending == Spec => Client!StopsSending
<1>. SUFFICES ASSUME NEW c \in Clients, NEW k \in 0..Count
              PROVE  Spec => [](ctxDone /\ sent[c] = k => [](sent[c] <= k + 1))
  BY DEF Client!StopsSending
<1>. DEFINE P == ctxDone /\ sent[c] = k
            Q == sent[c] <= k + 1
            Stopped == Loops!Stopped(c, k)
<1>1. IInv => (P => Stopped) /\ (Stopped => Q)
  BY PartsAssumed, Loops!StoppedBounds DEF IInv, PartsInv, Loops!LoopInv
<1>2. IInv /\ Stopped /\ [Next]_vars => Stopped'
  <2>. SUFFICES ASSUME IInv, Stopped, [Next]_vars
                PROVE  Stopped'
    OBVIOUS
  <2>1. Loops!TypeOK
    BY DEF IInv, PartsInv, Loops!LoopInv
  <2>2. CASE UNCHANGED loopVars /\ (ctxDone => ctxDone')
    BY <2>2 DEF Loops!Stopped, Loops!Due, loopVars
  <2>3. ASSUME NEW d \in Clients, LoopStep(d)
        PROVE  Stopped'
    BY <2>1, <2>3, LoopSteps, PartsAssumed, Loops!SendStepStops DEF LoopStep
  <2>4. ASSUME NEW d \in Clients, NEW m \in Client!Messages,
               WaiterStep(d, m) \/ Client!BrokerAnswers(d, m)
        PROVE  Stopped'
    <3>1. m \in Loops!Messages /\ (Loops!WaitStep(d, m) \/ Loops!BrokerAnswers(d, m))
      BY <2>4, LoopSteps DEF WaiterStep
    <3>. QED  BY <3>1, PartsAssumed, Loops!WaitStepStops
  <2>5. CASE ConnectStep
    <3>1. PICK d \in Clients : Connecting!GroupStep \/ Connecting!TaskStep(d)
      BY <2>5, ConnectSteps, ClientsAssumption DEF ConnectStep
    <3>2. ctxDone' = ctxDone
      BY <3>1
      DEF Connecting!GroupStep, Connecting!Launch, Connecting!Wait, Connecting!DisconnectNext,
          Connecting!DisconnectedAll, Connecting!TaskStep, Connecting!CheckPassed,
          Connecting!Skip, Connecting!Dial, Connecting!DialAccepted, Connecting!DialRefused,
          Connecting!DialCancelled, Connecting!Record, Connecting!ReportError,
          Connecting!Finish
    <3>. QED  BY <2>2, <2>5, <3>2 DEF ConnectStep
  <2>6. CASE BrokerStep
    BY <2>2, <2>4, <2>6, ConnectSteps
    DEF BrokerStep, Connecting!BrokerAccepts, Connecting!BrokerRefuses
  <2>. QED  BY <2>2, <2>3, <2>4, <2>5, <2>6, OtherSteps
<1>. HIDE DEF P, Q, Stopped
<1>3. Spec => [](P => []Q)
  BY <1>1, <1>2, Invariant, PTL DEF Spec
<1>. QED  BY <1>3 DEF P, Q

\* Connecting in a run fails as connectClients alone does: with nothing left open,
\* for the reason it gives, and after Limit refusals at most.  What it hands over
\* after a success the loops may close.
THEOREM RunConnects ==
    Spec => [](Connect!NothingLeftOpen /\ Connect!CauseReported /\ Connect!FailuresWithinLimit)
<1>1. IInv => Connect!NothingLeftOpen
  BY PartsAssumed, Connecting!FailureCloses DEF IInv, PartsInv, Connect!NothingLeftOpen
<1>2. IInv => Connect!CauseReported
  BY DEF IInv, PartsInv, Connecting!ConnectInv, Connecting!CauseInv, Connect!CauseReported
<1>3. IInv => Connecting!FailuresWithinLimit
  BY PartsAssumed, Connecting!RefusalsBounded DEF IInv, PartsInv
<1>4. Connecting!FailuresWithinLimit => Connect!FailuresWithinLimit
  BY DEF Connecting!FailuresWithinLimit, Connect!FailuresWithinLimit,
     Cardinality, Connecting!Cardinality, Connect!Cardinality
<1>. QED  BY <1>1, <1>2, <1>3, <1>4, Invariant, PTL

\* Whoever opened and closes the connections, the clients keep the ledger: a
\* window of InFlight, one verdict per message, and a connection that closes when
\* the verdicts are in.
LEMMA RunStepsLedger == IInv /\ [Next]_vars => [Loops!Ledger!Next]_(Loops!Ledger!vars)
<1>. SUFFICES ASSUME IInv, [Next]_vars
              PROVE  [Loops!Ledger!Next]_(Loops!Ledger!vars)
  OBVIOUS
<1>1. Loops!ServedInv /\ Connecting!ConnectInv /\ RunInv
  BY LoopsServed DEF IInv, PartsInv, ProgressInv
<1>2. CASE UNCHANGED <<conn, loopVars>>
  BY <1>2 DEF loopVars, Loops!Ledger!vars
<1>3. ASSUME NEW c \in Clients, LoopStep(c)
      PROVE  [Loops!Ledger!Next]_(Loops!Ledger!vars)
  BY <1>1, <1>3, LoopSteps, PartsAssumed, Loops!LedgerSendStep DEF LoopStep
<1>4. ASSUME NEW c \in Clients, NEW m \in Client!Messages,
             WaiterStep(c, m) \/ Client!BrokerAnswers(c, m)
      PROVE  [Loops!Ledger!Next]_(Loops!Ledger!vars)
  <2>1. m \in Loops!Messages /\ (Loops!WaitStep(c, m) \/ Loops!BrokerAnswers(c, m))
    BY <1>4, LoopSteps DEF WaiterStep
  <2>. QED  BY <1>1, <2>1, PartsAssumed, Loops!LedgerWaitStep
<1>5. CASE ConnectStep
  <2>1. UNCHANGED <<sent, acked, failed, timedOut>>
    BY <1>5 DEF ConnectStep, loopVars
  <2>2. PICK d \in Clients : Connecting!GroupStep \/ Connecting!TaskStep(d)
    BY <1>5, ConnectSteps, ClientsAssumption DEF ConnectStep
  <2>3. \A c \in Clients : pc[c] = "idle"
    BY <1>1, <2>2, ConnectsBeforeReturn DEF RunInv
  <2>4. conn' = conn \/ \E c \in Clients : conn' = [conn EXCEPT ![c] = "closed"]
    <3>1. stored \subseteq Clients
      BY <1>1 DEF Connecting!ConnectInv, Connecting!TypeOK
    <3>. QED  BY <2>2, <3>1
         DEF Connecting!GroupStep, Connecting!Launch, Connecting!Wait, Connecting!DisconnectNext,
             Connecting!DisconnectedAll, Connecting!TaskStep, Connecting!CheckPassed,
             Connecting!Skip, Connecting!Dial, Connecting!DialAccepted, Connecting!DialRefused,
             Connecting!DialCancelled, Connecting!Record, Connecting!ReportError,
             Connecting!Finish
  <2>5. CASE conn' = conn
    BY <2>1, <2>5 DEF Loops!Ledger!vars
  <2>6. ASSUME NEW c \in Clients, conn' = [conn EXCEPT ![c] = "closed"]
        PROVE  [Loops!Ledger!Next]_(Loops!Ledger!vars)
    BY <1>1, <2>1, <2>3, <2>6, PartsAssumed, Loops!LedgerCloseUnused
  <2>. QED  BY <2>4, <2>5, <2>6
<1>6. ASSUME NEW c \in Clients, Connect!BrokerAccepts(c) \/ Connect!BrokerRefuses(c),
             UNCHANGED loopVars
      PROVE  UNCHANGED Loops!Ledger!vars
  <2>1. UNCHANGED <<sent, acked, failed, timedOut>>
    BY <1>6 DEF loopVars
  <2>2. conn \in [Clients -> Connecting!Conns]
    BY <1>1 DEF Connecting!ConnectInv, Connecting!TypeOK
  <2>3. \A d \in Clients : conn'[d] = "closed" <=> conn[d] = "closed"
    BY <1>6, <2>2, ConnectSteps DEF Connecting!BrokerAccepts, Connecting!BrokerRefuses
  <2>. QED  BY <2>1, <2>3 DEF Loops!Ledger!vars
<1>7. CASE BrokerStep
  BY <1>4, <1>6, <1>7 DEF BrokerStep
<1>. QED  BY <1>2, <1>3, <1>4, <1>5, <1>7, OtherSteps

\* The pub command as a whole implements what a publishing client promises.
THEOREM RunImplementsLedger == Spec => Client!Ledger!SafeSpec
<1>1. Init => Client!Ledger!Init
  BY DEF Init, Connect!Init, Client!InitLoops, Client!Ledger!Init
<1>2. [Loops!Ledger!Next]_(Loops!Ledger!vars) => [Client!Ledger!Next]_(Client!Ledger!vars)
  BY DEF Loops!Ledger!Next, Loops!Ledger!Send, Loops!Ledger!Settle, Loops!Ledger!Close,
     Loops!Ledger!Verdicts, Loops!Ledger!vars,
     Client!Ledger!Next, Client!Ledger!Send, Client!Ledger!Settle, Client!Ledger!Close,
     Client!Ledger!Verdicts, Client!Ledger!vars
<1>3. IInv /\ [Next]_vars => [Client!Ledger!Next]_(Client!Ledger!vars)
  BY <1>2, RunStepsLedger
<1>. QED  BY <1>1, <1>3, Invariant, PTL DEF Spec, Client!Ledger!SafeSpec

=============================================================================
