--------------------------- MODULE PublishClient ---------------------------
(***************************************************************************)
(* The publish loop of the connected clients (internal/mqttload/publish.go, *)
(* with counters.go and the waiting half of pacer.go).                     *)
(*                                                                         *)
(* Every client has one sending goroutine (sendMessages) and one goroutine *)
(* per published message (waitForResult).  They share the client's         *)
(* semaphore, its WaitGroup, its counters and its latency buckets.  The    *)
(* broker answers a token at any moment, or never; WaitTimeout may give up *)
(* at any moment; the context may be cancelled at any moment.              *)
(*                                                                         *)
(* Times are left out: publishStartedAt, stats.inflightWait and            *)
(* stats.finishedAt are never read by the control flow.                    *)
(***************************************************************************)
EXTENDS Integers, FiniteSets

CONSTANTS
    Clients,    \* the connected clients
    Count,      \* --count: messages per client
    InFlight,   \* --inflight: size of each client's semaphore
    QoS,        \* --qos
    Paced       \* TRUE when --interval is above 0, so pacer.wait can block

ASSUME CountAssumption    == Count \in Nat \ {0}
ASSUME InFlightAssumption == InFlight \in Nat \ {0}
ASSUME QoSAssumption      == QoS \in 0..2
ASSUME PacedAssumption    == Paced \in BOOLEAN

VARIABLES
    ctxDone,     \* the run's context has been cancelled (Ctrl-C, SIGTERM)
    conn,        \* conn[c]: the MQTT connection of c
    pc,          \* pc[c]: where the sending goroutine of c stands
    sent,        \* sent[c]: Publish calls made by c (its loop index)
    token,       \* token[c][m]: what the broker said about message m
    waiter,      \* waiter[c][m]: where the waitForResult goroutine of m stands
    held,        \* held[c]: slots taken from c's semaphore
    outstanding, \* outstanding[c]: the WaitGroup outstandingPublishes
    published, acked, failed, timedOut,  \* publishCounters of each client
    recorded     \* recorded[c]: latencies recorded for c

counterVars == <<published, acked, failed, timedOut, recorded>>
vars == <<ctxDone, conn, pc, sent, token, waiter, held, outstanding, counterVars>>

Messages == 1..Count

\* A client between Publish and the go statement that starts the waiter.
Publishing == {"publish", "count", "spawn"}
PCs == {"idle", "acquire", "pace", "drain", "disconnect", "done"} \cup Publishing

Conns  == {"none", "live", "closed"}
Tokens == {"none", "pending", "ok", "error"}

\* waitForResult goroutines by what they still have to do.
Unsettled == {"waiting", "acked"}            \* no counter bumped yet
Holding   == Unsettled \cup {"counted"}      \* slot not yet released
Running   == Holding \cup {"released"}       \* Done not yet called
Settled   == {"counted", "released", "finished"}
Waiters   == Running \cup {"none", "finished"}

TypeOK ==
    /\ ctxDone \in BOOLEAN
    /\ conn \in [Clients -> Conns]
    /\ pc \in [Clients -> PCs]
    /\ sent \in [Clients -> 0..Count]
    /\ token \in [Clients -> [Messages -> Tokens]]
    /\ waiter \in [Clients -> [Messages -> Waiters]]
    /\ held \in [Clients -> 0..InFlight]
    /\ outstanding \in [Clients -> Nat]
    /\ published \in [Clients -> Nat]
    /\ acked \in [Clients -> Nat]
    /\ failed \in [Clients -> Nat]
    /\ timedOut \in [Clients -> Nat]
    /\ recorded \in [Clients -> Nat]

\* Everything but the connections and the context, before any goroutine runs.
InitLoops ==
    /\ pc = [c \in Clients |-> "idle"]
    /\ sent = [c \in Clients |-> 0]
    /\ token = [c \in Clients |-> [m \in Messages |-> "none"]]
    /\ waiter = [c \in Clients |-> [m \in Messages |-> "none"]]
    /\ held = [c \in Clients |-> 0]
    /\ outstanding = [c \in Clients |-> 0]
    /\ published = [c \in Clients |-> 0]
    /\ acked = [c \in Clients |-> 0]
    /\ failed = [c \in Clients |-> 0]
    /\ timedOut = [c \in Clients |-> 0]
    /\ recorded = [c \in Clients |-> 0]

Init ==
    /\ ctxDone \in BOOLEAN
    /\ conn = [c \in Clients |-> "live"]
    /\ InitLoops

-----------------------------------------------------------------------------
(* The sending goroutine: runClientPublish and sendMessages.               *)

Goto(c, label) == pc' = [pc EXCEPT ![c] = label]

\* RunPublish starts the goroutine of one client.
Start(c) ==
    /\ pc[c] = "idle"
    /\ conn[c] = "live"
    /\ Goto(c, "acquire")
    /\ UNCHANGED <<ctxDone, conn, sent, token, waiter, held, outstanding, counterVars>>

\* Mutants: a semaphore one slot too large, and one that ignores the context.
AcquireOneTooMany(c) ==
    /\ pc[c] = "acquire"
    /\ ~ctxDone
    /\ held[c] <= InFlight
    /\ held' = [held EXCEPT ![c] = @ + 1]
    /\ Goto(c, "publish")
    /\ UNCHANGED <<ctxDone, conn, sent, token, waiter, outstanding, counterVars>>
AcquireWhileCancelled(c) ==
    /\ pc[c] = "acquire"
    /\ held[c] < InFlight
    /\ held' = [held EXCEPT ![c] = @ + 1]
    /\ Goto(c, "publish")
    /\ UNCHANGED <<ctxDone, conn, sent, token, waiter, outstanding, counterVars>>

\* inflight.Acquire takes a slot.  The semaphore prefers a cancelled context
\* over a free slot.
Acquire(c) ==
    /\ pc[c] = "acquire"
    /\ ~ctxDone
    /\ held[c] < InFlight
    /\ held' = [held EXCEPT ![c] = @ + 1]
    /\ Goto(c, "publish")
    /\ UNCHANGED <<ctxDone, conn, sent, token, waiter, outstanding, counterVars>>

\* inflight.Acquire returns the context's error: sendMessages returns.
AcquireCancelled(c) ==
    /\ pc[c] = "acquire"
    /\ ctxDone
    /\ Goto(c, "drain")
    /\ UNCHANGED <<ctxDone, conn, sent, token, waiter, held, outstanding, counterVars>>

\* client.Publish hands the message to the connection and returns a token.
Publish(c) ==
    /\ pc[c] = "publish"
    /\ sent' = [sent EXCEPT ![c] = @ + 1]
    /\ token' = [token EXCEPT ![c][sent[c] + 1] = "pending"]
    /\ Goto(c, "count")
    /\ UNCHANGED <<ctxDone, conn, waiter, held, outstanding, counterVars>>

\* counters.published.Add(1)
CountPublished(c) ==
    /\ pc[c] = "count"
    /\ published' = [published EXCEPT ![c] = @ + 1]
    /\ Goto(c, "spawn")
    /\ UNCHANGED <<ctxDone, conn, sent, token, waiter, held, outstanding,
                   acked, failed, timedOut, recorded>>

\* outstandingPublishes.Add(1), go waitForResult, and no pause after the last.
Spawn(c) ==
    /\ pc[c] = "spawn"
    /\ outstanding' = [outstanding EXCEPT ![c] = @ + 1]
    /\ waiter' = [waiter EXCEPT ![c][sent[c]] = "waiting"]
    /\ Goto(c, IF sent[c] = Count THEN "drain" ELSE "pace")
    /\ UNCHANGED <<ctxDone, conn, sent, token, held, counterVars>>

\* pacer.wait returns true: nothing to wait for, or the timer fired.
PauseOver(c) ==
    /\ pc[c] = "pace"
    /\ Goto(c, "acquire")
    /\ UNCHANGED <<ctxDone, conn, sent, token, waiter, held, outstanding, counterVars>>

\* pacer.wait returns false: the context ended during a real pause.
PauseCancelled(c) ==
    /\ pc[c] = "pace"
    /\ Paced
    /\ ctxDone
    /\ Goto(c, "drain")
    /\ UNCHANGED <<ctxDone, conn, sent, token, waiter, held, outstanding, counterVars>>

\* Mutant: Disconnect without waiting for the outstanding publishes.
NotDrained(c) ==
    /\ pc[c] = "drain"
    /\ Goto(c, "disconnect")
    /\ UNCHANGED <<ctxDone, conn, sent, token, waiter, held, outstanding, counterVars>>

\* outstandingPublishes.Wait() returns.
Drained(c) ==
    /\ pc[c] = "drain"
    /\ outstanding[c] = 0
    /\ Goto(c, "disconnect")
    /\ UNCHANGED <<ctxDone, conn, sent, token, waiter, held, outstanding, counterVars>>

Disconnect(c) ==
    /\ pc[c] = "disconnect"
    /\ conn' = [conn EXCEPT ![c] = "closed"]
    /\ Goto(c, "done")
    /\ UNCHANGED <<ctxDone, sent, token, waiter, held, outstanding, counterVars>>

SendStep(c) ==
    \/ Start(c) \/ Acquire(c) \/ AcquireCancelled(c)
    \/ Publish(c) \/ CountPublished(c) \/ Spawn(c)
    \/ PauseOver(c) \/ PauseCancelled(c)
    \/ Drained(c) \/ Disconnect(c)

-----------------------------------------------------------------------------
(* waitForResult: one goroutine per message.                               *)

Move(c, m, label) == waiter' = [waiter EXCEPT ![c][m] = label]

\* Mutant: token.Wait() without a timeout.
WaitForever(c, m) ==
    /\ waiter[c][m] = "waiting"
    /\ token[c][m] # "pending"
    /\ timedOut' = [timedOut EXCEPT ![c] = @ + 1]
    /\ Move(c, m, "counted")
    /\ UNCHANGED <<ctxDone, conn, pc, sent, token, held, outstanding,
                   published, acked, failed, recorded>>

\* WaitTimeout gives up, whether or not an answer is arriving just then.
CountTimedOut(c, m) ==
    /\ waiter[c][m] = "waiting"
    /\ timedOut' = [timedOut EXCEPT ![c] = @ + 1]
    /\ Move(c, m, "counted")
    /\ UNCHANGED <<ctxDone, conn, pc, sent, token, held, outstanding,
                   published, acked, failed, recorded>>

\* Mutants: an error that is not counted, and one that records a latency.
FailedUncounted(c, m) ==
    /\ waiter[c][m] = "waiting"
    /\ token[c][m] = "error"
    /\ Move(c, m, "counted")
    /\ UNCHANGED <<ctxDone, conn, pc, sent, token, held, outstanding, counterVars>>
FailedRecorded(c, m) ==
    /\ waiter[c][m] = "waiting"
    /\ token[c][m] = "error"
    /\ failed' = [failed EXCEPT ![c] = @ + 1]
    /\ recorded' = [recorded EXCEPT ![c] = @ + 1]
    /\ Move(c, m, "counted")
    /\ UNCHANGED <<ctxDone, conn, pc, sent, token, held, outstanding,
                   published, acked, timedOut>>

\* The token completed with an error.
CountFailed(c, m) ==
    /\ waiter[c][m] = "waiting"
    /\ token[c][m] = "error"
    /\ failed' = [failed EXCEPT ![c] = @ + 1]
    /\ Move(c, m, "counted")
    /\ UNCHANGED <<ctxDone, conn, pc, sent, token, held, outstanding,
                   published, acked, timedOut, recorded>>

\* Mutant: token.Error() is not looked at.
ErrorIgnored(c, m) ==
    /\ waiter[c][m] = "waiting"
    /\ token[c][m] \in {"ok", "error"}
    /\ recorded' = IF QoS > 0 THEN [recorded EXCEPT ![c] = @ + 1] ELSE recorded
    /\ Move(c, m, "acked")
    /\ UNCHANGED <<ctxDone, conn, pc, sent, token, held, outstanding,
                   published, acked, failed, timedOut>>

\* The token completed without an error: at QoS 1 and 2 the latency is
\* recorded first, into the shared and the per-client buckets.
RecordLatency(c, m) ==
    /\ waiter[c][m] = "waiting"
    /\ token[c][m] = "ok"
    /\ recorded' = IF QoS > 0 THEN [recorded EXCEPT ![c] = @ + 1] ELSE recorded
    /\ Move(c, m, "acked")
    /\ UNCHANGED <<ctxDone, conn, pc, sent, token, held, outstanding,
                   published, acked, failed, timedOut>>

CountAcked(c, m) ==
    /\ waiter[c][m] = "acked"
    /\ acked' = [acked EXCEPT ![c] = @ + 1]
    /\ Move(c, m, "counted")
    /\ UNCHANGED <<ctxDone, conn, pc, sent, token, held, outstanding,
                   published, failed, timedOut, recorded>>

\* Mutant: the slot is not given back.
SlotLeaked(c, m) ==
    /\ waiter[c][m] = "counted"
    /\ Move(c, m, "released")
    /\ UNCHANGED <<ctxDone, conn, pc, sent, token, held, outstanding, counterVars>>

\* The deferred inflight.Release(1): deferred last, so it runs first.
Release(c, m) ==
    /\ waiter[c][m] = "counted"
    /\ held' = [held EXCEPT ![c] = @ - 1]
    /\ Move(c, m, "released")
    /\ UNCHANGED <<ctxDone, conn, pc, sent, token, outstanding, counterVars>>

\* The deferred outstandingPublishes.Done().
WaiterDone(c, m) ==
    /\ waiter[c][m] = "released"
    /\ outstanding' = [outstanding EXCEPT ![c] = @ - 1]
    /\ Move(c, m, "finished")
    /\ UNCHANGED <<ctxDone, conn, pc, sent, token, held, counterVars>>

WaitStep(c, m) ==
    \/ CountTimedOut(c, m) \/ CountFailed(c, m)
    \/ RecordLatency(c, m) \/ CountAcked(c, m)
    \/ Release(c, m) \/ WaiterDone(c, m)

-----------------------------------------------------------------------------
(* The environment: the broker and the signal handler.                     *)

\* The token of m completes: acknowledged (written, at QoS 0) or failed.
BrokerAnswers(c, m) ==
    /\ token[c][m] = "pending"
    /\ \E answer \in {"ok", "error"} : token' = [token EXCEPT ![c][m] = answer]
    /\ UNCHANGED <<ctxDone, conn, pc, sent, waiter, held, outstanding, counterVars>>

\* The first SIGINT or SIGTERM cancels the command's context.
Cancel ==
    /\ ~ctxDone
    /\ ctxDone' = TRUE
    /\ UNCHANGED <<conn, pc, sent, token, waiter, held, outstanding, counterVars>>

\* waitGroup.Wait() in RunPublish has nothing left to wait for.
AllDone == \A c \in Clients : pc[c] = "done"
Terminating == AllDone /\ UNCHANGED vars

Next ==
    \/ \E c \in Clients : SendStep(c)
    \/ \E c \in Clients, m \in Messages : WaitStep(c, m) \/ BrokerAnswers(c, m)
    \/ Cancel
    \/ Terminating

\* Goroutines are scheduled and the ack timer fires.  The broker owes nothing.
Fairness ==
    /\ \A c \in Clients : WF_vars(SendStep(c))
    /\ \A c \in Clients, m \in Messages : WF_vars(WaitStep(c, m))

Spec == Init /\ [][Next]_vars /\ Fairness

-----------------------------------------------------------------------------
(* Properties.                                                             *)

\* Every message counted as published gets exactly one verdict, and none is
\* missing by the time its client lets go of the connection: the counts the
\* run reports add up although three goroutines per message race over them.
EveryPublishSettled ==
    \A c \in Clients : conn[c] = "closed" =>
        /\ published[c] = sent[c]
        /\ acked[c] + failed[c] + timedOut[c] = published[c]

\* A connection is never closed under a waitForResult goroutine that still
\* runs, nor under a sending goroutine that still publishes: Disconnect does
\* not wait for acknowledgements, so runClientPublish must.
NoDisconnectUnderLoad ==
    \A c \in Clients : conn[c] = "closed" =>
        /\ \A m \in Messages : waiter[c][m] \in {"none", "finished"}
        /\ pc[c] \notin Publishing

\* The semaphore counts exactly the messages between Acquire and Release, so
\* no slot leaks and none is released twice, whatever the verdicts.
SlotsAccounted ==
    \A c \in Clients :
        held[c] = Cardinality({m \in Messages : waiter[c][m] \in Holding})
                    + (IF pc[c] \in Publishing THEN 1 ELSE 0)

\* The verdicts can be trusted: no more acks are counted than the broker
\* acknowledged messages, no more failures than tokens that failed.
VerdictsTruthful ==
    \A c \in Clients :
        /\ acked[c] <= Cardinality({m \in Messages : token[c][m] = "ok"})
        /\ failed[c] <= Cardinality({m \in Messages : token[c][m] = "error"})

\* The latency buckets hold one value per ack at QoS 1 and 2 and nothing at
\* QoS 0 once the client is done, and never fewer values than counted acks.
LatencyPerAck ==
    \A c \in Clients :
        IF QoS = 0 THEN recorded[c] = 0
        ELSE /\ acked[c] <= recorded[c]
             /\ conn[c] = "closed" => recorded[c] = acked[c]

\* After the context is cancelled a client makes at most one more Publish
\* call, the one whose slot it already holds.
StopsSending ==
    \A c \in Clients, k \in 0..Count :
        [](ctxDone /\ sent[c] = k => [](sent[c] <= k + 1))

\* What a progress bar or a sampler may read: a verdict is never counted before
\* its publish, and at most one Publish call per client is not counted yet.
CountsNeverAhead ==
    \A c \in Clients :
        /\ acked[c] + failed[c] + timedOut[c] <= published[c]
        /\ published[c] <= sent[c]
        /\ sent[c] <= published[c] + 1

\* The run ends even if the broker never answers a single message: the ack
\* timeout frees every slot and every waiter.
RunEnds == <>AllDone

\* The goroutines, the semaphore and the WaitGroup of a client add up to its
\* promise: a window of InFlight messages without a verdict, one verdict per
\* message, and a connection that closes exactly when the verdicts are in.
Ledger == INSTANCE PublishLedger
    WITH closed <- {c \in Clients : conn[c] = "closed"}
ImplementsLedger == Ledger!Spec

=============================================================================
