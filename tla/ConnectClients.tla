--------------------------- MODULE ConnectClients ---------------------------
(***************************************************************************)
(* Connecting every client of a pub run (internal/mqttload/connect.go), the *)
(* errgroup it runs on, and the waiting half of broker.Dial.               *)
(*                                                                         *)
(* connectClients launches one task per client, at most Limit at a time.   *)
(* Each task looks at the group's context, dials, and on success stores    *)
(* its client.  The first error cancels the group's context; a failed task *)
(* gives its place back only after that.  The loop launches clients by     *)
(* number; the clients are interchangeable, so the model takes any order.  *)
(***************************************************************************)
EXTENDS Integers, FiniteSets

CONSTANTS
    Clients,    \* the clients to connect (--clients)
    Limit       \* --connect-concurrency

ASSUME ClientsAssumption == IsFiniteSet(Clients) /\ Clients # {}
ASSUME LimitAssumption   == Limit \in Nat \ {0}

VARIABLES
    ctxDone,    \* the run's context has been cancelled
    conn,       \* conn[c]: the MQTT connection of c
    dial,       \* dial[c]: the connect token of c
    task,       \* task[c]: where the task of c stands
    taskErr,    \* taskErr[c]: the error the task of c returns
    groupErr,   \* the group's first error
    stored,     \* the clients stored in the slice of connected clients
    connected,  \* progress.clientsConnected
    stage,      \* where connectClients itself stands
    result      \* what connectClients returned

connectVars == <<dial, task, taskErr, groupErr, stored, connected, stage, result>>
vars == <<ctxDone, conn, connectVars>>

Conns   == {"none", "live", "closed"}
Dials   == {"none", "pending", "accepted", "refused"}
Errors  == {"none", "failed", "cancelled"}
Stages  == {"launch", "wait", "tearDown", "returned"}
Results == {"none", "ok", "failed", "cancelled"}

Tasks == {"queued", "launched", "checked", "dialing", "dialed",
          "erring", "ending", "finished"}

\* Mutant: a failed task frees its place before it cancels the group.
ActiveUntilError == Tasks \ {"queued", "erring", "ending", "finished"}

\* Tasks that hold one of the Limit places of the group.
Active == Tasks \ {"queued", "finished"}

TypeOK ==
    /\ ctxDone \in BOOLEAN
    /\ conn \in [Clients -> Conns]
    /\ dial \in [Clients -> Dials]
    /\ task \in [Clients -> Tasks]
    /\ taskErr \in [Clients -> Errors]
    /\ groupErr \in Errors
    /\ stored \in SUBSET Clients
    /\ connected \in 0..Cardinality(Clients)
    /\ stage \in Stages
    /\ result \in Results

InitConnect ==
    /\ dial = [c \in Clients |-> "none"]
    /\ task = [c \in Clients |-> "queued"]
    /\ taskErr = [c \in Clients |-> "none"]
    /\ groupErr = "none"
    /\ stored = {}
    /\ connected = 0
    /\ stage = "launch"
    /\ result = "none"

Init ==
    /\ ctxDone \in BOOLEAN
    /\ conn = [c \in Clients |-> "none"]
    /\ InitConnect

\* The group's context ends with the run's context or at the first error.
GroupDone == ctxDone \/ groupErr # "none"

-----------------------------------------------------------------------------
(* The tasks.                                                              *)

Enter(c, label) == task' = [task EXCEPT ![c] = label]

\* The task returns an error from here on.
FailWith(c, err) ==
    /\ taskErr' = [taskErr EXCEPT ![c] = err]
    /\ Enter(c, "erring")

\* groupCtx.Err() is nil: the task goes on to dial.
CheckPassed(c) ==
    /\ task[c] = "launched"
    /\ ~GroupDone
    /\ Enter(c, "checked")
    /\ UNCHANGED <<ctxDone, conn, dial, taskErr, groupErr, stored, connected, stage, result>>

\* A task that gets its turn after a failure or Ctrl-C does not dial.
Skip(c) ==
    /\ task[c] = "launched"
    /\ GroupDone
    /\ FailWith(c, "cancelled")
    /\ UNCHANGED <<ctxDone, conn, dial, groupErr, stored, connected, stage, result>>

\* broker.Dial starts connecting, or fails to read the TLS files before that.
Dial(c) ==
    /\ task[c] = "checked"
    /\ \/ /\ dial' = [dial EXCEPT ![c] = "pending"]
          /\ Enter(c, "dialing")
          /\ UNCHANGED taskErr
       \/ FailWith(c, "failed") /\ UNCHANGED dial
    /\ UNCHANGED <<ctxDone, conn, groupErr, stored, connected, stage, result>>

\* The connect token completed without an error, and Dial's select saw it.
DialAccepted(c) ==
    /\ task[c] = "dialing"
    /\ dial[c] = "accepted"
    /\ Enter(c, "dialed")
    /\ UNCHANGED <<ctxDone, conn, dial, taskErr, groupErr, stored, connected, stage, result>>

DialRefused(c) ==
    /\ task[c] = "dialing"
    /\ dial[c] = "refused"
    /\ FailWith(c, "failed")
    /\ UNCHANGED <<ctxDone, conn, dial, groupErr, stored, connected, stage, result>>

\* Mutants: the paho client is left as it is, and Dial waits for the token only.
CancelledNotClosed(c) ==
    /\ task[c] = "dialing"
    /\ GroupDone
    /\ FailWith(c, "cancelled")
    /\ UNCHANGED <<ctxDone, conn, dial, groupErr, stored, connected, stage, result>>
CancelledLate(c) ==
    /\ task[c] = "dialing"
    /\ GroupDone
    /\ dial[c] # "pending"
    /\ conn' = [conn EXCEPT ![c] = "closed"]
    /\ FailWith(c, "cancelled")
    /\ UNCHANGED <<ctxDone, dial, groupErr, stored, connected, stage, result>>

\* Dial's select saw the context end, whether or not the token completed just
\* then: the paho client is disconnected, so no connection stays behind.
DialCancelled(c) ==
    /\ task[c] = "dialing"
    /\ GroupDone
    /\ conn' = [conn EXCEPT ![c] = "closed"]
    /\ FailWith(c, "cancelled")
    /\ UNCHANGED <<ctxDone, dial, groupErr, stored, connected, stage, result>>

\* The task stores its client and reports it to progress.
Record(c) ==
    /\ task[c] = "dialed"
    /\ stored' = stored \cup {c}
    /\ connected' = connected + 1
    /\ Enter(c, "ending")
    /\ UNCHANGED <<ctxDone, conn, dial, taskErr, groupErr, stage, result>>

\* Mutant: the last error wins.
ReportLastError(c) ==
    /\ task[c] = "erring"
    /\ groupErr' = taskErr[c]
    /\ Enter(c, "ending")
    /\ UNCHANGED <<ctxDone, conn, dial, taskErr, stored, connected, stage, result>>

\* The first error becomes the group's error and cancels the group's context.
ReportError(c) ==
    /\ task[c] = "erring"
    /\ groupErr' = IF groupErr = "none" THEN taskErr[c] ELSE groupErr
    /\ Enter(c, "ending")
    /\ UNCHANGED <<ctxDone, conn, dial, taskErr, stored, connected, stage, result>>

\* The task gives back its place in the group.
Finish(c) ==
    /\ task[c] = "ending"
    /\ Enter(c, "finished")
    /\ UNCHANGED <<ctxDone, conn, dial, taskErr, groupErr, stored, connected, stage, result>>

TaskStep(c) ==
    \/ CheckPassed(c) \/ Skip(c) \/ Dial(c)
    \/ DialAccepted(c) \/ DialRefused(c) \/ DialCancelled(c)
    \/ Record(c) \/ ReportError(c) \/ Finish(c)

-----------------------------------------------------------------------------
(* connectClients itself.                                                  *)

\* group.Go blocks while Limit tasks are active.
Launch ==
    /\ stage = "launch"
    /\ Cardinality({c \in Clients : task[c] \in Active}) < Limit
    /\ \E c \in Clients : task[c] = "queued" /\ Enter(c, "launched")
    /\ stage' = IF \E c \in Clients : task'[c] = "queued" THEN "launch" ELSE "wait"
    /\ UNCHANGED <<ctxDone, conn, dial, taskErr, groupErr, stored, connected, result>>

\* Mutant: only the run's own context is looked at.
WaitForContext ==
    /\ stage = "wait"
    /\ \A c \in Clients : task[c] = "finished"
    /\ IF ~ctxDone
       THEN stage' = "returned" /\ result' = "ok"
       ELSE stage' = "tearDown" /\ result' = "cancelled"
    /\ UNCHANGED <<ctxDone, conn, dial, task, taskErr, groupErr, stored, connected>>

\* group.Wait returns: without an error, and without Ctrl-C, all is well.
\* Otherwise the clients that did connect are disconnected first.
Wait ==
    /\ stage = "wait"
    /\ \A c \in Clients : task[c] = "finished"
    /\ IF ~GroupDone
       THEN stage' = "returned" /\ result' = "ok"
       ELSE /\ stage' = "tearDown"
            /\ result' = IF groupErr # "none" THEN groupErr ELSE "cancelled"
    /\ UNCHANGED <<ctxDone, conn, dial, task, taskErr, groupErr, stored, connected>>

\* disconnectAll disconnects the next stored client, or has done them all.
DisconnectNext ==
    /\ stage = "tearDown"
    /\ \E c \in stored :
          /\ conn[c] = "live"
          /\ conn' = [conn EXCEPT ![c] = "closed"]
    /\ UNCHANGED <<ctxDone, connectVars>>

DisconnectedAll ==
    /\ stage = "tearDown"
    /\ \A c \in stored : conn[c] # "live"
    /\ stage' = "returned"
    /\ UNCHANGED <<ctxDone, conn, dial, task, taskErr, groupErr, stored, connected, result>>

GroupStep == Launch \/ Wait \/ DisconnectNext \/ DisconnectedAll

-----------------------------------------------------------------------------
(* The environment.                                                        *)

\* The broker accepts or refuses; refusing stands for every connect error.  A
\* client that was disconnected meanwhile does not connect any more.
BrokerAccepts(c) ==
    /\ dial[c] = "pending"
    /\ conn[c] = "none"
    /\ dial' = [dial EXCEPT ![c] = "accepted"]
    /\ conn' = [conn EXCEPT ![c] = "live"]
    /\ UNCHANGED <<ctxDone, task, taskErr, groupErr, stored, connected, stage, result>>

BrokerRefuses(c) ==
    /\ dial[c] = "pending"
    /\ conn[c] = "none"
    /\ dial' = [dial EXCEPT ![c] = "refused"]
    /\ UNCHANGED <<ctxDone, conn, task, taskErr, groupErr, stored, connected, stage, result>>

Cancel ==
    /\ ~ctxDone
    /\ ctxDone' = TRUE
    /\ UNCHANGED <<conn, connectVars>>

Terminating == stage = "returned" /\ UNCHANGED vars

Next ==
    \/ \E c \in Clients : TaskStep(c) \/ BrokerAccepts(c) \/ BrokerRefuses(c)
    \/ GroupStep
    \/ Cancel
    \/ Terminating

\* Goroutines are scheduled; a broker may leave a dial unanswered for ever.
Fairness ==
    /\ \A c \in Clients : WF_vars(TaskStep(c))
    /\ WF_vars(GroupStep)

Spec == Init /\ [][Next]_vars /\ Fairness

-----------------------------------------------------------------------------
(* Properties.                                                             *)

\* When connecting fails or is cancelled no connection stays open: neither one
\* that was stored, nor one that came up while its task was giving up on it.
NothingLeftOpen ==
    result \in {"failed", "cancelled"} /\ stage = "returned" =>
        \A c \in Clients : conn[c] # "live"

\* Publishing only starts with every client: success means that each client is
\* connected, stored, and counted once.
SuccessMeansAll ==
    result = "ok" =>
        /\ stored = Clients
        /\ \A c \in Clients : conn[c] = "live"
        /\ connected = Cardinality(Clients)

\* The error returned is the one that caused the stop: tasks that only gave up
\* because another one failed never hide its error behind a cancellation.
CauseReported ==
    /\ result = "cancelled" => ctxDone
    /\ result = "failed" => \E c \in Clients : taskErr[c] = "failed"

\* A broker that refuses connections costs at most Limit failed dials, not one
\* per client: a failed task cancels the group before it frees its place.
FailuresWithinLimit ==
    Cardinality({c \in Clients : dial[c] = "refused"}) <= Limit

\* A connect still queued when another one fails never dials.
QueuedNeverDials ==
    \A c \in Clients :
        [](task[c] = "queued" /\ GroupDone => [](dial[c] = "none"))

\* One failure, or Ctrl-C, ends connecting although dials are still pending.
StopsAfterFailure == GroupDone ~> stage = "returned"

=============================================================================
