------------------------------- MODULE DumpRun -------------------------------
(***************************************************************************)
(* One run of the dump command, from a connected client on (RunDump in     *)
(* internal/mqttload/dump.go) with the printer it hands the messages to     *)
(* (messagePrinter in internal/display/dump.go).                            *)
(*                                                                         *)
(* As in SubscribeRun the callbacks run on paho's goroutines, one after    *)
(* the other with --ordered.  Each formats its line, takes the printer's   *)
(* mutex, and writes unless an earlier write has failed.                   *)
(***************************************************************************)
EXTENDS Integers, Sequences, SequencesExt

CONSTANTS
    Messages,   \* the messages a broker may deliver
    Ordered,    \* --ordered
    JSON        \* --json: payloads that are not JSON are skipped

VARIABLES
    ctxDone,      \* the command's context has been cancelled
    token,        \* the subscribe token
    conn,         \* the MQTT connection
    callback,     \* callback[m]: where the callback of m stands
    \* messagePrinter
    mutex,        \* the callbacks inside the critical section
    failed,       \* printer.failed
    output,       \* the lines written
    \* RunDump
    printFailed,  \* the errors in the channel printFailed, of capacity one
    dropped,      \* errors that found the channel full
    run, runErr

printerVars == <<mutex, failed, output>>
channelVars == <<printFailed, dropped>>
runVars     == <<run, runErr>>
vars == <<ctxDone, token, conn, callback, printerVars, channelVars, runVars>>

Callbacks == {"none", "called", "formatted", "locked", "checked", "written", "erred",
              "sending", "finished"}

TypeOK ==
    /\ ctxDone \in BOOLEAN
    /\ token \in {"pending", "ok", "error"} /\ conn \in {"none", "live", "closed"}
    /\ callback \in [Messages -> Callbacks]
    /\ output \in Seq(Messages) /\ IsInjective(output)  \* no line twice
    /\ mutex \in SUBSET Messages /\ failed \in BOOLEAN
    /\ printFailed \in 0..1 /\ dropped \in Nat
    /\ run \in {"subscribing", "waiting", "disconnecting", "returned"}
    /\ runErr \in {"none", "subscribeError", "printError", "nil"}

Init ==
    /\ ctxDone \in BOOLEAN /\ token = "pending" /\ conn = "live"
    /\ callback = [m \in Messages |-> "none"]
    /\ output = <<>>
    /\ mutex = {} /\ failed = FALSE
    /\ printFailed = 0 /\ dropped = 0
    /\ run = "subscribing" /\ runErr = "none"

-----------------------------------------------------------------------------
(* The callback of one message: messagePrinter.Print, and what onMessage   *)
(* does with its error.                                                    *)

MessageFrame == UNCHANGED <<ctxDone, token, conn, runVars>>
Step(m, from, to) == callback[m] = from /\ callback' = [callback EXCEPT ![m] = to]

\* paho calls the callback, from the Subscribe call until Disconnect.
Call(m) ==
    /\ Step(m, "none", "called")
    /\ conn = "live"
    /\ Ordered => \A other \in Messages : callback[other] \in {"none", "finished"}
    /\ UNCHANGED <<printerVars, channelVars>>
    /\ MessageFrame

\* formatDumpLine; with --json a payload that is not JSON ends here.
Format(m) ==
    /\ Step(m, "called", "formatted") \/ (JSON /\ Step(m, "called", "finished"))
    /\ UNCHANGED <<printerVars, channelVars>>
    /\ MessageFrame

\* Mutant: no mutex.
EnterUnlocked(m) ==
    /\ Step(m, "formatted", "locked")
    /\ mutex' = mutex \cup {m}
    /\ UNCHANGED <<failed, output, channelVars>>
    /\ MessageFrame

Lock(m) ==
    /\ Step(m, "formatted", "locked")
    /\ mutex = {}
    /\ mutex' = {m}
    /\ UNCHANGED <<failed, output, channelVars>>
    /\ MessageFrame

\* Mutant: every message is written, failed or not.
NotChecked(m) ==
    /\ Step(m, "locked", "checked")
    /\ UNCHANGED <<printerVars, channelVars>>
    /\ MessageFrame

\* After a failure nothing is written, and nil is returned.
CheckFailed(m) ==
    /\ Step(m, "locked", IF failed THEN "written" ELSE "checked")
    /\ UNCHANGED <<printerVars, channelVars>>
    /\ MessageFrame

\* The write succeeds or fails: a closed pipe, a full disk.
Write(m) ==
    /\ \/ Step(m, "checked", "written") /\ output' = Append(output, m) /\ UNCHANGED failed
       \/ Step(m, "checked", "erred") /\ failed' = TRUE /\ UNCHANGED output
    /\ UNCHANGED <<mutex, channelVars>>
    /\ MessageFrame

\* The deferred Unlock; an error goes back to onMessage.
Unlock(m) ==
    /\ Step(m, "written", "finished") \/ Step(m, "erred", "sending")
    /\ mutex' = mutex \ {m}
    /\ UNCHANGED <<failed, output, channelVars>>
    /\ MessageFrame

\* onMessage passes the error on, without ever blocking.
SendError(m) ==
    /\ Step(m, "sending", "finished")
    /\ IF printFailed = 0
       THEN printFailed' = 1 /\ UNCHANGED dropped
       ELSE dropped' = dropped + 1 /\ UNCHANGED printFailed
    /\ UNCHANGED <<printerVars>>
    /\ MessageFrame

CallbackStep(m) ==
    \/ Format(m) \/ Lock(m) \/ CheckFailed(m) \/ Write(m) \/ Unlock(m) \/ SendError(m)

-----------------------------------------------------------------------------
(* RunDump.                                                                *)

RunFrame == UNCHANGED <<ctxDone, token, callback, printerVars, dropped>>

Subscribed ==
    /\ run = "subscribing" /\ token = "ok"
    /\ run' = "waiting"
    /\ UNCHANGED <<conn, printFailed, runErr>>
    /\ RunFrame

\* Refused, or not acknowledged in ten seconds.
SubscribeFailed ==
    /\ run = "subscribing"
    /\ run' = "disconnecting" /\ runErr' = "subscribeError"
    /\ UNCHANGED <<conn, printFailed>>
    /\ RunFrame

StopCancelled ==
    /\ run = "waiting" /\ ctxDone
    /\ run' = "disconnecting" /\ runErr' = "nil"
    /\ UNCHANGED <<conn, printFailed>>
    /\ RunFrame

StopFailed ==
    /\ run = "waiting" /\ printFailed = 1
    /\ run' = "disconnecting" /\ runErr' = "printError"
    /\ printFailed' = 0
    /\ UNCHANGED conn
    /\ RunFrame

Disconnect ==
    /\ run = "disconnecting"
    /\ conn' = "closed"
    /\ run' = "returned"
    /\ UNCHANGED <<printFailed, runErr>>
    /\ RunFrame

RunStep == Subscribed \/ SubscribeFailed \/ StopCancelled \/ StopFailed \/ Disconnect

-----------------------------------------------------------------------------
(* The environment, and the specification.                                 *)

BrokerAnswers ==
    /\ token = "pending"
    /\ token' \in {"ok", "error"}
    /\ UNCHANGED <<ctxDone, conn, callback, printerVars, channelVars, runVars>>

Cancel ==
    /\ ~ctxDone
    /\ ctxDone' = TRUE
    /\ UNCHANGED <<token, conn, callback, printerVars, channelVars, runVars>>

Terminating ==
    /\ run = "returned"
    /\ \A m \in Messages : callback[m] \in {"none", "finished"}
    /\ UNCHANGED vars

Next ==
    \/ \E m \in Messages : Call(m) \/ CallbackStep(m)
    \/ RunStep \/ BrokerAnswers \/ Cancel \/ Terminating

\* Goroutines are scheduled, and the subscribe timer fires.
Fairness == WF_vars(RunStep) /\ \A m \in Messages : WF_vars(CallbackStep(m))

Spec == Init /\ [][Next]_vars /\ Fairness

-----------------------------------------------------------------------------
(* Properties.                                                             *)

\* Once a write has failed no other callback writes a line, not even one that
\* was already on its way when the write failed.
NothingAfterFailure == [][failed => output' = output]_vars

\* "printFailed only ever needs to carry the first error": the channel never
\* finds itself full, and only one error is ever sent.
OneError ==
    /\ dropped = 0
    /\ runErr = "printError" => printFailed = 0

\* "If printer.Print returns an error, RunDump stops and returns it" (dump.go):
\* so it does not end without one while the error is there to be read.
FailureReturned ==
    [][run = "waiting" /\ run' = "disconnecting" /\ printFailed = 1
        => runErr' = "printError"]_vars

=============================================================================
