------------------------------ MODULE Command -------------------------------
(***************************************************************************)
(* The process: main and its signals (cmd/main.go), the way of a command   *)
(* from its settings to a connection (root.go and the RunE functions of    *)
(* internal/cli, Dial in broker/paho.go), and its exit status.             *)
(*                                                                         *)
(* dump is modelled as a whole, by DumpRun.  Of pub and sub, which         *)
(* PublishRun and SubscribeRun model, only their connections and their     *)
(* return are seen here: they close what they have opened, return once the *)
(* context is cancelled, and may return before.                            *)
(***************************************************************************)
EXTENDS Configuration, DumpRun, FiniteSets

CONSTANTS
    Invocations,  \* command lines with their environment
    MaxSignals    \* bound on the signals sent to the process

ASSUME DumpAssumption    == Ordered \in BOOLEAN /\ JSON \in BOOLEAN
ASSUME InvocationsAssumption == Invocations \subseteq AllSettings
ASSUME SignalsAssumption == MaxSignals \in Nat

VARIABLES
    settings,  \* the flags and variables, until the connection is made
    main,      \* where the main goroutine stands
    err,       \* the error of the command
    catching,  \* signals are caught
    pending,   \* a signal is in the channel of NotifyContext
    signals    \* signals sent so far

dumpVars    == <<token, callback, mutex, failed, output, printFailed, dropped, run, runErr>>
signalVars  == <<catching, pending, signals>>
processVars == <<ctxDone, conn, dumpVars, settings, main, err, signalVars>>

Done == {"exited0", "exited1", "killed"}
NoSettings == [command |-> "unknown"]

ProcessInit ==
    /\ settings \in Invocations
    /\ main = "starting" /\ err = "none"
    /\ catching = FALSE /\ pending = FALSE /\ signals = 0 /\ ctxDone = FALSE
    /\ conn = "none" /\ token = "pending" /\ callback = [m \in Messages |-> "none"]
    /\ mutex = {} /\ failed = FALSE /\ output = <<>> /\ printFailed = 0 /\ dropped = 0
    /\ run = "subscribing" /\ runErr = "none"

-----------------------------------------------------------------------------
(* Signals.                                                                *)

SignalFrame == UNCHANGED <<dumpVars, settings, err>>

\* Caught, the first is kept for NotifyContext and the others are dropped; not
\* caught, it ends the process, and the system closes its connections.
Signal ==
    /\ main \notin Done /\ signals < MaxSignals
    /\ signals' = signals + 1
    /\ IF catching THEN pending' = ~ctxDone /\ UNCHANGED main
                   ELSE main' = "killed" /\ UNCHANGED pending
    /\ UNCHANGED <<ctxDone, conn, catching>> /\ SignalFrame

\* The goroutine inside NotifyContext.
CancelContext ==
    /\ main \notin Done /\ pending
    /\ ctxDone' = TRUE /\ pending' = FALSE
    /\ UNCHANGED <<conn, main, catching, signals>> /\ SignalFrame

\* Mutant: the goroutine of main does not wait for the context.
StopCatchingAtOnce ==
    /\ main \notin Done /\ catching
    /\ catching' = FALSE /\ ctxDone' = TRUE
    /\ UNCHANGED <<conn, main, pending, signals>> /\ SignalFrame

\* The goroutine of main: after the first signal the next one kills.
StopCatching ==
    /\ main \notin Done /\ catching /\ ctxDone
    /\ catching' = FALSE
    /\ UNCHANGED <<ctxDone, conn, main, pending, signals>> /\ SignalFrame

-----------------------------------------------------------------------------
(* The main goroutine, up to the connection.                               *)

MainFrame == UNCHANGED <<ctxDone, pending, signals, dumpVars>>
Goes(from, to) == main = from /\ main' = to
Fails(from, error) == Goes(from, "returned") /\ err' = error

NotifyContext ==
    /\ Goes("starting", "executing") /\ catching' = TRUE
    /\ UNCHANGED <<settings, err, conn>> /\ MainFrame

\* PersistentPreRunE.
ApplyEnvironmentFallback ==
    /\ Goes("executing", "configured")
    /\ settings' = [settings EXCEPT
          !.connection.files = WithEnvironment(settings.flags, settings.environment)]
    /\ UNCHANGED <<err, conn, catching>> /\ MainFrame

SettingsValid ==
    /\ ConnectionValid(settings.connection)
    /\ settings.command = "pub" => PublishValid(settings.publish, settings.connection)
    /\ settings.command = "sub" => SubscribeValid(settings.subscribe)

Validate ==
    /\ main = "configured"
    /\ IF SettingsValid THEN Goes("configured", "validated") /\ UNCHANGED err
                        ELSE Fails("configured", "invalid")
    /\ UNCHANGED <<settings, conn, catching>> /\ MainFrame

\* Dial up to paho's Connect; pub dials from within its run.
Dial ==
    /\ \/ /\ Goes("validated", IF settings.command = "pub" THEN "running" ELSE "connecting")
          /\ UNCHANGED err
       \/ /\ Fails("validated", "files")
          /\ settings.command # "pub" /\ MayFailToLoad(settings.connection)
    /\ settings' = [NoSettings EXCEPT !.command = settings.command]
    /\ UNCHANGED <<conn, catching>> /\ MainFrame

\* The first client of pub connects.
PubConnects ==
    /\ settings.command = "pub" /\ main = "running" /\ conn = "none"
    /\ conn' = "live"
    /\ UNCHANGED <<settings, main, err, catching>> /\ MainFrame

DialAccepted ==
    /\ Goes("connecting", "running") /\ conn' = "live"
    /\ UNCHANGED <<settings, err, catching>> /\ MainFrame

DialRefused ==
    /\ Fails("connecting", "refused")
    /\ UNCHANGED <<settings, conn, catching>> /\ MainFrame

\* Mutant: Dial looks at the context only once it is connected.
CancelledConnected ==
    /\ ctxDone /\ conn = "live" /\ Fails("connecting", "cancelled")
    /\ UNCHANGED <<settings, conn, catching>> /\ MainFrame

\* The select may take this although the connection is made, and closes it.
DialCancelled ==
    /\ ctxDone /\ Fails("connecting", "cancelled")
    /\ UNCHANGED <<settings, conn, catching>> /\ MainFrame

-----------------------------------------------------------------------------
(* The run of the command, and the end of the process.                     *)

RunsDump == main \notin Done /\ settings.command = "dump" /\ conn # "none"
DumpFrame == UNCHANGED <<settings, main, err, catching, pending, signals>>

DumpGoesOn == RunsDump /\ main = "running" /\ RunStep /\ DumpFrame
DumpCalled(m) == RunsDump /\ Call(m) /\ DumpFrame
DumpPrints(m) == RunsDump /\ CallbackStep(m) /\ DumpFrame
DumpAnswered == RunsDump /\ BrokerAnswers /\ DumpFrame

DumpEnds ==
    /\ settings.command = "dump" /\ run = "returned"
    /\ Fails("running", runErr)
    /\ UNCHANGED <<settings, conn, catching>> /\ MainFrame

\* pub or sub returns, with what it has opened closed.  A pub of which no client
\* ever connected returns an error, unless it was cancelled while connecting.
OtherReturns ==
    /\ settings.command # "dump"
    /\ \E result \in {"nil", "runError"} :
          Fails("running", result) /\ (conn = "none" /\ result = "nil" => ctxDone)
    /\ conn' = IF conn = "live" THEN "closed" ELSE conn
    /\ UNCHANGED <<settings, catching>> /\ MainFrame

\* Mutant: main does not look at the error of ExecuteContext.
ReturnAlways ==
    /\ Goes("returned", "stopped") /\ catching' = FALSE
    /\ UNCHANGED <<settings, err, conn>> /\ MainFrame

\* main returns, and stopCatchingSignals is deferred, ...
Return ==
    /\ err = "nil" /\ Goes("returned", "stopped") /\ catching' = FALSE
    /\ UNCHANGED <<settings, err, conn>> /\ MainFrame

\* ... but not called by os.Exit(1).
Exit ==
    /\ \/ err # "nil" /\ Goes("returned", "exited1")
       \/ Goes("stopped", "exited0")
    /\ UNCHANGED <<settings, err, conn, catching>> /\ MainFrame

MainStep ==
    \/ NotifyContext \/ ApplyEnvironmentFallback \/ Validate \/ Dial \/ DialCancelled
    \/ DumpGoesOn \/ DumpEnds \/ (ctxDone /\ OtherReturns) \/ Return \/ Exit

Ended == main \in Done /\ UNCHANGED processVars

ProcessNext ==
    \/ Signal \/ CancelContext \/ StopCatching \/ MainStep
    \/ DialAccepted \/ DialRefused \/ PubConnects \/ OtherReturns \/ DumpAnswered
    \/ \E m \in Messages : DumpCalled(m) \/ DumpPrints(m)
    \/ Ended

\* The goroutines are scheduled, and a cancelled pub or sub returns.
ProcessSpec ==
    /\ ProcessInit /\ [][ProcessNext]_processVars
    /\ WF_processVars(CancelContext) /\ WF_processVars(StopCatching) /\ WF_processVars(MainStep)
    /\ \A m \in Messages : WF_processVars(DumpPrints(m))

-----------------------------------------------------------------------------
(* Properties.                                                             *)

\* What was asked for about TLS is done and nothing else: no file named on the
\* command line or else in the environment, no --insecure and no --mqtts is
\* dropped on the way, TLS is not turned on by a file alone, and the URL and the
\* configuration agree.
TLSAsAsked(s) ==
    LET c == s.connection
        tls == BuildTLSConfig(c)
        named == {name \in DOMAIN c.files : s.flags[name] \notin {Absent, ""}
                     \/ (s.flags[name] = Absent /\ s.environment[name] \notin {Absent, ""})}
    IN  /\ named = {name \in DOMAIN c.files : c.files[name] # ""}
        /\ \A name \in named : s.flags[name] # Absent => c.files[name] = s.flags[name]
        /\ (Scheme(c) = "tls") = (tls # NoTLS)
        /\ c.mqtts \/ c.insecure \/ named # {} => tls # NoTLS
        /\ tls # NoTLS => /\ c.mqtts \/ named = DOMAIN c.files
                          /\ tls.insecure = c.insecure
                          /\ "ca" \in named => tls.rootCAs = c.files.ca
                          /\ named \cap {"cert", "key"} # {}
                                => tls.certificate = <<c.files.cert, c.files.key>>

\* "broker allows one connection per client ID": the clients of a run differ.
OwnClientIDs(s) ==
    s.command = "pub" =>
        Cardinality({EffectiveClientID(s.connection, n) : n \in 1..s.publish.clients})
            = s.publish.clients

\* A command that gets to dial does so as it was asked to.
DialsAsAsked ==
    [][main = "validated" /\ main' # main /\ main' # "killed"
        => TLSAsAsked(settings) /\ OwnClientIDs(settings)]_processVars

\* "The first Ctrl-C cancels ctx and the command shuts down cleanly": one signal
\* alone, whenever it comes, never leaves a connection to the system to close,
\* and neither does a process that exits.
LeavesCleanly == main \in Done /\ conn = "live" => main = "killed" /\ signals >= 2

\* Only a pub that was cancelled while its clients were connecting exits with 0
\* although it never had a connection ("Ctrl-C while connecting is a normal stop");
\* sub and dump, which dial before they run, exit with 1 then, cancelled or not.  A
\* dump that had a connection exits with 0 only after Ctrl-C, and with 1 only when
\* the subscribe or a write had failed.
StatusTruthful ==
    main \in {"exited0", "exited1"} =>
        /\ conn = "none" /\ main = "exited0" => settings.command = "pub" /\ ctxDone
        /\ settings.command = "dump" /\ conn # "none" =>
              IF main = "exited0" THEN ctxDone
              ELSE runErr = "subscribeError" \/ (runErr = "printError" /\ failed)

\* A signal, a failed write and a refused subscribe end the process, whatever
\* the broker does, a signal even while the broker leaves a dial unanswered.
ProcessEnds ==
    (signals > 0 \/ (RunsDump /\ (printFailed = 1 \/ token = "error"))) ~> main \in Done

=============================================================================
