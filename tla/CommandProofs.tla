---------------------------- MODULE CommandProofs ----------------------------
(* Theorems about Command for every set of command lines and environments,  *)
(* every number of signals, and every set of messages of a dump; first those *)
(* about DumpRun, for --ordered and --json, whose lemmas speak of single     *)
(* steps, so that they hold of a dump that runs within its process.          *)
EXTENDS Command, FiniteSetTheorems, TLAPS

-----------------------------------------------------------------------------
(* The inductive invariant of DumpRun.                                     *)

Shapes ==
    /\ ctxDone \in BOOLEAN
    /\ token \in {"pending", "ok", "error"} /\ conn \in {"none", "live", "closed"}
    /\ callback \in [Messages -> Callbacks]
    /\ output \in Seq(Messages) /\ mutex \in SUBSET Messages /\ failed \in BOOLEAN
    /\ printFailed \in 0..1 /\ dropped \in Nat
    /\ run \in {"subscribing", "waiting", "disconnecting", "returned"}
    /\ runErr \in {"none", "subscribeError", "printError", "nil"}

\* The mutex is held by the callback between Lock and Unlock, and by one only.
MutexInv ==
    /\ mutex = {m \in Messages : callback[m] \in {"locked", "checked", "written", "erred"}}
    /\ \A m, n \in mutex : m = n

\* The callback whose write failed, until it has passed its error on.
Erring == {m \in Messages : callback[m] \in {"erred", "sending"}}

\* The one error of a run is with its callback, in the channel, or returned; no
\* callback that has found the printer in order is still about to write then.
ErrorInv ==
    /\ failed => \A m \in Messages : callback[m] # "checked"
    /\ ~failed => Erring = {} /\ printFailed = 0 /\ runErr # "printError"
    /\ \A m, n \in Erring : m = n
    /\ Erring # {} => printFailed = 0 /\ runErr # "printError"
    /\ runErr = "printError" => printFailed = 0
    /\ dropped = 0

\* Each line is the line of a callback that has written its own.
OutputInv ==
    /\ IsInjective(output)
    /\ \A i \in DOMAIN output : callback[output[i]] \in {"written", "finished"}

\* RunDump returns an error, or nil after Ctrl-C.
RunInv ==
    /\ run \in {"disconnecting", "returned"} <=> runErr # "none"
    /\ runErr = "nil" => ctxDone
    /\ run = "returned" => conn = "closed"

PrinterInv == Shapes /\ MutexInv /\ ErrorInv /\ OutputInv /\ RunInv

-----------------------------------------------------------------------------
(* The invariant is inductive.                                             *)

\* A printer nobody has used yet satisfies the invariant.
LEMMA UnusedInv ==
    ASSUME ctxDone \in BOOLEAN, token = "pending", conn \in {"none", "live", "closed"},
           callback = [m \in Messages |-> "none"], output = <<>>, mutex = {}, failed = FALSE,
           printFailed = 0, dropped = 0, run = "subscribing", runErr = "none"
    PROVE  PrinterInv
<1>1. Shapes
  <2>1. callback \in [Messages -> Callbacks] /\ output \in Seq(Messages)
    BY DEF Callbacks
  <2>2. mutex \in SUBSET Messages /\ failed \in BOOLEAN
    OBVIOUS
  <2>3. printFailed \in 0..1 /\ dropped \in Nat
    OBVIOUS
  <2>. QED  BY <2>1, <2>2, <2>3 DEF Shapes
<1>2. MutexInv /\ ErrorInv /\ RunInv
  BY DEF MutexInv, ErrorInv, Erring, RunInv
<1>3. OutputInv
  BY DEF OutputInv, IsInjective
<1>. QED  BY <1>1, <1>2, <1>3 DEF PrinterInv

\* A callback that does not write preserves what has been written.
LEMMA OutputUndisturbed ==
    ASSUME Shapes, OutputInv, NEW m \in Messages, UNCHANGED output,
           \A n \in Messages \ {m} : callback'[n] = callback[n],
           callback[m] \in {"written", "finished"} => callback'[m] \in {"written", "finished"}
    PROVE  OutputInv'
<1>1. \A i \in DOMAIN output : output[i] \in Messages
  BY DEF Shapes
<1>2. IsInjective(output)' /\ DOMAIN output' = DOMAIN output
  BY DEF OutputInv, IsInjective
<1>. QED  BY <1>1, <1>2 DEF OutputInv

\* What every step of a callback leaves alone, and where it takes the callback.
LEMMA CallbackFrame ==
    ASSUME PrinterInv, NEW m \in Messages, Call(m) \/ CallbackStep(m)
    PROVE  /\ UNCHANGED <<ctxDone, token, conn, run, runErr>>
           /\ callback' \in [Messages -> Callbacks]
           /\ \A n \in Messages \ {m} : callback'[n] = callback[n]
<1>. USE DEF MessageFrame, Step, runVars
<1>1. UNCHANGED <<ctxDone, token, conn, run, runErr>>
  BY DEF Call, CallbackStep, Format, Lock, CheckFailed, Write, Unlock, SendError
<1>2. PICK to \in Callbacks : callback' = [callback EXCEPT ![m] = to]
  BY DEF Call, CallbackStep, Format, Lock, CheckFailed, Write, Unlock, SendError, Callbacks
<1>. QED  BY <1>1, <1>2 DEF PrinterInv, Shapes

\* Every step of a callback preserves the invariant.
LEMMA CallbackInv ==
    ASSUME PrinterInv, NEW m \in Messages, Call(m) \/ CallbackStep(m)
    PROVE  PrinterInv'
<1>. USE DEF Step, printerVars, channelVars
<1>1. Shapes /\ MutexInv /\ ErrorInv /\ OutputInv /\ RunInv
  BY DEF PrinterInv
<1>2. /\ UNCHANGED <<ctxDone, token, conn, run, runErr>>
      /\ callback' \in [Messages -> Callbacks] /\ callback \in [Messages -> Callbacks]
      /\ \A n \in Messages \ {m} : callback'[n] = callback[n]
  BY <1>1, CallbackFrame DEF Shapes
<1>3. RunInv'
  BY <1>1, <1>2 DEF RunInv
<1>4. CASE Call(m) \/ Format(m)
  <2>1. /\ UNCHANGED <<mutex, failed, output, printFailed, dropped>>
        /\ callback[m] \in {"none", "called"}
        /\ callback'[m] \in {"called", "formatted", "finished"}
    BY <1>2, <1>4 DEF Call, Format
  <2>2. Erring' = Erring
    BY <1>2, <2>1 DEF Erring
  <2>3. Shapes' /\ MutexInv' /\ ErrorInv'
    BY <1>1, <1>2, <2>1, <2>2 DEF Shapes, MutexInv, ErrorInv
  <2>. QED  BY <1>1, <1>2, <1>3, <2>1, <2>3, OutputUndisturbed DEF PrinterInv
<1>5. CASE Lock(m)
  <2>1. /\ UNCHANGED <<failed, output, printFailed, dropped>>
        /\ mutex = {} /\ mutex' = {m}
        /\ callback[m] = "formatted" /\ callback'[m] = "locked"
    BY <1>2, <1>5 DEF Lock
  <2>2. Erring' = Erring
    BY <1>2, <2>1 DEF Erring
  <2>3. Shapes' /\ MutexInv' /\ ErrorInv'
    BY <1>1, <1>2, <2>1, <2>2 DEF Shapes, MutexInv, ErrorInv
  <2>. QED  BY <1>1, <1>2, <1>3, <2>1, <2>3, OutputUndisturbed DEF PrinterInv
<1>6. CASE CheckFailed(m)
  <2>1. /\ UNCHANGED <<mutex, failed, output, printFailed, dropped>>
        /\ callback[m] = "locked" /\ callback'[m] = IF failed THEN "written" ELSE "checked"
    BY <1>2, <1>6 DEF CheckFailed
  <2>2. Erring' = Erring
    BY <1>2, <2>1 DEF Erring
  <2>3. Shapes' /\ MutexInv' /\ ErrorInv'
    BY <1>1, <1>2, <2>1, <2>2 DEF Shapes, MutexInv, ErrorInv
  <2>. QED  BY <1>1, <1>2, <1>3, <2>1, <2>3, OutputUndisturbed DEF PrinterInv
<1>7. CASE Write(m)
  <2>1. /\ UNCHANGED <<mutex, printFailed, dropped>> /\ callback[m] = "checked" /\ ~failed
    BY <1>1, <1>7 DEF Write, ErrorInv
  <2>2. MutexInv'
    BY <1>1, <1>2, <1>7, <2>1 DEF Write, MutexInv
  <2>3. CASE callback'[m] = "written"
    <3>1. output' = Append(output, m) /\ UNCHANGED failed
      BY <1>2, <1>7, <2>3 DEF Write
    <3>2. Erring' = Erring
      BY <1>2, <2>1, <2>3 DEF Erring
    <3>3. /\ output \in Seq(Messages) /\ output' \in Seq(Messages)
          /\ Len(output') = Len(output) + 1 /\ output'[Len(output) + 1] = m
          /\ \A i \in 1..Len(output) : output'[i] = output[i]
      BY <1>1, <3>1 DEF Shapes
    <3>4. \A i \in 1..Len(output) : /\ output[i] \in Messages /\ output[i] # m
                                   /\ callback[output[i]] \in {"written", "finished"}
      BY <1>1, <2>1, <3>3 DEF OutputInv
    <3>5. OutputInv'
      <4>1. \A i \in 1..Len(output') : i \in 1..Len(output) \/ i = Len(output) + 1
        BY <3>3
      <4>2. \A i, j \in 1..Len(output') : output'[i] = output'[j] => i = j
        BY <1>1, <3>3, <3>4, <4>1 DEF OutputInv, IsInjective
      <4>3. \A i \in 1..Len(output') : callback'[output'[i]] \in {"written", "finished"}
        BY <1>2, <2>3, <3>3, <3>4, <4>1
      <4>. QED  BY <3>3, <4>2, <4>3 DEF OutputInv, IsInjective
    <3>6. Shapes' /\ ErrorInv'
      BY <1>1, <1>2, <2>1, <2>3, <3>1, <3>2, <3>3 DEF Shapes, ErrorInv
    <3>. QED  BY <1>3, <2>2, <3>5, <3>6 DEF PrinterInv
  <2>4. CASE callback'[m] # "written"
    <3>1. callback'[m] = "erred" /\ failed' = TRUE /\ UNCHANGED output
      BY <1>2, <1>7, <2>4 DEF Write
    <3>2. Erring' = {m}
      BY <1>1, <1>2, <2>1, <3>1 DEF Erring, ErrorInv
    <3>3. \A n \in Messages : callback'[n] # "checked"
      <4>. SUFFICES ASSUME NEW n \in Messages, callback'[n] = "checked" PROVE FALSE
        OBVIOUS
      <4>1. n # m /\ n \in mutex /\ m \in mutex
        BY <1>1, <1>2, <2>1, <3>1 DEF MutexInv
      <4>. QED  BY <1>1, <4>1 DEF MutexInv
    <3>4. Shapes' /\ ErrorInv'
      BY <1>1, <1>2, <2>1, <3>1, <3>2, <3>3 DEF Shapes, ErrorInv
    <3>. QED  BY <1>1, <1>2, <1>3, <2>1, <2>2, <3>1, <3>4, OutputUndisturbed DEF PrinterInv
  <2>. QED  BY <2>3, <2>4
<1>8. CASE Unlock(m)
  <2>1. /\ UNCHANGED <<failed, output, printFailed, dropped>> /\ mutex' = mutex \ {m}
        /\ \/ callback[m] = "written" /\ callback'[m] = "finished"
           \/ callback[m] = "erred" /\ callback'[m] = "sending"
    BY <1>2, <1>8 DEF Unlock
  <2>2. Erring' = Erring
    BY <1>2, <2>1 DEF Erring
  <2>3. Shapes' /\ MutexInv' /\ ErrorInv'
    BY <1>1, <1>2, <2>1, <2>2 DEF Shapes, MutexInv, ErrorInv
  <2>. QED  BY <1>1, <1>2, <1>3, <2>1, <2>3, OutputUndisturbed DEF PrinterInv
<1>9. CASE SendError(m)
  <2>1. m \in Erring /\ callback[m] = "sending" /\ callback'[m] = "finished"
    BY <1>2, <1>9 DEF SendError, Erring
  <2>2. UNCHANGED <<mutex, failed, output, dropped>> /\ printFailed' = 1 /\ failed
    BY <1>1, <1>9, <2>1 DEF SendError, ErrorInv
  <2>3. Erring' = {}
    BY <1>1, <1>2, <2>1 DEF Erring, ErrorInv
  <2>4. Shapes' /\ MutexInv'
    BY <1>1, <1>2, <2>1, <2>2 DEF Shapes, MutexInv
  <2>5. ErrorInv'
    BY <1>1, <1>2, <2>1, <2>2, <2>3 DEF ErrorInv
  <2>. QED  BY <1>1, <1>2, <1>3, <2>1, <2>2, <2>4, <2>5, OutputUndisturbed DEF PrinterInv
<1>. QED  BY <1>4, <1>5, <1>6, <1>7, <1>8, <1>9 DEF CallbackStep

\* Every step of RunDump preserves the invariant.
LEMMA RunStepInv ==
    ASSUME PrinterInv, RunStep
    PROVE  PrinterInv'
<1>. USE DEF RunFrame, printerVars
<1>1. Shapes /\ MutexInv /\ ErrorInv /\ OutputInv /\ RunInv
  BY DEF PrinterInv
<1>2. UNCHANGED <<ctxDone, token, callback, mutex, failed, output, dropped>>
  BY DEF RunStep, Subscribed, SubscribeFailed, StopCancelled, StopFailed, Disconnect
<1>3. Erring' = Erring
  BY <1>2 DEF Erring
<1>4. MutexInv' /\ OutputInv'
  BY <1>1, <1>2 DEF MutexInv, OutputInv, IsInjective
<1>5. Shapes' /\ RunInv'
  BY <1>1, <1>2 DEF Shapes, RunInv, RunStep, Subscribed, SubscribeFailed, StopCancelled,
     StopFailed, Disconnect
<1>6. ErrorInv'
  <2>1. CASE Subscribed \/ SubscribeFailed \/ StopCancelled \/ Disconnect
    BY <1>1, <1>2, <1>3, <2>1
    DEF ErrorInv, RunInv, Subscribed, SubscribeFailed, StopCancelled, Disconnect
  <2>2. CASE StopFailed
    BY <1>1, <1>2, <1>3, <2>2 DEF ErrorInv, StopFailed
  <2>. QED  BY <2>1, <2>2 DEF RunStep
<1>. QED  BY <1>4, <1>5, <1>6 DEF PrinterInv

\* The invariant lets the context be cancelled, the broker answer, and a connection
\* be made or closed as long as RunDump has not returned.
LEMMA OutsideInv ==
    ASSUME PrinterInv,
           UNCHANGED <<callback, mutex, failed, output, printFailed, dropped, run, runErr>>,
           ctxDone' \in BOOLEAN, ctxDone => ctxDone', token' \in {"pending", "ok", "error"},
           conn' \in {"none", "live", "closed"}, run = "returned" => conn' = "closed"
    PROVE  PrinterInv'
<1>1. Shapes /\ MutexInv /\ ErrorInv /\ OutputInv /\ RunInv
  BY DEF PrinterInv
<1>2. Shapes' /\ MutexInv' /\ RunInv'
  BY <1>1 DEF Shapes, MutexInv, RunInv
<1>3. ErrorInv'
  BY <1>1 DEF ErrorInv, Erring
<1>4. OutputInv'
  BY <1>1 DEF OutputInv, IsInjective
<1>. QED  BY <1>2, <1>3, <1>4 DEF PrinterInv

\* No step writes a line once a write has failed.
LEMMA NoMoreOutput ==
    ASSUME PrinterInv, failed,
           \/ \E m \in Messages : Call(m) \/ CallbackStep(m)
           \/ RunStep
    PROVE  output' = output
<1>1. ASSUME NEW m \in Messages, Write(m)
      PROVE  output' = output
  <2>1. callback[m] # "checked"
    BY DEF PrinterInv, ErrorInv
  <2>. QED  BY <1>1, <2>1 DEF Write, Step
<1>2. ASSUME NEW m \in Messages,
             \/ Call(m) \/ Format(m) \/ Lock(m) \/ CheckFailed(m) \/ Unlock(m) \/ SendError(m)
      PROVE  output' = output
  BY <1>2 DEF Call, Format, Lock, CheckFailed, Unlock, SendError, printerVars
<1>3. CASE RunStep
  BY <1>3 DEF RunStep, Subscribed, SubscribeFailed, StopCancelled, StopFailed, Disconnect,
     RunFrame, printerVars
<1>. QED  BY <1>1, <1>2, <1>3 DEF CallbackStep

-----------------------------------------------------------------------------
(* The theorems.                                                           *)

\* The printer and RunDump keep the inductive invariant.
THEOREM DumpInvariant == Spec => []PrinterInv
<1>1. Init => PrinterInv
  BY UnusedInv DEF Init
<1>2. PrinterInv /\ [Next]_vars => PrinterInv'
  <2>. SUFFICES ASSUME PrinterInv, [Next]_vars
                PROVE  PrinterInv'
    OBVIOUS
  <2>1. CASE RunStep \/ \E m \in Messages : Call(m) \/ CallbackStep(m)
    BY <2>1, RunStepInv, CallbackInv
  <2>2. CASE BrokerAnswers \/ Cancel \/ Terminating \/ UNCHANGED vars
    <3>1. /\ UNCHANGED <<conn, callback, mutex, failed, output, printFailed, dropped,
                         run, runErr>>
          /\ ctxDone' = ctxDone \/ ctxDone' = TRUE
          /\ token' = token \/ token' \in {"ok", "error"}
      BY <2>2 DEF BrokerAnswers, Cancel, Terminating, vars, printerVars, channelVars, runVars
    <3>2. Shapes /\ RunInv
      BY DEF PrinterInv
    <3>3. /\ ctxDone' \in BOOLEAN /\ (ctxDone => ctxDone')
          /\ token' \in {"pending", "ok", "error"} /\ conn' \in {"none", "live", "closed"}
          /\ run = "returned" => conn' = "closed"
      BY <3>1, <3>2 DEF Shapes, RunInv
    <3>. QED  BY <3>1, <3>3, OutsideInv
  <2>. QED  BY <2>1, <2>2 DEF Next
<1>. QED  BY <1>1, <1>2, PTL DEF Spec

\* Every variable keeps its type, and no line is written twice.
THEOREM DumpTypeCorrect == Spec => []TypeOK
<1>1. PrinterInv => TypeOK
  BY DEF PrinterInv, Shapes, OutputInv, TypeOK
<1>. QED  BY <1>1, DumpInvariant, PTL

\* "printFailed only ever needs to carry the first error".
THEOREM FirstErrorOnly == Spec => []OneError
<1>1. PrinterInv => OneError
  BY DEF PrinterInv, ErrorInv, OneError
<1>. QED  BY <1>1, DumpInvariant, PTL

\* After a failed write nothing is written, whatever was under way.
THEOREM SilentAfterFailure == Spec => NothingAfterFailure
<1>1. PrinterInv /\ [Next]_vars => [failed => output' = output]_vars
  <2>1. ASSUME PrinterInv, failed, Next
        PROVE  output' = output
    <3>1. CASE BrokerAnswers \/ Cancel \/ Terminating
      BY <3>1 DEF BrokerAnswers, Cancel, Terminating, vars, printerVars
    <3>. QED  BY <2>1, <3>1, NoMoreOutput DEF Next
  <2>. QED  BY <2>1
<1>. QED  BY <1>1, DumpInvariant, PTL DEF Spec, NothingAfterFailure

-----------------------------------------------------------------------------
(* The inductive invariant of Command.                                     *)

Configuring == {"starting", "executing", "configured", "validated"}
Leaving     == {"returned", "stopped", "exited0", "exited1"}

ProcessShapes ==
    /\ main \in Configuring \cup {"connecting", "running"} \cup Leaving \cup Done
    /\ catching \in BOOLEAN /\ pending \in BOOLEAN /\ signals \in Nat

\* From the command line to the dial, the settings are those of an invocation,
\* first completed from its environment, then validated.
SettingsInv ==
    /\ main \in Configuring =>
          settings \in AllSettings
    /\ main \in {"configured", "validated"} =>
          settings.connection.files = WithEnvironment(settings.flags, settings.environment)
    /\ main = "validated" => SettingsValid

\* A signal can kill a process that has set up its signals only after an earlier
\* one has cancelled the context.
SignalInv ==
    /\ ctxDone \/ pending => signals >= 1
    /\ ~catching => main \in {"starting", "stopped"} \cup Done \/ ctxDone

\* There is a connection while sub or dump runs, and then only one that a second
\* signal has cut short.
ConnectionInv ==
    /\ main \in Configuring \cup {"connecting"} => conn = "none"
    /\ main = "running" /\ conn = "none" => settings.command = "pub"
    /\ conn = "live" => main = "running" \/ (main = "killed" /\ signals >= 2)

\* The error decides on the status: without a connection there is one but for a
\* cancelled pub, and the error of a dump is that of RunDump.
StatusInv ==
    /\ main \in Leaving /\ conn = "none" /\ err = "nil" => settings.command = "pub" /\ ctxDone
    /\ main \in {"stopped", "exited0"} => err = "nil"
    /\ main = "exited1" => err # "nil"
    /\ main \in Leaving /\ settings.command = "dump" /\ conn # "none" =>
          err = runErr /\ run = "returned"

ProcessInv ==
    PrinterInv /\ ProcessShapes /\ SettingsInv /\ SignalInv /\ ConnectionInv /\ StatusInv

-----------------------------------------------------------------------------
(* The settings of a connection.                                           *)

\* Settings that are valid and complete ask for what is done about TLS.
LEMMA ValidTLS ==
    ASSUME NEW s, s.connection \in ConnectionSettings, s.flags \in [FileNames -> Paths \cup {Absent}],
           s.environment \in [FileNames -> Paths \cup {Absent}], ConnectionValid(s.connection),
           s.connection.files = WithEnvironment(s.flags, s.environment)
    PROVE  TLSAsAsked(s)
<1>. DEFINE c == s.connection
            tls == BuildTLSConfig(c)
            Given(name) == \/ s.flags[name] \notin {Absent, ""}
                           \/ /\ s.flags[name] = Absent
                              /\ s.environment[name] \notin {Absent, ""}
            named == {name \in DOMAIN c.files : Given(name)}
<1>1. /\ c.files \in [FileNames -> Paths] /\ c.mqtts \in BOOLEAN /\ c.insecure \in BOOLEAN
      /\ \A name \in FileNames :
            /\ c.files[name] # "" <=> Given(name)
            /\ s.flags[name] \notin {Absent, ""} => c.files[name] = s.flags[name]
            /\ s.flags[name] # Absent => c.files[name] = s.flags[name]
  BY DEF ConnectionSettings, WithEnvironment, Absent
<1>. HIDE DEF Given
<1>2. named = {name \in FileNames : c.files[name] # ""}
  BY <1>1
<1>3. c.files.cert # "" <=> c.files.key # ""
  BY DEF ConnectionValid, CertAndKeyTogether
<1>4. c.insecure => c.mqtts \/ c.files.cert # "" \/ c.files.ca # ""
  BY DEF ConnectionValid, InsecureNeedsTLS
<1>5. ~c.mqtts => (c.files.ca # "" <=> c.files.cert # "")
  <2>. DEFINE given == {name \in {"ca", "cert"} : c.files[name] # ""}
  <2>1. ~c.mqtts => given = {} \/ given = {"ca", "cert"}
    BY DEF ConnectionValid, PartialFilesNeedMQTTS
  <2>2. /\ "ca" \in given <=> c.files.ca # ""
        /\ "cert" \in given <=> c.files.cert # ""
    OBVIOUS
  <2>. HIDE DEF given
  <2>. QED  BY <2>1, <2>2
<1>6. UsesTLSFiles(c.files) <=> named = FileNames
  BY <1>2 DEF UsesTLSFiles, FileNames
<1>7. tls # NoTLS <=> c.mqtts \/ UsesTLSFiles(c.files)
  BY DEF BuildTLSConfig, NoTLS
<1>8. tls # NoTLS => /\ tls.insecure = c.insecure
                     /\ c.files.ca # "" => tls.rootCAs = c.files.ca
                     /\ c.files.cert # "" => tls.certificate = <<c.files.cert, c.files.key>>
  BY DEF BuildTLSConfig
<1>9. (Scheme(c) = "tls") = (tls # NoTLS)
  BY <1>7 DEF Scheme
<1>10. /\ \A name \in named : s.flags[name] # Absent => c.files[name] = s.flags[name]
       /\ c.mqtts \/ c.insecure \/ named # {} => tls # NoTLS
  <2>1. named # {} => c.mqtts \/ UsesTLSFiles(c.files)
    BY <1>2, <1>3, <1>5 DEF FileNames, UsesTLSFiles
  <2>2. c.insecure => c.mqtts \/ named # {}
    BY <1>2, <1>4 DEF FileNames
  <2>. QED  BY <1>1, <1>2, <1>7, <2>1, <2>2
<1>11. tls # NoTLS => /\ c.mqtts \/ named = DOMAIN c.files
                      /\ tls.insecure = c.insecure
                      /\ "ca" \in named => tls.rootCAs = c.files.ca
                      /\ named \cap {"cert", "key"} # {}
                            => tls.certificate = <<c.files.cert, c.files.key>>
  <2>1. "ca" \in named <=> c.files.ca # ""
    BY <1>2 DEF FileNames
  <2>2. named \cap {"cert", "key"} # {} <=> c.files.cert # ""
    BY <1>2, <1>3 DEF FileNames
  <2>3. DOMAIN c.files = FileNames
    BY <1>1
  <2>. HIDE DEF named, tls
  <2>. QED  BY <1>6, <1>7, <1>8, <2>1, <2>2, <2>3
<1>12. named = {name \in DOMAIN c.files : c.files[name] # ""}
  BY <1>1, <1>2
<1>. QED  BY <1>9, <1>10, <1>11, <1>12 DEF TLSAsAsked, Given

\* Generated IDs are all different.
LEMMA DistinctIDs ==
    ASSUME NEW k \in Nat
    PROVE  Cardinality({Generated(n) : n \in 1..k}) = k
<1>. DEFINE IDs == {Generated(n) : n \in 1..k}
<1>1. IsFiniteSet(1..k) /\ Cardinality(1..k) = k
  BY FS_Interval
<1>2. \A m, n \in 1..k : Generated(m) = Generated(n) => m = n
  BY DEF Generated
<1>3. [n \in 1..k |-> Generated(n)] \in Bijection(1..k, IDs)
  BY <1>2 DEF Bijection, Injection, Surjection, IsInjective
<1>. QED  BY <1>1, <1>3, FS_Bijection DEF ExistsBijection

\* Settings that are valid give every client of a run an ID of its own.
LEMMA ValidClientIDs ==
    ASSUME NEW s, s.publish \in PublishSettings,
           s.command = "pub" => PublishValid(s.publish, s.connection)
    PROVE  OwnClientIDs(s)
<1>. DEFINE k == s.publish.clients
            IDs == {EffectiveClientID(s.connection, n) : n \in 1..k}
<1>. SUFFICES ASSUME s.command = "pub" PROVE Cardinality(IDs) = k
  BY DEF OwnClientIDs
<1>1. k \in Int /\ k >= 1
  BY DEF PublishSettings, PublishValid
<1>2. CASE s.connection.clientID # ""
  <2>1. k = 1
    BY <1>2 DEF PublishValid
  <2>2. 1..k = {1}
    BY <2>1
  <2>. HIDE DEF k
  <2>3. IDs = {s.connection.clientID}
    BY <1>2, <2>2 DEF EffectiveClientID
  <2>. HIDE DEF IDs
  <2>. QED  BY <2>1, <2>3, FS_Singleton
<1>3. CASE s.connection.clientID = ""
  <2>1. IDs = {Generated(n) : n \in 1..k}
    BY <1>3 DEF EffectiveClientID
  <2>2. k \in Nat
    BY <1>1
  <2>. HIDE DEF IDs, k
  <2>. QED  BY <2>1, <2>2, DistinctIDs
<1>. QED  BY <1>2, <1>3

-----------------------------------------------------------------------------
(* The invariant is inductive.                                             *)

\* The initial states satisfy the invariant.
LEMMA ProcessInitInv == ProcessInit => ProcessInv
<1>. HAVE ProcessInit
<1>1. PrinterInv
  BY UnusedInv DEF ProcessInit
<1>2. ProcessShapes /\ SignalInv /\ ConnectionInv /\ StatusInv
  BY DEF ProcessInit, ProcessShapes, Configuring, Leaving, Done, SignalInv, ConnectionInv,
     StatusInv
<1>3. SettingsInv
  BY InvocationsAssumption DEF ProcessInit, SettingsInv
<1>. QED  BY <1>1, <1>2, <1>3 DEF ProcessInv

\* The steps of the process outside its dump leave the printer alone.
LEMMA PrinterUndisturbed ==
    ASSUME ProcessInv, UNCHANGED dumpVars, ctxDone' \in BOOLEAN, ctxDone => ctxDone',
           conn' \in {"none", "live", "closed"},
           conn' = conn \/ conn' = "closed" \/ conn = "none"
    PROVE  PrinterInv'
<1>1. Shapes /\ RunInv
  BY DEF ProcessInv, PrinterInv
<1>2. run = "returned" => conn' = "closed"
  BY <1>1 DEF RunInv
<1>3. token' \in {"pending", "ok", "error"}
  BY <1>1 DEF Shapes, dumpVars
<1>. QED  BY <1>2, <1>3, OutsideInv DEF ProcessInv, dumpVars

\* A signal, and what the process does about it, preserve the invariant.
LEMMA SignalStepInv ==
    ASSUME ProcessInv, Signal \/ CancelContext \/ StopCatching
    PROVE  ProcessInv'
<1>. USE DEF SignalFrame
<1>1. PrinterInv /\ ProcessShapes /\ SettingsInv /\ SignalInv /\ ConnectionInv /\ StatusInv
  BY DEF ProcessInv
<1>2. /\ UNCHANGED <<dumpVars, settings, err, conn>> /\ main \notin Done
      /\ main' = main \/ main' = "killed"
      /\ ctxDone' = ctxDone \/ ctxDone' = TRUE
  BY DEF Signal, CancelContext, StopCatching
<1>3. PrinterInv'
  <2>1. conn' \in {"none", "live", "closed"} /\ conn' = conn
    BY <1>1, <1>2 DEF PrinterInv, Shapes
  <2>2. ctxDone' \in BOOLEAN /\ (ctxDone => ctxDone')
    <3>1. ctxDone \in BOOLEAN
      BY <1>1 DEF PrinterInv, Shapes
    <3>2. CASE ctxDone' = ctxDone
      BY <3>1, <3>2
    <3>3. CASE ctxDone' = TRUE
      BY <3>3
    <3>. QED  BY <1>2, <3>2, <3>3
  <2>3. UNCHANGED dumpVars
    BY <1>2
  <2>. QED  BY <2>1, <2>2, <2>3, PrinterUndisturbed
<1>4. ProcessShapes' /\ SignalInv'
  <2>1. CASE Signal
    <3>1. /\ signals' = signals + 1 /\ UNCHANGED <<ctxDone, catching>>
          /\ pending' \in BOOLEAN
      BY <1>1, <2>1 DEF Signal, ProcessShapes
    <3>2. signals \in Nat
      BY <1>1 DEF ProcessShapes
    <3>. QED  BY <1>1, <1>2, <3>1, <3>2 DEF ProcessShapes, SignalInv, Done
  <2>2. CASE CancelContext
    BY <1>1, <2>2 DEF CancelContext, ProcessShapes, SignalInv
  <2>3. CASE StopCatching
    BY <1>1, <2>3 DEF StopCatching, ProcessShapes, SignalInv
  <2>. QED  BY <2>1, <2>2, <2>3
<1>5. SettingsInv'
  BY <1>1, <1>2 DEF SettingsInv, SettingsValid, Configuring
<1>6. ConnectionInv'
  <2>1. CASE main' = main
    <3>1. signals' \in Nat /\ signals \in Nat /\ signals' >= signals
      BY <1>1 DEF ProcessShapes, Signal, CancelContext, StopCatching
    <3>. QED  BY <1>1, <1>2, <2>1, <3>1 DEF ConnectionInv
  <2>2. CASE main' # main
    <3>1. main' = "killed" /\ ~catching /\ signals' = signals + 1
      BY <1>1, <1>2, <2>2 DEF Signal, CancelContext, StopCatching
    <3>2. conn = "live" => signals >= 1
      BY <1>1, <1>2, <3>1 DEF ConnectionInv, SignalInv, Done
    <3>. QED  BY <1>1, <1>2, <3>1, <3>2 DEF ConnectionInv, ProcessShapes, Configuring
  <2>. QED  BY <2>1, <2>2
<1>7. StatusInv'
  BY <1>1, <1>2 DEF StatusInv, Leaving, dumpVars
<1>. QED  BY <1>3, <1>4, <1>5, <1>6, <1>7 DEF ProcessInv

\* The way of main from its start to the dial preserves the invariant.
LEMMA ConfigureInv ==
    ASSUME ProcessInv, NotifyContext \/ ApplyEnvironmentFallback \/ Validate
    PROVE  ProcessInv'
<1>. USE DEF MainFrame, Goes, Fails
<1>1. PrinterInv /\ ProcessShapes /\ SettingsInv /\ SignalInv /\ ConnectionInv /\ StatusInv
  BY DEF ProcessInv
<1>2. UNCHANGED <<ctxDone, pending, signals, dumpVars, conn>> /\ main \in Configuring
  BY DEF NotifyContext, ApplyEnvironmentFallback, Validate, Configuring
<1>3. conn = "none"
  BY <1>1, <1>2 DEF ConnectionInv
<1>4. PrinterInv'
  <2>1. ctxDone \in BOOLEAN /\ conn \in {"none", "live", "closed"}
    BY <1>1 DEF PrinterInv, Shapes
  <2>. QED  BY <1>2, <2>1, PrinterUndisturbed
<1>5. CASE NotifyContext
  <2>1. ProcessShapes' /\ SignalInv' /\ ConnectionInv' /\ StatusInv'
    BY <1>1, <1>2, <1>3, <1>5 DEF NotifyContext, ProcessShapes, SignalInv, ConnectionInv,
       StatusInv, Configuring, Leaving, Done
  <2>2. SettingsInv'
    BY <1>1, <1>2, <1>5 DEF NotifyContext, SettingsInv, Configuring
  <2>. QED  BY <1>4, <2>1, <2>2 DEF ProcessInv
<1>6. CASE ApplyEnvironmentFallback
  <2>1. ProcessShapes' /\ SignalInv' /\ ConnectionInv' /\ StatusInv'
    BY <1>1, <1>2, <1>3, <1>6 DEF ApplyEnvironmentFallback, ProcessShapes, SignalInv,
       ConnectionInv, StatusInv, Configuring, Leaving, Done
  <2>2. SettingsInv'
    <3>. DEFINE files == WithEnvironment(settings.flags, settings.environment)
    <3>1. /\ settings \in AllSettings
          /\ main' = "configured"
          /\ settings' = [settings EXCEPT !.connection = [@ EXCEPT !.files = files]]
      BY <1>1, <1>2, <1>6 DEF SettingsInv, ApplyEnvironmentFallback
    <3>2. files \in [FileNames -> Paths]
      <4>1. /\ settings.flags \in [FileNames -> Paths \cup {Absent}]
            /\ settings.environment \in [FileNames -> Paths \cup {Absent}]
        BY <3>1 DEF AllSettings
      <4>2. \A name \in FileNames :
               (IF settings.flags[name] # Absent THEN settings.flags[name]
                ELSE IF settings.environment[name] # Absent THEN settings.environment[name]
                ELSE "") \in Paths
        BY <4>1 DEF Paths
      <4>3. DOMAIN settings.flags = FileNames
        BY <4>1
      <4>. QED  BY <4>2, <4>3 DEF WithEnvironment
    <3>. HIDE DEF files
    <3>3. [settings.connection EXCEPT !.files = files] \in ConnectionSettings
      BY <3>1, <3>2 DEF AllSettings, ConnectionSettings
    <3>4. [settings.connection EXCEPT !.files = files].files = files
      BY <3>1 DEF AllSettings, ConnectionSettings
    <3>5. /\ settings' \in AllSettings
          /\ settings'.connection.files = files
          /\ settings'.flags = settings.flags /\ settings'.environment = settings.environment
      BY <3>1, <3>3, <3>4 DEF AllSettings
    <3>. QED  BY <3>1, <3>5 DEF SettingsInv, files
  <2>. QED  BY <1>4, <2>1, <2>2 DEF ProcessInv
<1>7. CASE Validate
  <2>1. ProcessShapes' /\ SignalInv' /\ ConnectionInv' /\ StatusInv'
    BY <1>1, <1>2, <1>3, <1>7 DEF Validate, ProcessShapes, SignalInv, ConnectionInv,
       StatusInv, Configuring, Leaving, Done
  <2>2. SettingsInv'
    <3>1. settings' = settings /\ main = "configured"
            /\ (main' = "validated" => SettingsValid) /\ main' \in {"validated", "returned"}
      BY <1>7 DEF Validate
    <3>. QED  BY <1>1, <3>1 DEF SettingsInv, SettingsValid, Configuring
  <2>. QED  BY <1>4, <2>1, <2>2 DEF ProcessInv
<1>. QED  BY <1>5, <1>6, <1>7

\* The dial, the return of the command and the exit preserve the invariant.
LEMMA MainStepInv ==
    ASSUME ProcessInv,
           \/ Dial \/ DialAccepted \/ DialRefused \/ DialCancelled \/ PubConnects
           \/ DumpEnds \/ OtherReturns \/ Return \/ Exit
    PROVE  ProcessInv'
<1>. USE DEF MainFrame, Goes, Fails
<1>1. PrinterInv /\ ProcessShapes /\ SettingsInv /\ SignalInv /\ ConnectionInv /\ StatusInv
  BY DEF ProcessInv
<1>2. /\ UNCHANGED <<ctxDone, pending, signals, dumpVars>>
      /\ main' \notin Configuring
      /\ conn' = conn \/ conn' = "closed" \/ conn = "none"
      /\ conn' = conn \/ conn' \in {"closed", "live"}
  BY <1>1 DEF Dial, DialAccepted, DialRefused, DialCancelled, PubConnects, DumpEnds,
     OtherReturns, Return, Exit, ConnectionInv, Configuring
<1>3. PrinterInv'
  <2>1. ctxDone \in BOOLEAN /\ conn \in {"none", "live", "closed"}
    BY <1>1 DEF PrinterInv, Shapes
  <2>. QED  BY <1>2, <2>1, PrinterUndisturbed
<1>4. ProcessShapes' /\ SignalInv'
  BY <1>1, <1>2 DEF Dial, DialAccepted, DialRefused, DialCancelled, PubConnects, DumpEnds,
     OtherReturns, Return, Exit, ProcessShapes, SignalInv, Configuring, Leaving, Done
<1>5. SettingsInv'
  BY <1>2 DEF SettingsInv, Configuring
<1>6. ConnectionInv'
  <2>1. run = "returned" => conn = "closed"
    BY <1>1 DEF PrinterInv, RunInv
  <2>. QED  BY <1>1, <1>2, <2>1
       DEF Dial, DialAccepted, DialRefused, DialCancelled, PubConnects, DumpEnds,
       OtherReturns, Return, Exit, ConnectionInv, Configuring, NoSettings
<1>7. StatusInv'
  <2>1. CASE Dial \/ DialAccepted \/ DialRefused \/ DialCancelled
    <3>1. conn = "none" /\ (main' = "returned" => conn' = "none" /\ err' # "nil")
            /\ main' \in {"connecting", "running", "returned"}
      BY <1>1, <2>1 DEF Dial, DialAccepted, DialRefused, DialCancelled, ConnectionInv,
         Configuring
    <3>. QED  BY <3>1 DEF StatusInv, Leaving
  <2>2. CASE DumpEnds \/ OtherReturns
    <3>1. main' = "returned" /\ settings' = settings
      BY <2>2 DEF DumpEnds, OtherReturns
    <3>2. settings.command = "dump" => err' = runErr /\ run = "returned"
      BY <2>2 DEF DumpEnds, OtherReturns
    <3>3. conn' = "none" /\ err' = "nil" => settings.command = "pub" /\ ctxDone
      BY <1>1, <2>2 DEF DumpEnds, OtherReturns, ConnectionInv, PrinterInv, RunInv
    <3>. QED  BY <1>2, <3>1, <3>2, <3>3 DEF StatusInv, dumpVars
  <2>3. CASE Return \/ Exit
    BY <1>1, <1>2, <2>3 DEF Return, Exit, StatusInv, Leaving, dumpVars
  <2>4. CASE PubConnects
    BY <1>1, <1>2, <2>4 DEF PubConnects, StatusInv, Leaving, dumpVars
  <2>. QED  BY <2>1, <2>2, <2>3, <2>4
<1>. QED  BY <1>3, <1>4, <1>5, <1>6, <1>7 DEF ProcessInv

\* The steps of the dump preserve the invariant.
LEMMA DumpStepInv ==
    ASSUME ProcessInv,
           \/ DumpGoesOn \/ DumpAnswered
           \/ \E m \in Messages : DumpCalled(m) \/ DumpPrints(m)
    PROVE  ProcessInv'
<1>1. PrinterInv /\ ProcessShapes /\ SettingsInv /\ SignalInv /\ ConnectionInv /\ StatusInv
  BY DEF ProcessInv
<1>2. UNCHANGED <<settings, main, err, catching, pending, signals>>
  BY DEF DumpGoesOn, DumpAnswered, DumpCalled, DumpPrints, DumpFrame
<1>3. /\ PrinterInv' /\ ctxDone' = ctxDone /\ conn # "none"
      /\ \/ UNCHANGED <<conn, run, runErr>>
         \/ main = "running" /\ conn' \in {conn, "closed"}
  <2>1. ASSUME NEW m \in Messages, DumpCalled(m) \/ DumpPrints(m)
        PROVE  /\ PrinterInv' /\ UNCHANGED <<ctxDone, conn, run, runErr>>
               /\ conn # "none"
    BY <1>1, <2>1, CallbackInv, CallbackFrame DEF DumpCalled, DumpPrints, RunsDump
  <2>2. CASE DumpGoesOn
    BY <1>1, <2>2, RunStepInv DEF DumpGoesOn, RunsDump, RunStep, Subscribed, SubscribeFailed,
       StopCancelled, StopFailed, Disconnect, RunFrame
  <2>3. CASE DumpAnswered
    <3>1. /\ UNCHANGED <<ctxDone, conn, callback, mutex, failed, output, printFailed, dropped,
                         run, runErr>>
          /\ token' \in {"ok", "error"} /\ conn # "none"
      BY <2>3 DEF DumpAnswered, BrokerAnswers, RunsDump, printerVars, channelVars, runVars
    <3>2. Shapes /\ RunInv
      BY <1>1 DEF PrinterInv
    <3>3. /\ ctxDone' \in BOOLEAN /\ conn' \in {"none", "live", "closed"}
          /\ run = "returned" => conn' = "closed"
      BY <3>1, <3>2 DEF Shapes, RunInv
    <3>4. PrinterInv'
      BY <1>1, <3>1, <3>3, OutsideInv
    <3>. QED  BY <3>1, <3>4
  <2>. QED  BY <2>1, <2>2, <2>3
<1>4. ProcessShapes' /\ SignalInv'
  BY <1>1, <1>2, <1>3 DEF ProcessShapes, SignalInv
<1>5. SettingsInv'
  BY <1>1, <1>2 DEF SettingsInv, SettingsValid
<1>6. ConnectionInv'
  BY <1>1, <1>2, <1>3 DEF ConnectionInv, Configuring
<1>7. StatusInv'
  BY <1>1, <1>2, <1>3 DEF StatusInv, Leaving
<1>. QED  BY <1>3, <1>4, <1>5, <1>6, <1>7 DEF ProcessInv

\* Every step of the process preserves the invariant.
LEMMA ProcessNextInv == ProcessInv /\ [ProcessNext]_processVars => ProcessInv'
<1>. SUFFICES ASSUME ProcessInv, [ProcessNext]_processVars
              PROVE  ProcessInv'
  OBVIOUS
<1>1. CASE Signal \/ CancelContext \/ StopCatching
  BY <1>1, SignalStepInv
<1>2. CASE \/ NotifyContext \/ ApplyEnvironmentFallback \/ Validate
  BY <1>2, ConfigureInv
<1>3. CASE \/ Dial \/ DialAccepted \/ DialRefused \/ DialCancelled \/ PubConnects
           \/ DumpEnds \/ OtherReturns \/ Return \/ Exit
  BY <1>3, MainStepInv
<1>4. CASE \/ DumpGoesOn \/ DumpAnswered
           \/ \E m \in Messages : DumpCalled(m) \/ DumpPrints(m)
  BY <1>4, DumpStepInv
<1>5. CASE Ended \/ UNCHANGED processVars
  <2>1. UNCHANGED <<ctxDone, conn, dumpVars, settings, main, err, catching, pending, signals>>
    BY <1>5 DEF Ended, processVars, signalVars
  <2>2. ctxDone' \in BOOLEAN /\ conn' \in {"none", "live", "closed"}
    BY <2>1 DEF ProcessInv, PrinterInv, Shapes
  <2>3. PrinterInv'
    BY <2>1, <2>2, PrinterUndisturbed
  <2>4. ProcessShapes' /\ SignalInv' /\ ConnectionInv' /\ StatusInv'
    BY <2>1 DEF ProcessInv, ProcessShapes, SignalInv, ConnectionInv, StatusInv, dumpVars
  <2>5. SettingsInv'
    BY <2>1 DEF ProcessInv, SettingsInv, SettingsValid
  <2>. QED  BY <2>3, <2>4, <2>5 DEF ProcessInv
<1>. QED  BY <1>1, <1>2, <1>3, <1>4, <1>5 DEF ProcessNext, MainStep

-----------------------------------------------------------------------------
(* The theorems.                                                           *)

\* The process and the dump that runs in it keep the inductive invariant.
THEOREM ProcessInvariant == ProcessSpec => []ProcessInv
<1>1. ProcessInit => ProcessInv
  BY ProcessInitInv
<1>2. ProcessInv /\ [ProcessNext]_processVars => ProcessInv'
  BY ProcessNextInv
<1>. QED  BY <1>1, <1>2, PTL DEF ProcessSpec

\* The first Ctrl-C alone, at whatever moment, leaves no connection behind.
THEOREM CleanLeave == ProcessSpec => []LeavesCleanly
<1>1. ProcessInv => LeavesCleanly
  BY DEF ProcessInv, ConnectionInv, Done, LeavesCleanly
<1>. QED  BY <1>1, ProcessInvariant, PTL

\* Without a connection only a cancelled pub exits with 0, and the exit status of a
\* dump says whether a write or the subscribe failed.
THEOREM TruthfulStatus == ProcessSpec => []StatusTruthful
<1>1. ProcessInv => StatusTruthful
  <2>. SUFFICES ASSUME ProcessInv, main \in {"exited0", "exited1"}
                PROVE  StatusTruthful
    BY DEF StatusTruthful
  <2>1. StatusInv /\ RunInv /\ ErrorInv /\ Shapes
    BY DEF ProcessInv, PrinterInv
  <2>2. conn = "none" /\ main = "exited0" => settings.command = "pub" /\ ctxDone
    BY <2>1 DEF StatusInv, Leaving
  <2>3. CASE settings.command = "dump" /\ conn # "none"
    <3>1. err = runErr /\ runErr # "none"
      BY <2>1, <2>3 DEF StatusInv, Leaving, RunInv
    <3>2. main = "exited0" => ctxDone
      BY <2>1, <3>1 DEF StatusInv, RunInv
    <3>3. main # "exited0" => runErr \in {"subscribeError", "printError"}
      BY <2>1, <3>1 DEF StatusInv, Shapes
    <3>4. runErr = "printError" => failed
      BY <2>1 DEF ErrorInv
    <3>. QED  BY <2>2, <3>2, <3>3, <3>4 DEF StatusTruthful
  <2>. QED  BY <2>2, <2>3 DEF StatusTruthful
<1>. QED  BY <1>1, ProcessInvariant, PTL

\* The printer of a dump within its process sends one error at most.
THEOREM FirstErrorOnlyInProcess == ProcessSpec => []OneError
<1>1. ProcessInv => OneError
  BY DEF ProcessInv, PrinterInv, ErrorInv, OneError
<1>. QED  BY <1>1, ProcessInvariant, PTL

\* A dump writes nothing once a write has failed.
THEOREM SilentAfterFailureInProcess == ProcessSpec => NothingAfterFailure
<1>1. ProcessInv /\ [ProcessNext]_processVars => [failed => output' = output]_vars
  <2>. SUFFICES ASSUME ProcessInv, [ProcessNext]_processVars, failed
                PROVE  output' = output
    OBVIOUS
  <2>1. CASE DumpGoesOn \/ \E m \in Messages : DumpCalled(m) \/ DumpPrints(m)
    BY <2>1, NoMoreOutput DEF ProcessInv, DumpGoesOn, DumpCalled, DumpPrints
  <2>2. CASE DumpAnswered
    BY <2>2 DEF DumpAnswered, BrokerAnswers, printerVars
  <2>3. CASE \/ Signal \/ CancelContext \/ StopCatching
             \/ NotifyContext \/ ApplyEnvironmentFallback \/ Validate
             \/ Dial \/ DialAccepted \/ DialRefused \/ DialCancelled \/ PubConnects
             \/ DumpEnds \/ OtherReturns \/ Return \/ Exit \/ Ended \/ UNCHANGED processVars
    <3>1. UNCHANGED dumpVars
      BY <2>3 DEF Signal, CancelContext, StopCatching, SignalFrame, NotifyContext,
         ApplyEnvironmentFallback, Validate, Dial, DialAccepted, DialRefused, DialCancelled,
         PubConnects, DumpEnds, OtherReturns, Return, Exit, MainFrame, Ended, processVars
    <3>. QED  BY <3>1 DEF dumpVars
  <2>. QED  BY <2>1, <2>2, <2>3 DEF ProcessNext, MainStep
<1>. QED  BY <1>1, ProcessInvariant, PTL DEF ProcessSpec, NothingAfterFailure

\* Every command that gets to dial asks for what its flags and environment said
\* about TLS, and gives every client an ID of its own.
THEOREM AsAsked == ProcessSpec => DialsAsAsked
<1>1. ProcessInv /\ [ProcessNext]_processVars =>
        [main = "validated" /\ main' # main /\ main' # "killed"
            => TLSAsAsked(settings) /\ OwnClientIDs(settings)]_processVars
  <2>. SUFFICES ASSUME ProcessInv, main = "validated"
                PROVE  TLSAsAsked(settings) /\ OwnClientIDs(settings)
    OBVIOUS
  <2>1. /\ settings \in AllSettings
        /\ settings.connection.files = WithEnvironment(settings.flags, settings.environment)
        /\ SettingsValid
    BY DEF ProcessInv, SettingsInv, Configuring
  <2>2. TLSAsAsked(settings)
    BY <2>1, ValidTLS DEF SettingsValid, AllSettings
  <2>3. OwnClientIDs(settings)
    BY <2>1, ValidClientIDs DEF SettingsValid, AllSettings
  <2>. QED  BY <2>2, <2>3
<1>. QED  BY <1>1, ProcessInvariant, PTL DEF ProcessSpec, DialsAsAsked

=============================================================================
