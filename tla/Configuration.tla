--------------------------- MODULE Configuration ----------------------------
(***************************************************************************)
(* The settings of a run: where they come from (environment.go), which are *)
(* refused (config.go), and what becomes of the ones about TLS, from the   *)
(* flags (cli/broker.go) to the URL and the TLS configuration a connection *)
(* is made with (broker/tls.go).                                           *)
(***************************************************************************)
EXTENDS Integers

Absent == "absent"  \* a flag that is not given, a variable that is not set

\* What slog's parser accepts; it takes them in any case, and with an offset.
LogLevels == {"debug", "info", "warn", "error"}
Schedules == {"flat", "normal", "random"}

\* The settings of a run, as its structs hold them, with the flags and variables
\* that name files.
FileNames == {"ca", "cert", "key"}
Paths == STRING \cup {""}  \* "" names no file
ConnectionSettings ==
    [qos : Int, port : Int, keepAlive : Int, logLevel : STRING, clientID : STRING,
     mqtts : BOOLEAN, insecure : BOOLEAN, files : [FileNames -> Paths]]
PublishSettings ==
    [count : Int, size : Int, interval : Int, schedule : STRING, clients : Int,
     inFlight : Int, ackTimeout : Int, connectConcurrency : Int]
SubscribeSettings == [resetAfter : Int, count : Int]
AllSettings ==
    [command : {"pub", "sub", "dump"}, connection : ConnectionSettings,
     publish : PublishSettings, subscribe : SubscribeSettings,
     flags : [FileNames -> Paths \cup {Absent}],
     environment : [FileNames -> Paths \cup {Absent}]]

\* The greatest port, and the greatest number of message IDs in use.
MaxUint16 == 65535

\* A flag on the command line, an empty one too, wins over its variable.
WithEnvironment(flags, environment) ==
    [name \in DOMAIN flags |->
        IF flags[name] # Absent THEN flags[name]
        ELSE IF environment[name] # Absent THEN environment[name] ELSE ""]

-----------------------------------------------------------------------------
(* Validation.  The order of the rules decides the message, not the result. *)

CertAndKeyTogether(c) == (c.files.cert # "") = (c.files.key # "")

\* Mutant: a partial set is left to the broker package.
PartialFilesLeft(c) == TRUE

\* --ca alone, or the pair without --ca, only change how TLS is made.
PartialFilesNeedMQTTS(c) ==
    LET given == {name \in {"ca", "cert"} : c.files[name] # ""}
    IN  given \in {{}, {"ca", "cert"}} \/ c.mqtts

InsecureNeedsTLS(c) == c.insecure => c.mqtts \/ c.files.cert # "" \/ c.files.ca # ""

\* Connection.Validate
ConnectionValid(c) ==
    /\ c.qos \in 0..2 /\ c.port \in 1..MaxUint16 /\ c.keepAlive >= 0 /\ c.logLevel \in LogLevels
    /\ CertAndKeyTogether(c) /\ PartialFilesNeedMQTTS(c) /\ InsecureNeedsTLS(c)

\* Publish.ValidateWithConnection: Publish.Validate, and one ID for one client.
PublishValid(p, c) ==
    /\ p.count >= 1 /\ p.size >= 0 /\ p.interval >= 0 /\ p.schedule \in Schedules
    /\ p.clients >= 1 /\ p.inFlight \in 1..MaxUint16 /\ p.ackTimeout > 0
    /\ p.connectConcurrency >= 1
    /\ c.clientID # "" => p.clients = 1

\* Subscribe.Validate
SubscribeValid(s) == s.resetAfter > 0 /\ s.count >= 0

-----------------------------------------------------------------------------
(* From the settings to a connection.                                      *)

\* What uuid.NewString returns for the n-th call.
Generated(n) == <<"generated", n>>

EffectiveClientID(c, n) == IF c.clientID # "" THEN c.clientID ELSE Generated(n)

UsesTLSFiles(files) == files.cert # "" /\ files.key # "" /\ files.ca # ""

\* The scheme of brokerURL.
Scheme(c) == IF UsesTLSFiles(c.files) \/ c.mqtts THEN "tls" ELSE "tcp"

\* A nil configuration: a plain connection.
NoTLS == [nil |-> TRUE]

BuildTLSConfig(c) ==
    IF ~c.mqtts /\ ~UsesTLSFiles(c.files) THEN NoTLS
    ELSE [insecure    |-> c.insecure,
          rootCAs     |-> IF c.files.ca # "" THEN c.files.ca ELSE "system",
          certificate |-> IF c.files.cert # "" THEN <<c.files.cert, c.files.key>> ELSE <<>>]

\* A file that cannot be read, or holds nothing of use, fails the dial.
MayFailToLoad(c) == BuildTLSConfig(c) # NoTLS /\ (c.files.ca # "" \/ c.files.cert # "")

=============================================================================
