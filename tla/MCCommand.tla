----------------------------- MODULE MCCommand ------------------------------
(* A small instance of Command for TLC.                                    *)
EXTENDS Command

NotSet == [name \in FileNames |-> Absent]

Plain == [qos |-> 1, port |-> 1883, keepAlive |-> 5, logLevel |-> "info", clientID |-> "",
          mqtts |-> FALSE, insecure |-> FALSE, files |-> [name \in FileNames |-> ""]]
Publishing == [count |-> 1, size |-> 0, interval |-> 0, schedule |-> "flat", clients |-> 1,
               inFlight |-> 1, ackTimeout |-> 1, connectConcurrency |-> 1]
Subscribing == [resetAfter |-> 1, count |-> 0]

Invocation(command, c, p, s, flags, variables) ==
    [command |-> command, connection |-> c, publish |-> p, subscribe |-> s,
     flags |-> flags, environment |-> variables]

\* Every choice about TLS, from the flags and from the environment.
AboutTLS ==
    {Invocation("dump", [Plain EXCEPT !.mqtts = mqtts, !.insecure = insecure],
                Publishing, Subscribing, flags, variables) :
        flags \in [FileNames -> {Absent, "", "flag"}], mqtts \in BOOLEAN, insecure \in BOOLEAN,
        variables \in [FileNames -> {Absent, "variable"}]}

\* Client IDs, and numbers on both sides of their limits.
Connections ==
    {[Plain EXCEPT !.qos = n] : n \in -1..3}
      \cup {[Plain EXCEPT !.port = n] : n \in {0, 65535, 65536}}
      \cup {[Plain EXCEPT !.keepAlive = -1], [Plain EXCEPT !.logLevel = "loud"]}
Publishings ==
    {[Publishing EXCEPT !.clients = n] : n \in 0..3}
      \cup {[Publishing EXCEPT !.inFlight = n] : n \in {0, 65536}}
      \cup {[Publishing EXCEPT !.count = 0], [Publishing EXCEPT !.schedule = "other"]}

MCInvocations ==
    AboutTLS
      \cup {Invocation("dump", c, Publishing, Subscribing, NotSet, NotSet) : c \in Connections}
      \cup {Invocation("pub", [Plain EXCEPT !.clientID = id], p, Subscribing, NotSet, NotSet) :
              id \in {"", "mine"}, p \in Publishings}
      \cup {Invocation("sub", Plain, Publishing, [Subscribing EXCEPT !.count = n],
                       NotSet, NotSet) : n \in -1..1}

=============================================================================
