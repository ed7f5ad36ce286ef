--------------------------- MODULE PublishLedger ---------------------------
(***************************************************************************)
(* What a publishing client promises, without goroutines, semaphores or    *)
(* WaitGroups: it sends at most Count messages through a window of         *)
(* InFlight, every message gets exactly one verdict, and the connection is *)
(* closed only when every verdict is in.                                   *)
(*                                                                         *)
(* The behaviour comes from the comments of runClientPublish, sendMessages *)
(* and waitForResult; PublishClient implements it (ImplementsLedger).      *)
(***************************************************************************)
EXTENDS Integers

CONSTANTS Clients, Count, InFlight

VARIABLES
    sent,                    \* sent[c]: messages handed to the connection
    acked, failed, timedOut, \* verdicts per client
    closed                   \* the clients that have disconnected

vars == <<sent, acked, failed, timedOut, closed>>

Verdicts(c) == acked[c] + failed[c] + timedOut[c]

Init ==
    /\ sent = [c \in Clients |-> 0]
    /\ acked = [c \in Clients |-> 0]
    /\ failed = [c \in Clients |-> 0]
    /\ timedOut = [c \in Clients |-> 0]
    /\ closed = {}

\* One more message, while fewer than InFlight are without a verdict.
Send(c) ==
    /\ c \notin closed
    /\ sent[c] < Count
    /\ sent[c] - Verdicts(c) < InFlight
    /\ sent' = [sent EXCEPT ![c] = @ + 1]
    /\ UNCHANGED <<acked, failed, timedOut, closed>>

\* One message without a verdict gets its verdict.
Settle(c) ==
    /\ c \notin closed
    /\ Verdicts(c) < sent[c]
    /\ \/ acked' = [acked EXCEPT ![c] = @ + 1] /\ UNCHANGED <<failed, timedOut>>
       \/ failed' = [failed EXCEPT ![c] = @ + 1] /\ UNCHANGED <<acked, timedOut>>
       \/ timedOut' = [timedOut EXCEPT ![c] = @ + 1] /\ UNCHANGED <<acked, failed>>
    /\ UNCHANGED <<sent, closed>>

Close(c) ==
    /\ c \notin closed
    /\ Verdicts(c) = sent[c]
    /\ closed' = closed \cup {c}
    /\ UNCHANGED <<sent, acked, failed, timedOut>>

Next == \E c \in Clients : Send(c) \/ Settle(c) \/ Close(c)

SafeSpec == Init /\ [][Next]_vars

\* Every verdict arrives and every client closes its connection.
Spec == SafeSpec /\ \A c \in Clients : WF_vars(Settle(c)) /\ WF_vars(Close(c))

=============================================================================
