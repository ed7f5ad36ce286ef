--------------------------- MODULE MCSubscribeRun ---------------------------
(* Small instances of SubscribeRun for TLC.                                *)
EXTENDS SubscribeRun, TLC

Counting == [count |-> 1, ordered |-> FALSE, benchmark |-> TRUE, disableBar |-> FALSE]
Logging  == [count |-> 2, ordered |-> TRUE, benchmark |-> FALSE, disableBar |-> TRUE]
Endless  == [Counting EXCEPT !.count = 0]

BothDisplays == {Counting, Logging}
EndlessOnly  == {Endless}

\* The counting run has no use for a clock; the other tells earlier from later.
ClockIfLogging == (Counting :> 1) @@ (Logging :> 2)
LongClock      == [s \in EndlessOnly |-> 3]
NoClock        == [s \in EndlessOnly |-> 1]

=============================================================================
