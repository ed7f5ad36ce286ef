--------------------------- MODULE MCLatencyStats ---------------------------
(* A small geometry of LatencyStats for TLC.                               *)
EXTENDS LatencyStats

\* Borders of buckets, below zero, the maximum and above it.
MCLatencies == {-1, 1, 2, 4, 7, 8, 11, 12}

\* Nothing, the time of arrival, the greatest number of the word and one more, and
\* three digits: one that is small, one that wraps around to a small number.
Numerals == {<<>>, <<1, 2>>, <<2, 1>>, <<2, 2>>, <<0, 0, 1>>, <<1, 2, 2>>}

MCPayloads ==
    {Payload(TRUE, digits, "comma") : digits \in Numerals}
      \cup {Payload(TRUE, <<1>>, end) : end \in Ends} \cup {Payload(FALSE, <<1>>, "comma")}

WaiterSymmetry == Permutations(Waiters)

=============================================================================
