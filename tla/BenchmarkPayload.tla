-------------------------- MODULE BenchmarkPayload --------------------------
(***************************************************************************)
(* The payload of pub --benchmark as its generator writes it (payload.go)  *)
(* and as sub --benchmark reads its timestamp (subscribe_stats.go).        *)
(*                                                                         *)
(* The code has Base = 10, MaxDigits = 19 and Width = 64: MaxDigits digits *)
(* fit the unsigned word, but not all of them its signed half, and one     *)
(* digit more does not fit.  A smaller word with the same proportions      *)
(* shows the same.  A payload is what the parser can tell apart: whether   *)
(* it has the prefix, the digits after it, and what ends them.             *)
(***************************************************************************)
EXTENDS Integers, Sequences, SequencesExt

CONSTANTS
    Base,       \* of the numerals
    MaxDigits,  \* maxTimestampDigits
    Width       \* bits of the word the parser adds up in

ASSUME BaseAssumption  == Base \in Nat \ {0, 1}
ASSUME WidthAssumption == Width \in Nat \ {0} /\ MaxDigits \in Nat \ {0}

MaxInt == 2^(Width - 1) - 1

\* What a digit is worth that has k digits behind it.
Place(k) ==
    LET place[i \in 0..k] == IF i = 0 THEN 1 ELSE Base * place[i - 1]
    IN  place[k]

\* MaxDigits digits fit the word, and the greatest number has no more.
ASSUME DigitsAssumption == Place(MaxDigits) <= 2^Width /\ MaxInt < Place(MaxDigits)

Ends == {"comma", "brace", "other", "nothing"}
Payload(prefix, digits, end) == [prefix |-> prefix, digits |-> digits, end |-> end]

\* strconv.AppendInt
Numeral(n) ==
    LET length == CHOOSE k \in 1..n + 1 : n < Place(k) /\ (k > 1 => n >= Place(k - 1))
    IN  [i \in 1..length |-> (n \div Place(length - i)) % Base]

\* benchmarkPayloadGenerator; the padding comes after the comma.
BenchmarkPayloadAt(time) == Payload(TRUE, Numeral(time), "comma")

Unread == -1

ReadTimestamp(payload, maxDigits) ==
    LET value == FoldLeft(LAMBDA sum, digit : (sum * Base + digit) % 2^Width, 0, payload.digits)
    IN  IF /\ payload.prefix
           /\ Len(payload.digits) \in 1..maxDigits
           /\ payload.end \in {"comma", "brace"}
           /\ value <= MaxInt
        THEN value ELSE Unread

\* Mutant: the limit on the digits is checked after the one too many.
BenchmarkTimestampLate(payload) == ReadTimestamp(payload, MaxDigits + 1)

\* benchmarkTimestamp
BenchmarkTimestamp(payload) == ReadTimestamp(payload, MaxDigits)

=============================================================================
