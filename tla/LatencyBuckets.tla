--------------------------- MODULE LatencyBuckets ---------------------------
(***************************************************************************)
(* The index arithmetic of the latency counters                            *)
(* (internal/mqttload/latency_buckets.go): which counter a latency goes     *)
(* to, and which latency a counter stands for.                              *)
(*                                                                         *)
(* The code fixes the geometry to HalfShift = 7, Highest = 3 600 000 000   *)
(* and CountsLength = 3328; here it is a parameter.                        *)
(***************************************************************************)
EXTENDS Integers, FiniteSetsExt

CONSTANTS
    HalfShift,    \* latencySubBucketHalfShift
    Highest,      \* latencyHighestMicroseconds
    CountsLength  \* latencyCountsLength

ASSUME HalfShiftAssumption == HalfShift \in Nat
ASSUME HighestAssumption   == Highest \in Nat \ {0}

HalfCount == 2^HalfShift
SubBucketCount == 2 * HalfCount

\* The bit length of the latency beyond the first bucket's: the first bucket
\* holds the values below SubBucketCount, each next one covers twice the range.
BucketIndex(v) == Min({b \in 0..v : v < SubBucketCount * 2^b})

Clamp(v) == Min({Max({v, 0}), Highest})

\* latencyCountsIndex
CountsIndex(v) ==
    LET clamped == Clamp(v)
        bucket  == BucketIndex(clamped)
    IN  (bucket + 1) * HalfCount + clamped \div 2^bucket - HalfCount

\* Whole chunks of HalfCount counters, and one for every latency.
ASSUME CountsLengthAssumption ==
    /\ CountsLength \in Nat /\ CountsLength % HalfCount = 0
    /\ CountsIndex(Highest) < CountsLength

\* latencyValueForIndex
ValueForIndex(i) ==
    IF i < HalfCount
    THEN i
    ELSE LET bucket    == i \div HalfCount - 1
             subBucket == (i % HalfCount) + HalfCount
         IN  subBucket * 2^bucket

=============================================================================
