------------------------- MODULE LatencyStatsProofs -------------------------
(* Theorems about the latency counters and the timestamps sub reads, for    *)
(* every geometry, number of waiters, latency and message.                  *)
EXTENDS LatencyStats, NumberTheorems

-----------------------------------------------------------------------------
(* The geometry.                                                           *)

\* Half a bucket has at least one sub-bucket.
LEMMA Half == HalfCount \in Nat \ {0} /\ SubBucketCount = 2 * HalfCount
BY HalfShiftAssumption, PowerExceeds DEF HalfCount, SubBucketCount

\* The bucket of a value is the first whose range goes beyond it.
LEMMA BucketOf ==
    ASSUME NEW c \in Nat
    PROVE  /\ BucketIndex(c) \in 0..c
           /\ c < SubBucketCount * 2^BucketIndex(c)
           /\ \A b \in Nat : c < SubBucketCount * 2^b => BucketIndex(c) <= b
<1>. DEFINE T == {b \in 0..c : c < SubBucketCount * 2^b}
<1>1. c \in T
  <2>1. c < 2^c /\ 2^c \in Nat /\ SubBucketCount \in Nat /\ 1 <= SubBucketCount
    BY PowerExceeds, Half
  <2>2. 2^c * 1 <= 2^c * SubBucketCount /\ 2^c * SubBucketCount = SubBucketCount * 2^c
    BY <2>1, Times
  <2>3. SubBucketCount * 2^c \in Nat
    BY <2>1, Times
  <2>. QED  BY <2>1, <2>2, <2>3
<1>2. \E m \in T : \A k \in T : m <= k
  <2>1. T \in SUBSET Nat /\ T # {}
    BY <1>1
  <2>. HIDE DEF T
  <2>. QED  BY <2>1, Least
<1>3. BucketIndex(c) \in T /\ \A k \in T : BucketIndex(c) <= k
  <2>1. BucketIndex(c) = Min(T)
    BY DEF BucketIndex
  <2>. HIDE DEF T
  <2>. QED  BY <1>2, <2>1 DEF Min
<1>4. ASSUME NEW b \in Nat, c < SubBucketCount * 2^b
      PROVE  BucketIndex(c) <= b
  <2>1. CASE b <= c
    BY <1>3, <1>4, <2>1
  <2>2. CASE b > c
    BY <1>3, <2>2
  <2>. QED  BY <2>1, <2>2
<1>. QED  BY <1>3, <1>4

\* The sub-bucket of a value: within its bucket, and in its upper half in every
\* bucket but the first.
LEMMA SubBucketOf ==
    ASSUME NEW c \in Nat
    PROVE  /\ c \div 2^BucketIndex(c) \in 0..(SubBucketCount - 1)
           /\ BucketIndex(c) > 0 => c \div 2^BucketIndex(c) >= HalfCount
           /\ 2^BucketIndex(c) * (c \div 2^BucketIndex(c)) <= c
           /\ c < 2^BucketIndex(c) * (c \div 2^BucketIndex(c) + 1)
<1>. DEFINE b == BucketIndex(c)
            p == 2^b
            q == c \div p
<1>1. /\ b \in Nat /\ p \in Nat \ {0} /\ c < SubBucketCount * p
      /\ \A e \in Nat : c < SubBucketCount * 2^e => b <= e
  BY BucketOf, PowerExceeds
<1>2. b > 0 => 2^(b - 1) \in Nat /\ p = 2 * 2^(b - 1)
  <2>. SUFFICES ASSUME b > 0
                PROVE  2^(b - 1) \in Nat /\ p = 2 * 2^(b - 1)
    OBVIOUS
  <2>1. b - 1 \in Nat /\ (b - 1) + 1 = b
    BY <1>1
  <2>. HIDE DEF b
  <2>2. 2^((b - 1) + 1) = 2 * 2^(b - 1)
    BY <2>1, PowerStep
  <2>. QED  BY <2>1, <2>2, PowerExceeds
<1>3. b > 0 => SubBucketCount * 2^(b - 1) <= c
  <2>. SUFFICES ASSUME b > 0
                PROVE  SubBucketCount * 2^(b - 1) <= c
    OBVIOUS
  <2>1. b - 1 \in Nat /\ ~(b <= b - 1)
    BY <1>1
  <2>2. ~(c < SubBucketCount * 2^(b - 1))
    BY <1>1, <2>1
  <2>3. SubBucketCount * 2^(b - 1) \in Nat
    BY <1>2, Half, Times
  <2>. QED  BY <2>2, <2>3
<1>. HIDE DEF b, p
<1>4. q \in Nat /\ c % p \in 0..(p - 1) /\ c = p * q + (c % p)
  BY <1>1, Division
<1>. HIDE DEF q
<1>5. p * q <= c /\ c < p * (q + 1) /\ p * q \in Nat
  <2>1. PICK r \in 0..(p - 1) : c = p * q + r
    BY <1>4, Zenon
  <2>2. p * q \in Nat /\ p * (q + 1) = p * q + p
    BY <1>1, <1>4, Times
  <2>. QED  BY <1>1, <2>1, <2>2
<1>6. q < SubBucketCount
  <2>. SUFFICES ASSUME SubBucketCount <= q
                PROVE  FALSE
    BY <1>4, Half
  <2>1. p * SubBucketCount <= p * q /\ p * SubBucketCount = SubBucketCount * p
    BY <1>1, <1>4, Half, Times
  <2>. QED  BY <1>1, <1>5, <2>1, Half
<1>7. b > 0 => q >= HalfCount
  <2>. SUFFICES ASSUME b > 0, q + 1 <= HalfCount
                PROVE  FALSE
    BY <1>4, Half
  <2>. DEFINE h == 2^(b - 1)
  <2>1. h \in Nat /\ p = 2 * h /\ SubBucketCount * h <= c
    BY <1>2, <1>3
  <2>. HIDE DEF h
  <2>2. p * (q + 1) <= p * HalfCount
    BY <1>1, <1>4, Half, Times
  <2>3. p * HalfCount = SubBucketCount * h
    BY <2>1, Half
  <2>. QED  BY <1>1, <1>5, <2>1, <2>2, <2>3, <1>4, Half, Times
<1>. QED  BY <1>4, <1>5, <1>6, <1>7, Half DEF b, p, q

\* The position of a clamped value, bucket by bucket.
Position(c) == HalfCount * BucketIndex(c) + (c \div 2^BucketIndex(c))

\* The position counts whole halves up to the bucket, and sub-buckets from there.
LEMMA PositionOf ==
    ASSUME NEW c \in Nat
    PROVE  /\ Position(c) \in Nat
           /\ (BucketIndex(c) + 1) * HalfCount + (c \div 2^BucketIndex(c)) - HalfCount
                = Position(c)
<1>. DEFINE b == BucketIndex(c)
            q == c \div 2^BucketIndex(c)
<1>1. b \in Nat /\ q \in Nat
  BY BucketOf, SubBucketOf, Half
<1>2. Position(c) = HalfCount * b + q
  BY DEF Position
<1>. HIDE DEF b, q
<1>3. /\ HalfCount * b \in Nat /\ HalfCount * (b + 1) = HalfCount * b + HalfCount
      /\ HalfCount * (b + 1) = (b + 1) * HalfCount
  BY <1>1, Half, Times
<1>. QED  BY <1>1, <1>2, <1>3, Half DEF b, q

\* A greater value has no smaller position: positions do not run backwards where
\* one bucket ends and the next begins.
LEMMA PositionsInOrder ==
    ASSUME NEW c \in Nat, NEW d \in Nat, c <= d
    PROVE  Position(c) <= Position(d)
<1>. DEFINE b == BucketIndex(c)
            e == BucketIndex(d)
            p == 2^b
            q == c \div 2^b
            r == d \div 2^e
<1>1. /\ b \in Nat /\ e \in Nat /\ q \in Nat /\ r \in Nat
      /\ q < SubBucketCount /\ (e > 0 => r >= HalfCount)
  BY BucketOf, SubBucketOf, Half
<1>2. b <= e
  <2>1. d < SubBucketCount * 2^e /\ SubBucketCount * 2^e \in Nat
    BY <1>1, BucketOf, PowerExceeds, Half, Times
  <2>2. c < SubBucketCount * 2^e
    BY <2>1
  <2>. QED  BY <1>1, <2>2, BucketOf
<1>3. b = e => q <= r
  <2>. SUFFICES ASSUME b = e, r + 1 <= q
                PROVE  FALSE
    BY <1>1
  <2>1. p \in Nat /\ p * q <= c /\ (b = e => d < p * (r + 1))
    BY <1>1, SubBucketOf, PowerExceeds
  <2>. HIDE DEF b, e, p, q, r
  <2>2. p * (r + 1) <= p * q /\ p * (r + 1) \in Nat /\ p * q \in Nat
    BY <1>1, <2>1, Times
  <2>. QED  BY <2>1, <2>2
<1>4. Position(c) = HalfCount * b + q /\ Position(d) = HalfCount * e + r
  BY DEF Position
<1>. HIDE DEF b, e, p, q, r
<1>5. CASE b = e
  BY <1>1, <1>3, <1>4, <1>5, Half, Times
<1>6. CASE b < e
  <2>1. /\ HalfCount * (b + 1) <= HalfCount * e
        /\ HalfCount * (b + 1) = HalfCount * b + HalfCount
        /\ HalfCount * b \in Nat /\ HalfCount * e \in Nat
    BY <1>1, <1>6, Half, Times
  <2>2. q <= HalfCount + HalfCount /\ HalfCount <= r
    BY <1>1, <1>6, Half
  <2>. QED  BY <1>1, <1>4, <2>1, <2>2, Half
<1>. QED  BY <1>1, <1>2, <1>5, <1>6

\* What is clamped is not below 0 and not above the maximum.
LEMMA Clamped ==
    ASSUME NEW v \in Int
    PROVE  Clamp(v) = IF v < 0 THEN 0 ELSE IF v > Highest THEN Highest ELSE v
<1>. DEFINE m == IF v < 0 THEN 0 ELSE v
<1>1. Max({v, 0}) = m
  BY DEF Max
<1>. HIDE DEF m
<1>2. m \in Nat /\ Min({m, Highest}) = IF m > Highest THEN Highest ELSE m
  BY HighestAssumption DEF Min, m
<1>. QED  BY <1>1, <1>2, HighestAssumption DEF Clamp, m

\* The index the code computes for a latency, any latency, is one of those up to
\* that of the maximum.
THEOREM IndexInRange ==
    ASSUME NEW v \in Int
    PROVE  /\ Clamp(v) \in 0..Highest
           /\ CountsIndex(v) = Position(Clamp(v))
           /\ CountsIndex(v) \in 0..CountsIndex(Highest)
<1>1. Clamp(v) \in 0..Highest /\ Clamp(Highest) = Highest
  BY Clamped, HighestAssumption
<1>2. CountsIndex(v) = Position(Clamp(v)) /\ CountsIndex(Highest) = Position(Highest)
  BY <1>1, PositionOf, HighestAssumption DEF CountsIndex
<1>3. Position(Clamp(v)) <= Position(Highest) /\ Position(Clamp(v)) \in Nat
  BY <1>1, PositionsInOrder, PositionOf, HighestAssumption
<1>. QED  BY <1>1, <1>2, <1>3

-----------------------------------------------------------------------------
(* The value an index stands for.                                          *)

\* The value an index stands for is the latency it was computed for, less what
\* the sub-bucket does not tell apart.
LEMMA ValueAt ==
    ASSUME NEW v \in Int
    PROVE  LET c == Clamp(v)
               b == BucketIndex(c)
           IN  ValueForIndex(CountsIndex(v)) = 2^b * (c \div 2^b)
<1>. DEFINE c == Clamp(v)
            b == BucketIndex(c)
            p == 2^b
            q == c \div p
            i == CountsIndex(v)
<1>1. c \in Nat /\ i = Position(c)
  BY IndexInRange, HighestAssumption
<1>2. /\ b \in Nat /\ p \in Nat /\ q \in 0..(SubBucketCount - 1)
      /\ b > 0 => q >= HalfCount
  <2>. HIDE DEF c
  <2>1. b \in 0..c /\ c \in Nat
    BY <1>1, BucketOf
  <2>2. b \in Nat
    BY <2>1
  <2>3. p \in Nat
    BY <2>2, PowerExceeds
  <2>4. q \in 0..(SubBucketCount - 1) /\ (b > 0 => q >= HalfCount)
    BY <1>1, SubBucketOf
  <2>. QED  BY <2>2, <2>3, <2>4
<1>3. i = HalfCount * b + q
  BY <1>1 DEF Position
<1>. HIDE DEF i, c, b, p, q
<1>4. CASE b = 0 /\ q < HalfCount
  <2>1. i = q
    BY <1>2, <1>3, <1>4, Half
  <2>2. p = 1
    BY <1>4, PowerStep DEF p
  <2>. QED  BY <1>2, <1>4, <2>1, <2>2, Half DEF ValueForIndex, i, c, b, p, q
<1>5. CASE q >= HalfCount
  <2>1. q - HalfCount \in 0..(HalfCount - 1) /\ b + 1 \in Nat
    BY <1>2, <1>5, Half
  <2>2. HalfCount * b \in Nat /\ HalfCount * (b + 1) = HalfCount * b + HalfCount
    BY <1>2, Half, Times
  <2>3. i = HalfCount * (b + 1) + (q - HalfCount) /\ ~(i < HalfCount)
    BY <1>2, <1>3, <1>5, <2>2, Half
  <2>4. i \div HalfCount = b + 1 /\ i % HalfCount = q - HalfCount
    BY <2>1, <2>3, Half, Divided
  <2>5. (i \div HalfCount) - 1 = b /\ (i % HalfCount) + HalfCount = q
    BY <1>2, <2>4, Half
  <2>6. ValueForIndex(i) = q * p
    BY <2>3, <2>5, Zenon DEF ValueForIndex, p
  <2>7. q * p = p * q
    BY <1>2, Times
  <2>. QED  BY <2>6, <2>7, Zenon DEF i, c, b, p, q
<1>. QED  BY <1>2, <1>4, <1>5, Half

\* The report counts a latency at its place in the layout, whatever the geometry:
\* record and addTo, which share no table, agree about every value.
THEOREM PlacedByLayout ==
    ASSUME NEW v \in Int
    PROVE  ValueForIndex(CountsIndex(v)) = Placed(v)
<1>. DEFINE c == Clamp(v)
            b == BucketIndex(c)
            p == 2^b
            q == c \div p
            x == p * q
<1>1. c \in 0..Highest /\ c \in Nat
  BY IndexInRange, HighestAssumption
<1>2. /\ b \in 0..c /\ b \in Nat /\ p \in Nat \ {0} /\ c < SubBucketCount * p
      /\ q \in 0..(SubBucketCount - 1) /\ (b > 0 => q >= HalfCount)
      /\ x <= c /\ c < p * (q + 1)
  <2>. HIDE DEF c
  <2>1. b \in 0..c /\ c < SubBucketCount * p
    BY <1>1, BucketOf
  <2>2. b \in Nat
    BY <1>1, <2>1
  <2>3. p \in Nat /\ b < p
    BY <2>2, PowerExceeds
  <2>4. /\ q \in 0..(SubBucketCount - 1) /\ (b > 0 => q >= HalfCount)
        /\ x <= c /\ c < p * (q + 1)
    BY <1>1, SubBucketOf
  <2>. HIDE DEF b, p, q, x
  <2>. QED  BY <2>1, <2>2, <2>3, <2>4
<1>3. x \in Nat /\ x = q * p
  BY <1>2, Half, Times
<1>4. b > 0 => /\ b - 1 \in Nat /\ 2^(b - 1) \in Nat \ {0}
               /\ SubBucketCount * 2^(b - 1) <= x
  <2>. SUFFICES ASSUME b > 0
                PROVE  /\ b - 1 \in Nat /\ 2^(b - 1) \in Nat \ {0}
                       /\ SubBucketCount * 2^(b - 1) <= x
    OBVIOUS
  <2>1. b - 1 \in Nat /\ (b - 1) + 1 = b
    BY <1>2
  <2>. HIDE DEF c, b, q
  <2>. DEFINE h == 2^(b - 1)
  <2>2. p = 2 * h /\ h \in Nat \ {0}
    <3>1. 2^((b - 1) + 1) = 2 * 2^(b - 1)
      BY <2>1, PowerStep
    <3>. QED  BY <2>1, <3>1, PowerExceeds
  <2>. HIDE DEF h, p
  <2>3. p * HalfCount <= p * q
    BY <1>2, Half, Times
  <2>4. p * HalfCount = SubBucketCount * h
    BY <2>2, Half
  <2>. QED  BY <2>1, <2>2, <2>3, <2>4 DEF h
<1>5. x \in Layout
  <2>1. CASE b = 0
    <3>1. p = 1
      BY <2>1, PowerStep
    <3>2. x = q
      BY <1>2, <3>1
    <3>. QED  BY <1>2, <3>2 DEF Layout
  <2>2. CASE b > 0
    <3>1. b \in 1..Highest /\ q \in HalfCount..(SubBucketCount - 1)
      BY <1>1, <1>2, <2>2, HighestAssumption, Half
    <3>. HIDE DEF b, q
    <3>. QED  BY <1>3, <3>1 DEF Layout
  <2>. QED  BY <1>2, <2>1, <2>2
<1>. HIDE DEF x, q
<1>6. ASSUME NEW y \in 0..(SubBucketCount - 1), y <= c
      PROVE  y <= x
  <2>1. CASE b = 0
    <3>1. p = 1
      BY <2>1, PowerStep
    <3>. QED  BY <1>1, <1>2, <1>6, <3>1 DEF x
  <2>2. CASE b > 0
    <3>. DEFINE h == 2^(b - 1)
    <3>1. h \in Nat \ {0} /\ SubBucketCount * h <= x
      BY <1>4, <2>2
    <3>. HIDE DEF h
    <3>2. SubBucketCount * 1 <= SubBucketCount * h /\ SubBucketCount * h \in Nat
      BY <3>1, Half, Times
    <3>. QED  BY <1>3, <1>6, <3>1, <3>2, Half
  <2>. QED  BY <1>2, <2>1, <2>2
<1>7. ASSUME NEW e \in 1..Highest, NEW k \in HalfCount..(SubBucketCount - 1), k * 2^e <= c
      PROVE  k * 2^e <= x
  <2>. DEFINE z == 2^e
  <2>1. e \in Nat /\ z \in Nat /\ k \in Nat
    BY <1>7, PowerExceeds, Half
  <2>2. k * z = z * k /\ z * k \in Nat
    BY <2>1, Times
  <2>3. CASE e = b
    <3>1. z = p
      BY <2>3
    <3>. HIDE DEF z, p
    <3>2. ~(q + 1 <= k)
      <4>. SUFFICES ASSUME q + 1 <= k
                    PROVE  FALSE
        OBVIOUS
      <4>1. p * (q + 1) <= p * k /\ p * (q + 1) \in Nat
        BY <1>2, <2>1, Half, Times
      <4>. QED  BY <1>1, <1>2, <1>7, <2>2, <3>1, <4>1 DEF z
    <3>3. k <= q
      BY <1>2, <2>1, <3>2, Half
    <3>4. p * k <= p * q
      BY <1>2, <2>1, <3>3, Half, Times
    <3>. QED  BY <2>2, <3>1, <3>4 DEF x, z
  <2>4. CASE e < b
    <3>. DEFINE h == 2^(b - 1)
    <3>1. b > 0 /\ h \in Nat \ {0} /\ b - 1 \in Nat /\ e <= b - 1 /\ SubBucketCount * h <= x
      BY <1>2, <1>4, <2>1, <2>4
    <3>2. z <= h
      <4>. HIDE DEF b
      <4>. QED  BY <2>1, <3>1, PowersInOrder
    <3>. HIDE DEF h, z
    <3>3. z * k <= z * SubBucketCount
      BY <2>1, Half, Times
    <3>4. /\ SubBucketCount * z <= SubBucketCount * h
          /\ SubBucketCount * z \in Nat /\ SubBucketCount * h \in Nat
      BY <2>1, <3>1, <3>2, Half, Times
    <3>5. z * SubBucketCount = SubBucketCount * z
      BY <2>1, Half, Times
    <3>6. z * k <= SubBucketCount * h
      BY <2>2, <3>3, <3>4, <3>5, <2>1, <3>1, Half
    <3>7. z * k <= x
      BY <1>3, <2>2, <3>1, <3>4, <3>6
    <3>. QED  BY <2>2, <3>7 DEF z
  <2>5. CASE e > b
    <3>1. b + 1 \in Nat /\ b + 1 <= e /\ 2^(b + 1) = 2 * p
      BY <1>2, <2>1, <2>5, PowerStep
    <3>2. 2 * p <= z
      <4>. HIDE DEF b
      <4>1. 2^(b + 1) <= 2^e
        BY <2>1, <3>1, PowersInOrder
      <4>. QED  BY <3>1, <4>1
    <3>. HIDE DEF z, p, b
    <3>3. HalfCount * (2 * p) <= HalfCount * z
      BY <1>2, <2>1, <3>2, Half, Times
    <3>4. z * HalfCount <= z * k /\ z * HalfCount = HalfCount * z
      BY <2>1, Half, Times
    <3>5. HalfCount * (2 * p) = SubBucketCount * p
      BY <1>2, Half
    <3>6. c < k * z
      BY <1>1, <1>2, <2>1, <2>2, <3>3, <3>4, <3>5, Half
    <3>. QED  BY <1>1, <1>7, <2>2, <3>6 DEF z
  <2>. QED  BY <1>2, <2>1, <2>3, <2>4, <2>5
<1>8. \A y \in Layout : y <= c => y <= x
  BY <1>6, <1>7 DEF Layout
<1>9. Placed(v) = x
  <2>. DEFINE S == {y \in Layout : y <= c}
  <2>1. x \in S /\ \A y \in S : x >= y
    BY <1>2, <1>3, <1>5, <1>8 DEF x
  <2>2. \A y \in S : y \in Int
    <3>1. \A e \in 1..Highest : 2^e \in Nat
      BY PowerExceeds
    <3>2. ASSUME NEW e \in 1..Highest, NEW k \in HalfCount..(SubBucketCount - 1)
          PROVE  k * 2^e \in Int
      BY <3>1, Half
    <3>. QED  BY <3>2, Half DEF Layout
  <2>3. Placed(v) = Max(S)
    BY DEF Placed
  <2>. HIDE DEF S
  <2>4. Max(S) = x
    BY <2>1, <2>2 DEF Max
  <2>. QED  BY <2>3, <2>4
<1>. QED  BY <1>9, ValueAt DEF x, q

-----------------------------------------------------------------------------
(* What a digit is worth.                                                  *)

\* f is the table of what the digits up to place k are worth.
IsPlace(k, f) == f = [i \in 0..k |-> IF i = 0 THEN 1 ELSE Base * f[i - 1]]

\* Place reads its table at the end.
LEMMA PlaceIsEntry == \A k : Place(k) = (CHOOSE f : IsPlace(k, f))[k]
BY DEF Place, IsPlace

\* There is a table of every length.
LEMMA PlaceExists ==
    ASSUME NEW k \in Nat
    PROVE  \E f : IsPlace(k, f)
<1>. DEFINE Bad == {n \in Nat : ~ \E f : IsPlace(n, f)}
<1>. SUFFICES ASSUME Bad # {}
              PROVE  FALSE
  OBVIOUS
<1>1. PICK n \in Bad : \A m \in Bad : n <= m
  <2>1. Bad \in SUBSET Nat
    OBVIOUS
  <2>. HIDE DEF Bad
  <2>. QED  BY <2>1, Least
<1>2. CASE n = 0
  <2>1. IsPlace(0, [i \in 0..0 |-> 1])
    BY DEF IsPlace
  <2>. QED  BY <1>1, <1>2, <2>1
<1>3. CASE n # 0
  <2>1. n - 1 \in Nat /\ ~(n <= n - 1)
    BY <1>1, <1>3
  <2>2. n - 1 \notin Bad
    BY <1>1, <2>1
  <2>3. PICK f : IsPlace(n - 1, f)
    BY <2>1, <2>2
  <2>. DEFINE g == [i \in 0..n |-> IF i = n THEN Base * f[n - 1] ELSE f[i]]
  <2>4. \A i \in 0..(n - 1) : f[i] = IF i = 0 THEN 1 ELSE Base * f[i - 1]
    BY <2>3 DEF IsPlace
  <2>5. ASSUME NEW i \in 0..n
        PROVE  g[i] = IF i = 0 THEN 1 ELSE Base * g[i - 1]
    <3>1. CASE i = n
      BY <1>1, <1>3, <3>1
    <3>2. CASE i # n
      <4>1. i \in 0..(n - 1) /\ (i # 0 => i - 1 \in 0..n /\ i - 1 # n)
        BY <1>1, <3>2
      <4>. QED  BY <2>4, <3>2, <4>1
    <3>. QED  BY <3>1, <3>2
  <2>6. IsPlace(n, g)
    <3>1. g = [i \in 0..n |-> g[i]]
      OBVIOUS
    <3>. HIDE DEF g
    <3>. QED  BY <2>5, <3>1 DEF IsPlace
  <2>. QED  BY <1>1, <2>6
<1>. QED  BY <1>2, <1>3

\* The last digit is worth one, and each digit Base times the one behind it.
LEMMA PlaceStep ==
    /\ Place(0) = 1
    /\ \A k \in Nat : Place(k + 1) = Base * Place(k)
<1>1. Place(0) = 1
  <2>1. IsPlace(0, CHOOSE f : IsPlace(0, f))
    BY PlaceExists
  <2>. QED  BY <2>1, PlaceIsEntry DEF IsPlace
<1>2. ASSUME NEW k \in Nat
      PROVE  Place(k + 1) = Base * Place(k)
  <2>. DEFINE f == CHOOSE f : IsPlace(k, f)
              g == CHOOSE g : IsPlace(k + 1, g)
  <2>1. /\ IsPlace(k, f) /\ IsPlace(k + 1, g)
        /\ Place(k) = f[k] /\ Place(k + 1) = g[k + 1]
    BY PlaceExists, PlaceIsEntry
  <2>. HIDE DEF f, g
  <2>2. \A i \in 0..k : f[i] = IF i = 0 THEN 1 ELSE Base * f[i - 1]
    BY <2>1 DEF IsPlace
  <2>3. \A i \in 0..(k + 1) : g[i] = IF i = 0 THEN 1 ELSE Base * g[i - 1]
    BY <2>1 DEF IsPlace
  <2>4. \A i \in 0..k : f[i] = g[i]
    <3>. DEFINE Bad == {i \in 0..k : f[i] # g[i]}
    <3>. SUFFICES ASSUME Bad # {}
                  PROVE  FALSE
      OBVIOUS
    <3>1. PICK i \in Bad : \A j \in Bad : i <= j
      <4>1. Bad \in SUBSET Nat
        OBVIOUS
      <4>. HIDE DEF Bad
      <4>. QED  BY <4>1, Least
    <3>2. i \in 0..k /\ f[i] # g[i] /\ i # 0
      BY <2>2, <2>3, <3>1
    <3>3. i - 1 \in 0..k /\ ~(i <= i - 1)
      BY <3>2
    <3>4. f[i - 1] = g[i - 1]
      BY <3>1, <3>3
    <3>. QED  BY <2>2, <2>3, <3>2, <3>4
  <2>5. g[k + 1] = Base * g[k]
    <3>1. k + 1 \in 0..(k + 1) /\ k + 1 # 0 /\ (k + 1) - 1 = k
      OBVIOUS
    <3>. QED  BY <2>3, <3>1
  <2>. QED  BY <2>1, <2>4, <2>5
<1>. QED  BY <1>1, <1>2

\* Places are positive, greater than their numbers and in order.
LEMMA PlaceExceeds ==
    /\ \A k \in Nat : Place(k) \in Nat /\ k < Place(k)
    /\ \A j, k \in Nat : j <= k => Place(j) <= Place(k)
<1>1. \A k \in Nat : Place(k) \in Nat /\ k < Place(k)
  <2>. DEFINE Bad == {k \in Nat : ~(Place(k) \in Nat /\ k < Place(k))}
  <2>. SUFFICES ASSUME Bad # {}
                PROVE  FALSE
    OBVIOUS
  <2>1. PICK k \in Bad : \A j \in Bad : k <= j
    <3>1. Bad \in SUBSET Nat
      OBVIOUS
    <3>. HIDE DEF Bad
    <3>. QED  BY <3>1, Least
  <2>2. k # 0
    BY <2>1, PlaceStep
  <2>3. k - 1 \in Nat /\ ~(k <= k - 1) /\ (k - 1) + 1 = k
    BY <2>1, <2>2
  <2>. DEFINE p == Place(k - 1)
  <2>4. p \in Nat /\ k - 1 < p
    BY <2>1, <2>3
  <2>5. Place(k) = Base * p
    <3>1. Place((k - 1) + 1) = Base * p
      BY <2>3, PlaceStep
    <3>. QED  BY <2>3, <3>1
  <2>. HIDE DEF p
  <2>6. p * 2 <= p * Base /\ p * Base = Base * p /\ p * Base \in Nat
    BY <2>4, BaseAssumption, Times
  <2>. QED  BY <2>1, <2>3, <2>4, <2>5, <2>6
<1>2. ASSUME NEW j \in Nat, NEW k \in Nat, j <= k
      PROVE  Place(j) <= Place(k)
  <2>. DEFINE Bad == {n \in Nat : j <= n /\ ~(Place(j) <= Place(n))}
  <2>. SUFFICES ASSUME Bad # {}
                PROVE  FALSE
    BY <1>2
  <2>1. PICK n \in Bad : \A m \in Bad : n <= m
    <3>1. Bad \in SUBSET Nat
      OBVIOUS
    <3>. HIDE DEF Bad
    <3>. QED  BY <3>1, Least
  <2>2. n # j
    BY <1>1, <2>1
  <2>3. n - 1 \in Nat /\ j <= n - 1 /\ ~(n <= n - 1) /\ (n - 1) + 1 = n
    BY <2>1, <2>2
  <2>. DEFINE p == Place(n - 1)
  <2>4. p \in Nat /\ Place(j) <= p /\ Place(j) \in Nat
    BY <1>1, <2>1, <2>3
  <2>5. Place(n) = Base * p
    <3>1. Place((n - 1) + 1) = Base * p
      BY <2>3, PlaceStep
    <3>. QED  BY <2>3, <3>1
  <2>. HIDE DEF p
  <2>6. p * 1 <= p * Base /\ p * Base = Base * p /\ p * Base \in Nat
    BY <2>4, BaseAssumption, Times
  <2>. QED  BY <2>1, <2>4, <2>5, <2>6
<1>. QED  BY <1>1, <1>2
-----------------------------------------------------------------------------
(* The loop of the parser.                                                 *)

Digits == 0..(Base - 1)

\* What the parser has after one more digit, in its word.
NextValue(value, digit) == (value * Base + digit) % 2^Width

\* g is the table of what the fold makes of the first n digits and their parts.
IsRead(digits, n, g) ==
    g = [s \in SUBSET (1..n) |->
            IF s = {} THEN 0 ELSE NextValue(g[s \ {Max(s)}], digits[Max(s)])]

\* The loop reads its table at the end.
LEMMA ReadIsEntry ==
    ASSUME NEW digits, DOMAIN digits = 1..Len(digits)
    PROVE  FoldLeft(LAMBDA sum, digit : (sum * Base + digit) % 2^Width, 0, digits)
             = (CHOOSE g : IsRead(digits, Len(digits), g))[1..Len(digits)]
BY DEF FoldLeft, MapThenFoldSet, IsRead, NextValue

\* The greatest of the first n numbers, and of a part of them.
LEMMA Greatest ==
    ASSUME NEW n \in Nat, NEW s \in SUBSET (1..n), s # {}
    PROVE  Max(s) \in s /\ \A k \in s : k <= Max(s)
<1>. DEFINE T == {n - k : k \in s}
<1>1. T \in SUBSET Nat /\ T # {}
  <2>1. \A k \in s : n - k \in Nat
    OBVIOUS
  <2>. QED  BY <2>1
<1>2. PICK m \in T : \A k \in T : m <= k
  <2>. HIDE DEF T
  <2>. QED  BY <1>1, Least
<1>3. PICK x \in s : m = n - x
  BY <1>2
<1>4. \A k \in s : x >= k
  BY <1>2, <1>3
<1>5. \E y \in s : \A k \in s : y >= k
  BY <1>4
<1>6. Max(s) \in s /\ \A k \in s : Max(s) >= k
  BY <1>5 DEF Max
<1>. QED  BY <1>6

\* There is a table for every number of digits.
LEMMA ReadExists ==
    ASSUME NEW digits, NEW n \in Nat
    PROVE  \E g : IsRead(digits, n, g)
<1>. DEFINE Bad == {k \in Nat : ~ \E g : IsRead(digits, k, g)}
<1>. SUFFICES ASSUME Bad # {}
              PROVE  FALSE
  OBVIOUS
<1>1. PICK k \in Bad : \A j \in Bad : k <= j
  <2>1. Bad \in SUBSET Nat
    OBVIOUS
  <2>. HIDE DEF Bad
  <2>. QED  BY <2>1, Least
<1>2. CASE k = 0
  <2>1. IsRead(digits, 0, [s \in SUBSET (1..0) |-> 0])
    <3>1. \A s \in SUBSET (1..0) : s = {}
      OBVIOUS
    <3>. QED  BY <3>1 DEF IsRead
  <2>. QED  BY <1>1, <1>2, <2>1
<1>3. CASE k # 0
  <2>1. k - 1 \in Nat /\ ~(k <= k - 1) /\ k \in Nat
    BY <1>1, <1>3
  <2>2. PICK f : IsRead(digits, k - 1, f)
    BY <1>1, <2>1
  <2>. DEFINE rest(s) == s \ {k}
              g == [s \in SUBSET (1..k) |-> IF k \in s THEN NextValue(f[rest(s)], digits[k])
                                                       ELSE f[s]]
  <2>3. ASSUME NEW s \in SUBSET (1..k)
        PROVE  g[s] = IF s = {} THEN 0 ELSE NextValue(g[s \ {Max(s)}], digits[Max(s)])
    <3>1. CASE k \in s
      <4>1. Max(s) = k
        <5>1. Max(s) \in s /\ k <= Max(s)
          BY <2>1, <3>1, Greatest
        <5>2. \A x \in s : x \in Nat /\ x <= k
          BY <2>1
        <5>3. Max(s) \in Nat /\ Max(s) <= k
          BY <5>1, <5>2, Zenon
        <5>. QED  BY <2>1, <5>1, <5>3
      <4>2. g[rest(s)] = f[rest(s)]
        OBVIOUS
      <4>. QED  BY <3>1, <4>1, <4>2
    <3>2. CASE k \notin s
      <4>1. s \in SUBSET (1..(k - 1)) /\ g[s] = f[s]
        BY <2>1, <3>2
      <4>2. f[s] = IF s = {} THEN 0 ELSE NextValue(f[s \ {Max(s)}], digits[Max(s)])
        BY <2>2, <4>1 DEF IsRead
      <4>3. g[s \ {Max(s)}] = f[s \ {Max(s)}]
        BY <3>2
      <4>. QED  BY <4>1, <4>2, <4>3
    <3>. QED  BY <3>1, <3>2
  <2>4. g = [s \in SUBSET (1..k) |-> g[s]]
    OBVIOUS
  <2>. HIDE DEF g
  <2>5. IsRead(digits, k, g)
    BY <2>3, <2>4 DEF IsRead
  <2>. QED  BY <1>1, <2>5
<1>. QED  BY <1>2, <1>3

\* What the parser has after the first k digits.
After(digits, k) == (CHOOSE g : IsRead(digits, Len(digits), g))[1..k]

\* It begins with nothing, takes one digit after another, and returns what it has
\* after the last one.
LEMMA ReadStep ==
    ASSUME NEW digits, Len(digits) \in Nat, DOMAIN digits = 1..Len(digits)
    PROVE  /\ After(digits, 0) = 0
           /\ \A k \in 1..Len(digits) :
                 After(digits, k) = NextValue(After(digits, k - 1), digits[k])
           /\ FoldLeft(LAMBDA sum, digit : (sum * Base + digit) % 2^Width, 0, digits)
                = After(digits, Len(digits))
<1>. DEFINE n == Len(digits)
            g == CHOOSE g : IsRead(digits, n, g)
<1>1. IsRead(digits, n, g)
  BY ReadExists
<1>2. \A k : After(digits, k) = g[1..k]
  BY DEF After
<1>. HIDE DEF g
<1>3. \A s \in SUBSET (1..n) :
         g[s] = IF s = {} THEN 0 ELSE NextValue(g[s \ {Max(s)}], digits[Max(s)])
  BY <1>1 DEF IsRead
<1>4. After(digits, 0) = 0
  <2>1. 1..0 = {} /\ {} \in SUBSET (1..n)
    OBVIOUS
  <2>2. g[{}] = 0
    BY <1>3, <2>1
  <2>. QED  BY <1>2, <2>1, <2>2
<1>5. ASSUME NEW k \in 1..n
      PROVE  After(digits, k) = NextValue(After(digits, k - 1), digits[k])
  <2>. HIDE DEF n
  <2>1. n \in Nat /\ k \in Nat /\ 1 <= k /\ k <= n
    BY DEF n
  <2>2. 1..k \in SUBSET (1..n) /\ 1..k # {} /\ k \in 1..k
    <3>1. k \in 1..k
      BY <2>1
    <3>2. \A i \in 1..k : i \in 1..n
      BY <2>1
    <3>. QED  BY <3>1, <3>2
  <2>3. Max(1..k) = k
    <3>1. Max(1..k) \in 1..k /\ k <= Max(1..k)
      BY <2>1, <2>2, Greatest
    <3>. QED  BY <2>1, <3>1
  <2>4. g[1..k] = NextValue(g[(1..k) \ {k}], digits[k])
    BY <1>3, <2>2, <2>3
  <2>5. (1..k) \ {k} = 1..(k - 1)
    BY <2>1
  <2>. QED  BY <1>2, <2>4, <2>5
<1>6. FoldLeft(LAMBDA sum, digit : (sum * Base + digit) % 2^Width, 0, digits)
        = After(digits, n)
  BY ReadIsEntry DEF After
<1>. QED  BY <1>4, <1>5, <1>6

-----------------------------------------------------------------------------
(* What the parser reads.                                                  *)

\* The word holds a number and its sign.
LEMMA Word == /\ 2^Width \in Nat \ {0} /\ MaxInt \in Nat /\ MaxInt < 2^Width
<1>1. Width - 1 \in Nat /\ (Width - 1) + 1 = Width /\ Width \in Nat
  BY WidthAssumption
<1>. DEFINE half == 2^(Width - 1)
<1>2. half \in Nat /\ Width - 1 < half
  BY <1>1, PowerExceeds
<1>3. 2^Width = 2 * half
  <2>1. 2^((Width - 1) + 1) = 2 * half
    BY <1>1, PowerStep
  <2>. QED  BY <1>1, <2>1
<1>4. MaxInt = half - 1
  BY DEF MaxInt
<1>. HIDE DEF half
<1>. QED  BY <1>1, <1>2, <1>3, <1>4

\* What a number less than the word leaves over.
LEMMA Fits ==
    ASSUME NEW m \in Nat \ {0}, NEW x \in 0..(m - 1)
    PROVE  x % m = x
OBVIOUS

\* A digit of a numeral, with the ones before it: still within the next place.
LEMMA WithinPlace ==
    ASSUME NEW k \in Nat, NEW a \in Nat, a < Place(k), NEW d \in Digits
    PROVE  /\ a * Base + d \in Nat /\ a * Base + d < Place(k + 1)
           /\ k + 1 <= MaxDigits => NextValue(a, d) = a * Base + d
<1>. DEFINE p == Place(k)
<1>1. p \in Nat /\ Place(k + 1) = Base * p
  BY PlaceStep, PlaceExceeds
<1>. HIDE DEF p
<1>2. Base * (a + 1) <= Base * p /\ Base * (a + 1) = Base * a + Base /\ Base * a = a * Base
  BY <1>1, BaseAssumption, Times DEF p
<1>3. a * Base \in Nat /\ d \in Nat /\ d < Base
  BY <1>2, BaseAssumption, Times DEF Digits
<1>4. a * Base + d \in Nat /\ a * Base + d < Place(k + 1)
  <2>1. Base * p \in Nat
    BY <1>1, BaseAssumption, Times
  <2>. QED  BY <1>1, <1>2, <1>3, <2>1, BaseAssumption
<1>5. ASSUME k + 1 <= MaxDigits
      PROVE  NextValue(a, d) = a * Base + d
  <2>1. k + 1 \in Nat /\ MaxDigits \in Nat
    BY WidthAssumption
  <2>2. Place(k + 1) <= Place(MaxDigits) /\ Place(k + 1) \in Nat /\ Place(MaxDigits) \in Nat
    BY <1>5, <2>1, PlaceExceeds
  <2>. DEFINE x == a * Base + d
              m == 2^Width
  <2>3. m \in Nat \ {0} /\ Place(MaxDigits) <= m /\ NextValue(a, d) = x % m
    BY Word, DigitsAssumption DEF NextValue
  <2>4. x \in Nat /\ x < Place(k + 1)
    BY <1>4
  <2>. HIDE DEF x, m
  <2>5. x \in 0..(m - 1)
    BY <2>2, <2>3, <2>4
  <2>. QED  BY <2>3, <2>5, Fits DEF x
<1>. QED  BY <1>4, <1>5

\* As long as the word holds them, the parser has what the digits so far state,
\* without the digits to come.
LEMMA ReadsPrefix ==
    ASSUME NEW digits \in Seq(Digits), Len(digits) <= MaxDigits, NEW k \in 0..Len(digits)
    PROVE  LET n == Len(digits)
               worth == [i \in DOMAIN digits |-> digits[i] * Place(n - i)]
           IN  /\ After(digits, k) \in Nat /\ After(digits, k) < Place(k)
               /\ SumFunctionOnSet(worth, 1..k) = After(digits, k) * Place(n - k)
<1>. DEFINE n == Len(digits)
            worth == [i \in DOMAIN digits |-> digits[i] * Place(n - i)]
            Read(j) == /\ After(digits, j) \in Nat /\ After(digits, j) < Place(j)
                       /\ SumFunctionOnSet(worth, 1..j) = After(digits, j) * Place(n - j)
            Bad == {j \in 0..n : ~Read(j)}
<1>. SUFFICES ASSUME Bad # {}
              PROVE  FALSE
  OBVIOUS
<1>1. /\ n \in Nat /\ DOMAIN digits = 1..n /\ n <= MaxDigits /\ MaxDigits \in Nat
      /\ \A i \in 1..n : digits[i] \in Digits /\ digits[i] \in Nat
  BY WidthAssumption, BaseAssumption DEF Digits
<1>2. \A i \in 1..n : worth[i] = digits[i] * Place(n - i) /\ worth[i] \in Nat
  <2>. SUFFICES ASSUME NEW i \in 1..n
                PROVE  worth[i] = digits[i] * Place(n - i) /\ worth[i] \in Nat
    OBVIOUS
  <2>1. worth[i] = digits[i] * Place(n - i)
    BY <1>1
  <2>2. n - i \in Nat
    BY <1>1
  <2>3. Place(n - i) \in Nat
    BY <2>2, PlaceExceeds
  <2>. HIDE DEF worth, n
  <2>. QED  BY <1>1, <2>1, <2>3, Times
<1>3. PICK j \in Bad : \A i \in Bad : j <= i
  <2>1. Bad \in SUBSET Nat
    BY <1>1
  <2>. HIDE DEF Bad
  <2>. QED  BY <2>1, Least
<1>4. j \in 0..n /\ ~Read(j)
  BY <1>3
<1>5. After(digits, 0) = 0 /\ \A i \in 1..n : After(digits, i) = NextValue(After(digits, i - 1), digits[i])
  BY <1>1, ReadStep
<1>6. j # 0
  <2>. SUFFICES Read(0)
    BY <1>4
  <2>1. 1..0 = {}
    OBVIOUS
  <2>2. SumFunctionOnSet(worth, 1..0) = 0
    BY <2>1, SumEmpty
  <2>3. Place(n - 0) \in Nat /\ Place(0) = 1
    BY <1>1, PlaceExceeds, PlaceStep
  <2>. HIDE DEF worth, n
  <2>. QED  BY <1>5, <2>2, <2>3
<1>7. j \in 1..n /\ j - 1 \in 0..n /\ j - 1 \in Nat /\ ~(j <= j - 1) /\ (j - 1) + 1 = j
  BY <1>1, <1>4, <1>6
<1>8. Read(j - 1)
  BY <1>3, <1>7
<1>. DEFINE a == After(digits, j - 1)
            d == digits[j]
<1>9. a \in Nat /\ a < Place(j - 1) /\ d \in Digits /\ d \in Nat
  BY <1>1, <1>7, <1>8
<1>10. /\ After(digits, j) = a * Base + d
       /\ After(digits, j) \in Nat /\ After(digits, j) < Place(j)
  <2>1. After(digits, j) = NextValue(a, d)
    BY <1>5, <1>7
  <2>2. (j - 1) + 1 <= MaxDigits
    BY <1>1, <1>7
  <2>. HIDE DEF a, d, n
  <2>3. /\ a * Base + d \in Nat /\ a * Base + d < Place((j - 1) + 1)
        /\ NextValue(a, d) = a * Base + d
    BY <1>7, <1>9, <2>2, WithinPlace
  <2>. QED  BY <1>7, <2>1, <2>3
<1>11. SumFunctionOnSet(worth, 1..j) = d * Place(n - j) + a * Place(n - (j - 1))
  <2>1. IsFiniteSet(1..j) /\ j \in 1..j /\ (1..j) \ {j} = 1..(j - 1)
    <3>. HIDE DEF n
    <3>1. j \in Nat /\ j >= 1
      BY <1>7
    <3>2. IsFiniteSet(1..j)
      BY <3>1, FS_Interval
    <3>3. (1..j) \ {j} = 1..(j - 1)
      BY <3>1
    <3>. QED  BY <3>1, <3>2, <3>3
  <2>2. \A i \in 1..j : worth[i] \in Nat
    BY <1>1, <1>2, <1>7
  <2>3. worth[j] = d * Place(n - j)
    BY <1>2, <1>7
  <2>4. SumFunctionOnSet(worth, 1..(j - 1)) = a * Place(n - (j - 1))
    BY <1>8
  <2>. HIDE DEF worth
  <2>5. SumFunctionOnSet(worth, 1..j) = worth[j] + SumFunctionOnSet(worth, (1..j) \ {j})
    BY <2>1, <2>2, SumRemove
  <2>. QED  BY <2>1, <2>3, <2>4, <2>5
<1>12. Place(n - (j - 1)) = Base * Place(n - j) /\ Place(n - j) \in Nat
  <2>1. n - j \in Nat /\ n - (j - 1) = (n - j) + 1
    BY <1>1, <1>7
  <2>2. Place((n - j) + 1) = Base * Place(n - j) /\ Place(n - j) \in Nat
    BY <2>1, PlaceStep, PlaceExceeds
  <2>. QED  BY <2>1, <2>2
<1>. DEFINE p == Place(n - j)
<1>13. d * p + a * (Base * p) = (a * Base + d) * p
  <2>1. p \in Nat
    BY <1>12
  <2>. HIDE DEF p, a, d
  <2>. QED  BY <1>9, <2>1, BaseAssumption
<1>14. SumFunctionOnSet(worth, 1..j) = After(digits, j) * p
  BY <1>10, <1>11, <1>12, <1>13
<1>. QED  BY <1>4, <1>10, <1>14

\* The parser reads what the digits state, or rejects what is not a timestamp.
LEMMA ReadsStated ==
    ASSUME NEW p \in [prefix: BOOLEAN, digits: Seq(Digits), end: Ends]
    PROVE  /\ HasTimestamp(p) => BenchmarkTimestamp(p) = Stated(p) /\ Stated(p) \in Nat
           /\ HasTimestamp(p) <=> BenchmarkTimestamp(p) # Unread
           /\ BenchmarkTimestamp(p) \in Int
<1>. DEFINE digits == p.digits
            n == Len(digits)
            value == FoldLeft(LAMBDA sum, digit : (sum * Base + digit) % 2^Width, 0, digits)
<1>1. digits \in Seq(Digits) /\ n \in Nat /\ DOMAIN digits = 1..n
  OBVIOUS
<1>2. BenchmarkTimestamp(p) = IF /\ p.prefix /\ n \in 1..MaxDigits
                                 /\ p.end \in {"comma", "brace"} /\ value <= MaxInt
                              THEN value ELSE Unread
  BY DEF BenchmarkTimestamp, ReadTimestamp
<1>3. n \in 1..MaxDigits => value = Stated(p) /\ value \in Nat
  <2>. SUFFICES ASSUME n \in 1..MaxDigits
                PROVE  value = Stated(p) /\ value \in Nat
    OBVIOUS
  <2>. DEFINE worth == [i \in DOMAIN digits |-> digits[i] * Place(n - i)]
  <2>1. value = After(digits, n)
    BY <1>1, ReadStep
  <2>2. After(digits, n) \in Nat /\ SumFunctionOnSet(worth, 1..n) = After(digits, n) * Place(n - n)
    <3>1. n \in 0..n /\ n <= MaxDigits
      BY <1>1, WidthAssumption
    <3>. QED  BY <1>1, <3>1, ReadsPrefix
  <2>3. Place(n - n) = 1
    <3>1. n - n = 0
      BY <1>1
    <3>. QED  BY <3>1, PlaceStep
  <2>4. Stated(p) = SumFunctionOnSet(worth, 1..n)
    <3>1. DOMAIN worth = 1..n
      BY <1>1
    <3>. QED  BY <3>1 DEF Stated, SumFunction
  <2>. HIDE DEF value, worth
  <2>. QED  BY <2>1, <2>2, <2>3, <2>4
<1>4. (n \in 1..MaxDigits) <=> digits # <<>> /\ n <= MaxDigits
  <2>1. n = 0 <=> digits = <<>>
    OBVIOUS
  <2>. HIDE DEF digits
  <2>. QED  BY <1>1, <2>1, WidthAssumption
<1>5. HasTimestamp(p) <=> /\ p.prefix /\ n \in 1..MaxDigits
                          /\ p.end \in {"comma", "brace"} /\ Stated(p) <= MaxInt
  BY <1>4 DEF HasTimestamp
<1>. HIDE DEF value, n, digits
<1>. QED  BY <1>2, <1>3, <1>5 DEF Unread

-----------------------------------------------------------------------------
(* What the generator writes.                                              *)

\* Quotients by one place are those by the place before it, taken one digit on.
LEMMA NextQuotient ==
    ASSUME NEW x \in Nat, NEW p \in Nat \ {0}, NEW b \in Nat \ {0}
    PROVE  (x \div (b * p)) * b + ((x \div p) % b) = x \div p
<1>. DEFINE q == x \div p
            r == x % p
            t == q \div b
            u == q % b
<1>1. q \in Nat /\ r \in 0..(p - 1) /\ x = p * q + r
  BY Division
<1>. HIDE DEF q, r
<1>2. t \in Nat /\ u \in 0..(b - 1) /\ q = b * t + u
  BY <1>1, Division
<1>. HIDE DEF t, u
<1>3. x = (b * p) * t + (p * u + r)
  BY <1>1, <1>2
<1>4. p * u + r \in 0..(b * p - 1) /\ b * p \in Nat \ {0}
  <2>1. p * (u + 1) <= p * b /\ p * (u + 1) = p * u + p /\ p * u \in Nat /\ p * b \in Nat
    BY <1>2, Times
  <2>2. p * b = b * p
    OBVIOUS
  <2>. QED  BY <1>1, <2>1, <2>2
<1>5. x \div (b * p) = t
  <2>. DEFINE d == b * p
              s == p * u + r
  <2>1. d \in Nat \ {0} /\ s \in 0..(d - 1) /\ x = d * t + s
    BY <1>3, <1>4
  <2>. HIDE DEF d, s
  <2>2. x \div d = t
    BY <1>2, <2>1, Divided
  <2>. QED  BY <2>2 DEF d
<1>6. t * b + u = q
  BY <1>1, <1>2
<1>. QED  BY <1>5, <1>6 DEF q, u

\* How many digits the numeral of a number has.
LengthOf(x) == CHOOSE k \in 1..x + 1 : x < Place(k) /\ (k > 1 => x >= Place(k - 1))

\* The numeral of a number that fits has at most MaxDigits digits, and as many as
\* it needs.
LEMMA NumeralLength ==
    ASSUME NEW x \in 0..MaxInt
    PROVE  LengthOf(x) \in 1..MaxDigits /\ x < Place(LengthOf(x))
<1>. DEFINE Is(k) == x < Place(k) /\ (k > 1 => x >= Place(k - 1))
            T == {k \in 1..(x + 1) : x < Place(k)}
            n == LengthOf(x)
<1>1. x \in Nat /\ x <= MaxInt /\ MaxInt \in Nat
  BY Word
<1>2. x + 1 \in T
  <2>1. Place(x + 1) \in Nat /\ x + 1 < Place(x + 1)
    BY <1>1, PlaceExceeds
  <2>. QED  BY <1>1, <2>1
<1>3. PICK m \in T : \A k \in T : m <= k
  <2>1. T \in SUBSET Nat /\ T # {}
    BY <1>1, <1>2
  <2>. HIDE DEF T
  <2>. QED  BY <2>1, Least
<1>4. Is(m)
  <2>. SUFFICES ASSUME m > 1
                PROVE  x >= Place(m - 1)
    BY <1>3
  <2>1. m - 1 \in 1..(x + 1) /\ ~(m <= m - 1) /\ m - 1 \in Nat
    BY <1>1, <1>3
  <2>2. ~(x < Place(m - 1))
    BY <1>3, <2>1
  <2>3. Place(m - 1) \in Nat
    BY <2>1, PlaceExceeds
  <2>. QED  BY <1>1, <2>2, <2>3
<1>5. n \in 1..(x + 1) /\ Is(n)
  <2>1. m \in 1..x + 1
    BY <1>3
  <2>2. n = CHOOSE k \in 1..x + 1 : Is(k)
    BY DEF LengthOf
  <2>. HIDE DEF Is, n
  <2>. QED  BY <1>4, <2>1, <2>2
<1>. HIDE DEF n
<1>6. ~(n > MaxDigits)
  <2>. SUFFICES ASSUME n > MaxDigits
                PROVE  FALSE
    OBVIOUS
  <2>1. MaxDigits \in Nat /\ MaxDigits >= 1 /\ n - 1 \in Nat /\ MaxDigits <= n - 1 /\ n > 1
    BY <1>1, <1>5, WidthAssumption
  <2>2. Place(MaxDigits) <= Place(n - 1) /\ Place(MaxDigits) \in Nat /\ Place(n - 1) \in Nat
    BY <2>1, PlaceExceeds
  <2>3. x >= Place(n - 1)
    BY <1>5, <2>1
  <2>. QED  BY <1>1, <2>2, <2>3, DigitsAssumption
<1>7. n \in 1..MaxDigits
  BY <1>1, <1>5, <1>6, WidthAssumption
<1>. QED  BY <1>5, <1>7 DEF n

\* What pub writes is read back.
THEOREM RoundTrip ==
    ASSUME NEW time \in 0..MaxInt
    PROVE  BenchmarkTimestamp(BenchmarkPayloadAt(time)) = time
<1>. DEFINE n == LengthOf(time)
            digits == [i \in 1..n |-> (time \div Place(n - i)) % Base]
<1>1. n \in 1..MaxDigits /\ time < Place(n) /\ n \in Nat /\ MaxDigits \in Nat
  BY NumeralLength, WidthAssumption
<1>2. Numeral(time) = digits
  BY DEF Numeral, LengthOf
<1>3. time \in Nat /\ time <= MaxInt /\ MaxInt \in Nat /\ MaxInt < 2^Width /\ 2^Width \in Nat \ {0}
  BY Word
<1>. HIDE DEF n
<1>4. \A i \in 0..n : /\ n - i \in Nat /\ Place(n - i) \in Nat \ {0}
                      /\ time \div Place(n - i) \in Nat /\ time \div Place(n - i) <= time
  <2>. SUFFICES ASSUME NEW i \in 0..n
                PROVE  /\ n - i \in Nat /\ Place(n - i) \in Nat \ {0}
                       /\ time \div Place(n - i) \in Nat /\ time \div Place(n - i) <= time
    OBVIOUS
  <2>. DEFINE p == Place(n - i)
              q == time \div p
  <2>1. n - i \in Nat
    BY <1>1
  <2>2. p \in Nat \ {0}
    BY <2>1, PlaceExceeds
  <2>. HIDE DEF p
  <2>3. q \in Nat /\ time % p \in 0..(p - 1) /\ time = p * q + (time % p)
    BY <1>3, <2>2, Division
  <2>. HIDE DEF q
  <2>4. PICK r \in Nat : time = p * q + r
    BY <2>2, <2>3
  <2>5. q * 1 <= q * p /\ q * p = p * q /\ q * p \in Nat
    BY <2>2, <2>3, Times
  <2>6. q <= time
    BY <1>3, <2>3, <2>4, <2>5
  <2>. QED  BY <2>1, <2>2, <2>3, <2>6 DEF p, q
<1>5. digits \in Seq(Digits) /\ Len(digits) = n /\ DOMAIN digits = 1..n
  <2>1. ASSUME NEW i \in 1..n
        PROVE  (time \div Place(n - i)) % Base \in Digits
    <3>. DEFINE q == time \div Place(n - i)
    <3>1. q \in Nat
      BY <1>1, <1>4
    <3>. HIDE DEF q
    <3>2. q % Base \in 0..(Base - 1)
      BY <3>1, BaseAssumption, Division
    <3>. QED  BY <3>2 DEF q, Digits
  <2>. QED  BY <1>1, <2>1
<1>6. ASSUME NEW k \in 0..n
      PROVE  After(digits, k) = time \div Place(n - k)
  <2>. DEFINE Bad == {j \in 0..n : After(digits, j) # time \div Place(n - j)}
  <2>. SUFFICES ASSUME Bad # {}
                PROVE  FALSE
    OBVIOUS
  <2>1. /\ After(digits, 0) = 0
        /\ \A j \in 1..n : After(digits, j) = NextValue(After(digits, j - 1), digits[j])
    BY <1>1, <1>5, ReadStep
  <2>. HIDE DEF digits
  <2>2. PICK j \in Bad : \A i \in Bad : j <= i
    <3>1. Bad \in SUBSET Nat
      BY <1>1
    <3>. HIDE DEF Bad
    <3>. QED  BY <3>1, Least
  <2>3. j # 0
    <3>. SUFFICES After(digits, 0) = time \div Place(n - 0)
      BY <2>2
    <3>. DEFINE p == Place(n - 0)
    <3>1. p \in Nat \ {0} /\ time < p
      <4>1. n - 0 = n
        BY <1>1
      <4>2. Place(n) \in Nat
        BY <1>1, PlaceExceeds
      <4>. QED  BY <1>1, <1>3, <4>1, <4>2
    <3>. HIDE DEF p
    <3>2. time = p * 0 + time /\ time \in 0..(p - 1)
      BY <1>3, <3>1
    <3>3. time \div p = 0
      BY <3>1, <3>2, Divided
    <3>. QED  BY <2>1, <3>3 DEF p
  <2>4. j \in 1..n /\ j - 1 \in 0..n /\ ~(j <= j - 1) /\ n - (j - 1) = (n - j) + 1
    BY <1>1, <2>2, <2>3
  <2>. DEFINE p == Place(n - j)
              q == time \div p
  <2>5. After(digits, j - 1) = time \div (Base * p)
    <3>1. After(digits, j - 1) = time \div Place(n - (j - 1))
      BY <2>2, <2>4
    <3>2. n - j \in Nat
      BY <1>4, <2>4
    <3>3. Place((n - j) + 1) = Base * p
      BY <3>2, PlaceStep
    <3>. QED  BY <2>4, <3>1, <3>3
  <2>6. p \in Nat \ {0} /\ q \in Nat /\ q <= time
    BY <1>4, <2>4
  <2>7. digits[j] = q % Base
    BY <2>4 DEF digits
  <2>8. After(digits, j) = NextValue(time \div (Base * p), q % Base)
    BY <2>1, <2>4, <2>5, <2>7
  <2>. HIDE DEF p
  <2>9. (time \div (Base * p)) * Base + (q % Base) = q
    BY <1>3, <2>6, BaseAssumption, NextQuotient
  <2>10. After(digits, j) = q % 2^Width
    BY <2>8, <2>9 DEF NextValue
  <2>. HIDE DEF q
  <2>11. q % 2^Width = q
    <3>. DEFINE m == 2^Width
    <3>1. m \in Nat \ {0} /\ q < m
      BY <1>3, <2>6
    <3>. HIDE DEF m
    <3>2. q \in 0..(m - 1)
      BY <2>6, <3>1
    <3>3. q % m = q
      BY <3>1, <3>2, Fits
    <3>. QED  BY <3>3 DEF m
  <2>. QED  BY <2>2, <2>10, <2>11 DEF p, q
<1>7. After(digits, n) = time
  <2>1. n \in 0..n /\ n - n = 0
    BY <1>1
  <2>2. After(digits, n) = time \div Place(0)
    <3>1. After(digits, n) = time \div Place(n - n)
      BY <1>6, <2>1
    <3>. QED  BY <2>1, <3>1
  <2>3. time \div 1 = time
    BY <1>3
  <2>. QED  BY <2>2, <2>3, PlaceStep
<1>. DEFINE written == BenchmarkPayloadAt(time)
            value == FoldLeft(LAMBDA sum, digit : (sum * Base + digit) % 2^Width, 0, written.digits)
<1>8. written.prefix /\ written.digits = digits /\ written.end = "comma"
  BY <1>2 DEF BenchmarkPayloadAt, Payload
<1>9. BenchmarkTimestamp(written) = IF /\ written.prefix /\ Len(written.digits) \in 1..MaxDigits
                                       /\ written.end \in {"comma", "brace"} /\ value <= MaxInt
                                    THEN value ELSE Unread
  BY DEF BenchmarkTimestamp, ReadTimestamp
<1>. HIDE DEF written, digits
<1>10. value = After(written.digits, Len(written.digits))
  BY <1>1, <1>5, <1>8, ReadStep
<1>. HIDE DEF value
<1>11. value = time
  BY <1>5, <1>7, <1>8, <1>10
<1>. QED  BY <1>1, <1>3, <1>5, <1>8, <1>9, <1>11 DEF written

-----------------------------------------------------------------------------
(* The chunks.                                                             *)

\* Every latency has a slot and an offset.
LEMMA PlaceInRange ==
    ASSUME NEW w \in Waiters, latency[w] \in Int
    PROVE  /\ SlotOf(w) \in Slots /\ OffsetOf(w) \in Offsets
           /\ CountsIndex(latency[w]) = HalfCount * SlotOf(w) + OffsetOf(w)
<1>. DEFINE i == CountsIndex(latency[w])
            n == CountsLength \div HalfCount
            q == SlotOf(w)
            r == OffsetOf(w)
<1>1. i \in Nat /\ i < CountsLength
  BY IndexInRange, CountsLengthAssumption, HighestAssumption
<1>2. q = i \div HalfCount /\ r = i % HalfCount
  BY DEF SlotOf, OffsetOf
<1>. HIDE DEF i, q, r
<1>3. q \in Nat /\ r \in 0..(HalfCount - 1) /\ i = HalfCount * q + r
  <2>1. /\ i \div HalfCount \in Nat /\ i % HalfCount \in 0..(HalfCount - 1)
        /\ i = HalfCount * (i \div HalfCount) + (i % HalfCount)
    BY <1>1, Half, Division
  <2>. QED  BY <1>2, <2>1, Zenon
<1>4. n \in Nat /\ CountsLength = HalfCount * n
  <2>1. /\ n \in Nat
        /\ CountsLength = HalfCount * n + (CountsLength % HalfCount)
    BY CountsLengthAssumption, Half, Division
  <2>2. HalfCount * n \in Nat
    BY <2>1, Half, Times
  <2>3. CountsLength = HalfCount * n + 0
    BY <2>1, CountsLengthAssumption, Zenon
  <2>. HIDE DEF n
  <2>. QED  BY <2>1, <2>2, <2>3
<1>. HIDE DEF n
<1>5. q < n
  <2>. SUFFICES ASSUME n <= q
                PROVE  FALSE
    BY <1>3, <1>4
  <2>1. HalfCount * n <= HalfCount * q /\ HalfCount * q \in Nat
    BY <1>3, <1>4, Half, Times
  <2>. QED  BY <1>1, <1>3, <1>4, <2>1
<1>6. Slots = 0..(n - 1) /\ Offsets = 0..(HalfCount - 1)
  BY DEF Slots, Offsets, n
<1>7. q \in Slots /\ r \in Offsets
  BY <1>3, <1>4, <1>5, <1>6
<1>. QED  BY <1>3, <1>7, Zenon DEF i, q, r

-----------------------------------------------------------------------------
(* The inductive invariant of the chunks.                                  *)

Labels == {"measure", "load", "install", "reload", "add", "done", "counted"}

\* The waiters on their way through record, or past it.
Recording == {"load", "install", "reload", "add", "done"}

\* The waiters that have added to that counter of that slot.
AddedTo(s, offset) ==
    {w \in Waiters : pc[w] = "done" /\ SlotOf(w) = s /\ OffsetOf(w) = offset}

Shapes ==
    /\ command \in {"pub", PerClient, "sub"}
    /\ command # "sub" => latency \in [Waiters -> Int]
    /\ pc \in [Waiters -> Labels]
    /\ slot \in [Slots -> Waiters \cup {None}]
    /\ chunk \in [Waiters -> Waiters \cup {None}]
    /\ count \in [Waiters -> [Offsets -> Nat]]

\* What a waiter knows of its slot by the time it stands where it stands.
WaiterInv(w) ==
    /\ pc[w] \in Recording => command = PerClient
    /\ pc[w] = "reload" => slot[SlotOf(w)] # None
    /\ pc[w] = "add" => chunk[w] = slot[SlotOf(w)] /\ chunk[w] # None
    /\ pc[w] = "done" => slot[SlotOf(w)] # None

\* A chunk is installed once, by a waiter that needed it, and counts from then
\* on the waiters that have added to it; before that it is empty.
InstalledInv(s, w, offset) ==
    slot[s] = w => /\ SlotOf(w) = s /\ pc[w] \in {"add", "done"}
                   /\ count[w][offset] = Cardinality(AddedTo(s, offset))

SpareInv(w) ==
    (\A s \in Slots : slot[s] # w) => \A offset \in Offsets : count[w][offset] = 0

SlotInv ==
    /\ \A s \in Slots, w \in Waiters, offset \in Offsets : InstalledInv(s, w, offset)
    /\ \A w \in Waiters : SpareInv(w)

ChunkInv == Shapes /\ (\A w \in Waiters : WaiterInv(w)) /\ SlotInv

\* Nobody adds to a slot that has no chunk.
LEMMA NoneAdded ==
    ASSUME ChunkInv, NEW s \in Slots, slot[s] = None, NEW offset \in Offsets
    PROVE  AddedTo(s, offset) = {}
BY DEF ChunkInv, WaiterInv, AddedTo

\* Waiters can be counted.
LEMMA AddedIsFinite ==
    \A s, offset : /\ IsFiniteSet(AddedTo(s, offset))
                   /\ Cardinality(AddedTo(s, offset)) \in Nat
<1>. SUFFICES ASSUME NEW s, NEW offset
              PROVE  IsFiniteSet(AddedTo(s, offset)) /\ Cardinality(AddedTo(s, offset)) \in Nat
  OBVIOUS
<1>1. AddedTo(s, offset) \subseteq Waiters
  BY DEF AddedTo
<1>. QED  BY <1>1, WaitersAssumption, FS_Subset, FS_CardinalityType

\* Looking for a chunk changes nothing for anybody else.
LEMMA LookInv ==
    ASSUME ChunkInv, NEW w \in Waiters, Load(w) \/ UseTheirs(w), UNCHANGED <<command>>
    PROVE  ChunkInv'
<1>1. Shapes /\ SlotInv /\ WaiterInv(w) /\ command = PerClient /\ latency \in [Waiters -> Int]
  BY DEF ChunkInv, WaiterInv, Shapes, Load, UseTheirs, Recording, PerClient
<1>2. /\ UNCHANGED <<latency, slot, count>>
      /\ chunk' = [chunk EXCEPT ![w] = slot[SlotOf(w)]]
      /\ pc[w] \in {"load", "reload"}
      /\ \/ pc' = [pc EXCEPT ![w] = "install"]
         \/ pc' = [pc EXCEPT ![w] = "add"] /\ slot[SlotOf(w)] # None
  BY <1>1 DEF Load, UseTheirs, Goto, WaiterInv
<1>3. SlotOf(w) \in Slots
  BY <1>1, PlaceInRange
<1>4. Shapes'
  BY <1>1, <1>2, <1>3 DEF Shapes, Labels
<1>5. \A v \in Waiters : SlotOf(v)' = SlotOf(v) /\ OffsetOf(v)' = OffsetOf(v)
  BY <1>2 DEF SlotOf, OffsetOf
<1>6. ASSUME NEW v \in Waiters
      PROVE  WaiterInv(v)'
  <2>1. CASE v = w
    BY <1>1, <1>2, <1>5, <2>1 DEF WaiterInv, Shapes
  <2>2. CASE v # w
    <3>1. WaiterInv(v)
      BY DEF ChunkInv
    <3>. QED  BY <1>1, <1>2, <1>5, <2>2, <3>1 DEF WaiterInv, Shapes
  <2>. QED  BY <2>1, <2>2
<1>7. \A s, offset : AddedTo(s, offset)' = AddedTo(s, offset)
  BY <1>1, <1>2, <1>5 DEF AddedTo, Shapes
<1>8. SlotInv'
  BY <1>1, <1>2, <1>5, <1>7 DEF SlotInv, InstalledInv, SpareInv, Shapes
<1>. QED  BY <1>4, <1>6, <1>8 DEF ChunkInv

\* The winner of the race for a slot brings an empty chunk to a slot nobody has
\* added to; the loser leaves everything as it is.
LEMMA InstallInv ==
    ASSUME ChunkInv, NEW w \in Waiters, InstallChunk(w), UNCHANGED <<command>>
    PROVE  ChunkInv'
<1>1. Shapes /\ SlotInv /\ WaiterInv(w) /\ command = PerClient /\ latency \in [Waiters -> Int]
  BY DEF ChunkInv, WaiterInv, Shapes, InstallChunk, Recording, PerClient
<1>2. pc[w] = "install" /\ UNCHANGED <<latency, count>>
  BY DEF InstallChunk
<1>3. SlotOf(w) \in Slots
  BY <1>1, PlaceInRange
<1>4. \A v \in Waiters : SlotOf(v)' = SlotOf(v) /\ OffsetOf(v)' = OffsetOf(v)
  BY <1>2 DEF SlotOf, OffsetOf
<1>5. \A s, offset : AddedTo(s, offset)' = AddedTo(s, offset)
  <2>1. \A v \in Waiters : pc'[v] = "done" <=> pc[v] = "done"
    BY <1>1, <1>2 DEF InstallChunk, Goto, Shapes
  <2>. QED  BY <1>4, <2>1 DEF AddedTo
<1>6. CASE slot[SlotOf(w)] # None
  <2>1. UNCHANGED <<slot, chunk>> /\ pc' = [pc EXCEPT ![w] = "reload"]
    BY <1>6 DEF InstallChunk, Goto
  <2>2. Shapes'
    BY <1>1, <1>2, <2>1 DEF Shapes, Labels
  <2>3. ASSUME NEW v \in Waiters
        PROVE  WaiterInv(v)'
    <3>1. WaiterInv(v)
      BY DEF ChunkInv
    <3>. QED  BY <1>1, <1>2, <1>4, <1>6, <2>1, <3>1 DEF WaiterInv, Shapes, Recording
  <2>4. SlotInv'
    BY <1>1, <1>2, <1>4, <1>5, <2>1 DEF SlotInv, InstalledInv, SpareInv, Shapes
  <2>. QED  BY <2>2, <2>3, <2>4 DEF ChunkInv
<1>7. CASE slot[SlotOf(w)] = None
  <2>. DEFINE t == SlotOf(w)
  <2>1. /\ slot' = [slot EXCEPT ![t] = w] /\ chunk' = [chunk EXCEPT ![w] = w]
        /\ pc' = [pc EXCEPT ![w] = "add"]
    BY <1>7 DEF InstallChunk, Goto
  <2>2. w # None /\ \A s \in Slots : slot[s] # w
    BY <1>1, <1>2, PlaceInRange, WaitersAssumption DEF SlotInv, InstalledInv
  <2>3. Shapes'
    BY <1>1, <1>2, <1>3, <2>1 DEF Shapes, Labels
  <2>4. ASSUME NEW v \in Waiters
        PROVE  WaiterInv(v)'
    <3>1. WaiterInv(v) /\ (v # w => pc'[v] = pc[v] /\ chunk'[v] = chunk[v])
      BY <1>1, <2>1 DEF ChunkInv, Shapes
    <3>2. CASE v = w
      BY <1>1, <1>3, <1>4, <2>1, <2>2, <3>2 DEF WaiterInv, Shapes
    <3>3. CASE v # w
      <4>1. pc[v] \in Recording => SlotOf(v) \in Slots
        BY <1>1, PlaceInRange
      <4>2. slot[SlotOf(v)] # None /\ pc[v] \in Recording => slot'[SlotOf(v)] = slot[SlotOf(v)]
        BY <1>1, <1>3, <1>7, <2>1, <4>1 DEF Shapes
      <4>. QED  BY <1>1, <1>2, <1>4, <3>1, <3>3, <4>2 DEF WaiterInv, Recording
    <3>. QED  BY <3>2, <3>3
  <2>5. SlotInv'
    <3>1. ASSUME NEW s \in Slots, NEW v \in Waiters, slot'[s] = v, NEW offset \in Offsets
          PROVE  /\ SlotOf(v) = s /\ pc'[v] \in {"add", "done"}
                 /\ count[v][offset] = Cardinality(AddedTo(s, offset))
      <4>1. CASE s = t
        <5>1. v = w /\ pc'[w] = "add"
          BY <1>1, <1>3, <2>1, <3>1, <4>1 DEF Shapes
        <5>2. AddedTo(s, offset) = {}
          BY <1>7, <4>1, NoneAdded
        <5>3. count[w][offset] = 0
          BY <1>1, <2>2 DEF SlotInv, InstalledInv, SpareInv
        <5>. QED  BY <4>1, <5>1, <5>2, <5>3, FS_EmptySet
      <4>2. CASE s # t
        <5>1. slot[s] = v /\ v # w
          BY <1>1, <1>3, <2>1, <2>2, <3>1, <4>2 DEF Shapes
        <5>2. pc'[v] = pc[v]
          BY <1>1, <2>1, <5>1 DEF Shapes
        <5>. QED  BY <1>1, <5>1, <5>2 DEF SlotInv, InstalledInv, SpareInv
      <4>. QED  BY <4>1, <4>2
    <3>2. ASSUME NEW v \in Waiters, \A s \in Slots : slot'[s] # v, NEW offset \in Offsets
          PROVE  count[v][offset] = 0
      <4>1. v # w
        BY <1>1, <1>3, <2>1, <3>2 DEF Shapes
      <4>2. \A s \in Slots : slot[s] # v
        BY <1>1, <1>3, <1>7, <2>1, <3>2, WaitersAssumption DEF Shapes
      <4>. QED  BY <1>1, <4>2 DEF SlotInv, InstalledInv, SpareInv
    <3>3. ASSUME NEW s \in Slots, NEW v \in Waiters, NEW offset \in Offsets
          PROVE  InstalledInv(s, v, offset)'
      <4>1. AddedTo(s, offset)' = AddedTo(s, offset) /\ SlotOf(v)' = SlotOf(v)
        BY <1>4, <1>5
      <4>. QED  BY <1>2, <3>1, <4>1 DEF InstalledInv
    <3>4. ASSUME NEW v \in Waiters
          PROVE  SpareInv(v)'
      BY <1>2, <3>2 DEF SpareInv
    <3>. QED  BY <3>3, <3>4 DEF SlotInv
  <2>. QED  BY <2>3, <2>4, <2>5 DEF ChunkInv
<1>. QED  BY <1>6, <1>7

\* An add is counted where it is looked for: in the chunk that is installed.
LEMMA AddInv ==
    ASSUME ChunkInv, NEW w \in Waiters, Add(w), UNCHANGED <<command>>
    PROVE  ChunkInv'
<1>. DEFINE t == SlotOf(w)
            o == OffsetOf(w)
            d == slot[t]
<1>1. Shapes /\ SlotInv /\ WaiterInv(w) /\ command = PerClient /\ latency \in [Waiters -> Int]
  BY DEF ChunkInv, WaiterInv, Shapes, Add, Recording, PerClient
<1>2. /\ pc[w] = "add" /\ UNCHANGED <<latency, slot, chunk>>
      /\ pc' = [pc EXCEPT ![w] = "done"]
      /\ count' = [count EXCEPT ![chunk[w]] = [count[chunk[w]] EXCEPT ![o] = @ + 1]]
  BY DEF Add, Goto
<1>3. t \in Slots /\ o \in Offsets
  BY <1>1, PlaceInRange
<1>4. chunk[w] = d /\ d \in Waiters
  BY <1>1, <1>2, <1>3 DEF WaiterInv, Shapes
<1>5. \A v \in Waiters : SlotOf(v)' = SlotOf(v) /\ OffsetOf(v)' = OffsetOf(v)
  BY <1>2 DEF SlotOf, OffsetOf
<1>6. \A v \in Waiters, x \in Offsets :
         count'[v][x] = IF v = d /\ x = o THEN count[v][x] + 1 ELSE count[v][x]
  BY <1>1, <1>2, <1>3, <1>4 DEF Shapes
<1>7. Shapes'
  <2>1. [count[d] EXCEPT ![o] = @ + 1] \in [Offsets -> Nat]
    BY <1>1, <1>3, <1>4 DEF Shapes
  <2>2. count' \in [Waiters -> [Offsets -> Nat]]
    BY <1>1, <1>2, <1>4, <2>1 DEF Shapes
  <2>. QED  BY <1>1, <1>2, <2>2 DEF Shapes, Labels
<1>8. ASSUME NEW v \in Waiters
      PROVE  WaiterInv(v)'
  <2>1. WaiterInv(v)
    BY DEF ChunkInv
  <2>. QED  BY <1>1, <1>2, <1>4, <1>5, <2>1, WaitersAssumption DEF WaiterInv, Shapes, Recording
<1>9. ASSUME NEW s \in Slots, NEW x \in Offsets
      PROVE  Cardinality(AddedTo(s, x)')
               = Cardinality(AddedTo(s, x)) + (IF s = t /\ x = o THEN 1 ELSE 0)
  <2>1. CASE s = t /\ x = o
    <3>1. AddedTo(s, x)' = AddedTo(s, x) \cup {w} /\ w \notin AddedTo(s, x)
      BY <1>1, <1>2, <1>5, <2>1 DEF AddedTo, Shapes
    <3>. QED  BY <2>1, <3>1, AddedIsFinite, FS_AddElement
  <2>2. CASE ~(s = t /\ x = o)
    <3>1. AddedTo(s, x)' = AddedTo(s, x)
      BY <1>1, <1>2, <1>5, <2>2 DEF AddedTo, Shapes
    <3>. QED  BY <2>2, <3>1, AddedIsFinite
  <2>. QED  BY <2>1, <2>2
<1>10. SlotInv'
  <2>1. ASSUME NEW s \in Slots, NEW v \in Waiters, slot[s] = v, NEW x \in Offsets
        PROVE  /\ SlotOf(v) = s /\ pc'[v] \in {"add", "done"}
               /\ count'[v][x] = Cardinality(AddedTo(s, x)')
    <3>1. /\ SlotOf(v) = s /\ pc[v] \in {"add", "done"}
          /\ count[v][x] = Cardinality(AddedTo(s, x))
      BY <1>1, <2>1 DEF SlotInv, InstalledInv, SpareInv
    <3>2. v = d <=> s = t
      BY <1>1, <1>3, <1>4, <2>1 DEF SlotInv, InstalledInv, SpareInv
    <3>3. pc'[v] \in {"add", "done"}
      BY <1>1, <1>2, <3>1 DEF Shapes
    <3>. QED  BY <1>6, <1>9, <3>1, <3>2, <3>3, AddedIsFinite
  <2>2. ASSUME NEW v \in Waiters, \A s \in Slots : slot[s] # v, NEW x \in Offsets
        PROVE  count'[v][x] = 0
    BY <1>1, <1>3, <1>6, <2>2 DEF SlotInv, InstalledInv, SpareInv
  <2>3. ASSUME NEW s \in Slots, NEW v \in Waiters, NEW x \in Offsets
        PROVE  InstalledInv(s, v, x)'
    <3>1. SlotOf(v)' = SlotOf(v)
      BY <1>5
    <3>. QED  BY <1>2, <2>1, <3>1 DEF InstalledInv
  <2>4. ASSUME NEW v \in Waiters
        PROVE  SpareInv(v)'
    BY <1>2, <2>2 DEF SpareInv
  <2>. QED  BY <2>3, <2>4 DEF SlotInv
<1>. QED  BY <1>7, <1>8, <1>10 DEF ChunkInv

\* Recording into the shared counters leaves the chunks alone; only a callback of
\* sub measures its latency as it records, and there are no chunks in sub.
LEMMA SharedInv ==
    ASSUME ChunkInv, NEW w \in Waiters, RecordAck(w) \/ RecordLatency(w)
    PROVE  ChunkInv'
<1>1. Shapes /\ SlotInv
  BY DEF ChunkInv
<1>2. /\ UNCHANGED <<command, slot, chunk, count>> /\ pc[w] = "measure"
      /\ \/ pc' = [pc EXCEPT ![w] = "counted"]
         \/ pc' = [pc EXCEPT ![w] = "load"] /\ command = PerClient
      /\ command # "sub" => latency' = latency
  <2>1. CASE RecordAck(w)
    BY <2>1 DEF RecordAck, Goes, messageVars, chunkedVars
  <2>2. CASE RecordLatency(w)
    BY <2>2 DEF RecordLatency, Goes, messageVars, chunkedVars
  <2>. QED  BY <2>1, <2>2
<1>3. Shapes'
  BY <1>1, <1>2 DEF Shapes, Labels
<1>4. command # "sub" => \A v \in Waiters : SlotOf(v)' = SlotOf(v) /\ OffsetOf(v)' = OffsetOf(v)
  BY <1>2 DEF SlotOf, OffsetOf
<1>5. \A v \in Waiters : /\ pc'[v] \in {"reload", "add", "done"} <=> pc[v] \in {"reload", "add", "done"}
                         /\ v # w => pc'[v] = pc[v]
  BY <1>1, <1>2 DEF Shapes
<1>6. ASSUME NEW v \in Waiters
      PROVE  WaiterInv(v)'
  <2>1. WaiterInv(v)
    BY DEF ChunkInv
  <2>2. CASE v = w
    BY <1>1, <1>2, <2>2 DEF WaiterInv, Shapes, Recording
  <2>3. CASE v # w
    <3>1. pc'[v] = pc[v]
      BY <1>5, <2>3
    <3>2. CASE command = "sub"
      BY <1>2, <2>1, <3>1, <3>2 DEF WaiterInv, Recording, PerClient
    <3>3. CASE command # "sub"
      <4>1. SlotOf(v)' = SlotOf(v)
        BY <1>4, <3>3
      <4>. QED  BY <1>2, <2>1, <3>1, <4>1 DEF WaiterInv
    <3>. QED  BY <3>2, <3>3
  <2>. QED  BY <2>2, <2>3
<1>7. ASSUME NEW s \in Slots, NEW v \in Waiters, NEW offset \in Offsets
      PROVE  InstalledInv(s, v, offset)'
  <2>. SUFFICES ASSUME slot[s] = v
                PROVE  InstalledInv(s, v, offset)'
    BY <1>2 DEF InstalledInv
  <2>1. InstalledInv(s, v, offset) /\ WaiterInv(v)
    BY <1>1 DEF SlotInv, ChunkInv
  <2>2. pc[v] \in {"add", "done"} /\ command # "sub" /\ v # w
    BY <1>2, <2>1 DEF InstalledInv, WaiterInv, Recording, PerClient
  <2>3. SlotOf(v)' = SlotOf(v) /\ pc'[v] = pc[v]
    BY <1>4, <1>5, <2>2
  <2>4. AddedTo(s, offset)' = AddedTo(s, offset)
    <3>1. \A u \in Waiters : pc'[u] = "done" <=> pc[u] = "done"
      BY <1>1, <1>2 DEF Shapes
    <3>. QED  BY <1>4, <2>2, <3>1 DEF AddedTo
  <2>. QED  BY <1>2, <2>1, <2>3, <2>4 DEF InstalledInv
<1>8. ASSUME NEW v \in Waiters
      PROVE  SpareInv(v)'
  BY <1>1, <1>2 DEF SlotInv, SpareInv
<1>. QED  BY <1>3, <1>6, <1>7, <1>8 DEF ChunkInv, SlotInv

\* The reports only read.
LEMMA ReadInv ==
    ASSUME ChunkInv, UNCHANGED <<command, latency, pc, slot, chunk, count>>
    PROVE  ChunkInv'
<1>1. \A w \in Waiters : SlotOf(w)' = SlotOf(w) /\ OffsetOf(w)' = OffsetOf(w)
  BY DEF SlotOf, OffsetOf
<1>2. Shapes'
  BY DEF ChunkInv, Shapes
<1>3. ASSUME NEW w \in Waiters
      PROVE  WaiterInv(w)'
  <2>1. WaiterInv(w) /\ SlotOf(w)' = SlotOf(w)
    BY <1>1 DEF ChunkInv
  <2>. QED  BY <2>1 DEF WaiterInv
<1>4. ASSUME NEW s \in Slots, NEW w \in Waiters, NEW offset \in Offsets
      PROVE  InstalledInv(s, w, offset)'
  <2>1. InstalledInv(s, w, offset) /\ SlotOf(w)' = SlotOf(w)
    BY <1>1 DEF ChunkInv, SlotInv
  <2>2. AddedTo(s, offset)' = AddedTo(s, offset)
    BY <1>1 DEF AddedTo
  <2>. QED  BY <2>1, <2>2 DEF InstalledInv
<1>5. ASSUME NEW w \in Waiters
      PROVE  SpareInv(w)'
  BY DEF ChunkInv, SlotInv, SpareInv
<1>. QED  BY <1>2, <1>3, <1>4, <1>5 DEF ChunkInv, SlotInv

\* The inductive invariant, of every step of the waiters and of the reports.
THEOREM ChunksInOrder == StatsSpec => []ChunkInv
<1>1. ASSUME StatsInit
      PROVE  ChunkInv
  <2>1. /\ pc = [w \in Waiters |-> "measure"]
        /\ slot = [s \in Slots |-> None] /\ chunk = [w \in Waiters |-> None]
        /\ count = [w \in Waiters |-> [offset \in Offsets |-> 0]]
        /\ command \in {"pub", PerClient, "sub"}
        /\ command # "sub" => latency \in [Waiters -> Latencies]
    BY <1>1 DEF StatsInit, Empty
  <2>2. Shapes
    BY <2>1, LatenciesAssumption DEF Shapes, Labels
  <2>3. \A w \in Waiters : WaiterInv(w)
    BY <2>1 DEF WaiterInv, Recording
  <2>4. \A s \in Slots, w \in Waiters, offset \in Offsets : InstalledInv(s, w, offset)
    BY <2>1, WaitersAssumption DEF InstalledInv
  <2>5. \A w \in Waiters : SpareInv(w)
    BY <2>1 DEF SpareInv
  <2>. QED  BY <2>2, <2>3, <2>4, <2>5 DEF ChunkInv, SlotInv
<1>2. ASSUME ChunkInv, [StatsNext]_allVars
      PROVE  ChunkInv'
  <2>1. CASE \E w \in Waiters : RecordAck(w) \/ RecordLatency(w)
    BY <1>2, <2>1, SharedInv
  <2>2. CASE \E w \in Waiters : Record(w) /\ UNCHANGED <<messageVars, statsVars>>
    <3>1. PICK w \in Waiters : Record(w) /\ UNCHANGED <<command>>
      BY <2>2 DEF messageVars
    <3>2. CASE Load(w) \/ UseTheirs(w)
      BY <1>2, <3>1, <3>2, LookInv
    <3>3. CASE InstallChunk(w)
      BY <1>2, <3>1, <3>3, InstallInv
    <3>4. CASE Add(w)
      BY <1>2, <3>1, <3>4, AddInv
    <3>. QED  BY <3>1, <3>2, <3>3, <3>4 DEF Record
  <2>3. CASE AddToShared
    BY <1>2, <2>3, ReadInv DEF AddToShared, AddCount, vars, messageVars
  <2>4. CASE AddTo /\ UNCHANGED <<messageVars, statsVars>>
    BY <1>2, <2>4, ReadInv DEF AddTo, messageVars
  <2>5. CASE UNCHANGED allVars
    BY <1>2, <2>5, ReadInv DEF allVars, vars, messageVars
  <2>. QED  BY <1>2, <2>1, <2>2, <2>3, <2>4, <2>5 DEF StatsNext
<1>. QED  BY <1>1, <1>2, PTL DEF StatsSpec

\* No latency is lost or counted twice by the chunks, however many waiters race
\* for them, whatever they measured and however the counters are laid out.
THEOREM NothingIsLost == StatsSpec => []NothingLost
<1>1. ASSUME ChunkInv
      PROVE  NothingLost
  <2>. SUFFICES ASSUME NEW s \in Slots, NEW offset \in Offsets
                PROVE  (IF slot[s] = None THEN 0 ELSE count[slot[s]][offset])
                         = Cardinality(AddedTo(s, offset))
    BY DEF NothingLost, AddedTo
  <2>1. CASE slot[s] = None
    BY <1>1, <2>1, NoneAdded, FS_EmptySet
  <2>2. CASE slot[s] # None
    BY <1>1, <2>2 DEF ChunkInv, Shapes, SlotInv, InstalledInv
  <2>. QED  BY <2>1, <2>2
<1>. QED  BY <1>1, ChunksInOrder, PTL

-----------------------------------------------------------------------------
(* The inductive invariant of the shared counters and the reports.         *)

StatsShapes ==
    /\ latency \in [Waiters -> Int] /\ number \in [Waiters -> Nat]
    /\ command = "sub" => payload \in [Waiters -> Payloads] /\ arrivedAt \in [Waiters -> Int]
    /\ shared \in [Members -> [Indexes -> Nat]]
    /\ withoutTimestamp \in Nat /\ negativeLatency \in Nat

\* Those that have recorded in that counter.
RecordedAt(i, index) ==
    {w \in Recorders \cap Measured : ForClient(number[w]) = i /\ CountsIndex(latency[w]) = index}

\* The callbacks whose message has no timestamp, and those it lies ahead of.
Without == {w \in Waiters : ~HasTimestamp(payload[w])}
Ahead   == {w \in Waiters : HasTimestamp(payload[w]) /\ arrivedAt[w] < Stated(payload[w])}

\* Each counter counts the waiters that have recorded there.
CountersInv ==
    \A i \in Members, index \in Indexes : shared[i][index] = Cardinality(RecordedAt(i, index))

\* A callback has recorded what its message says.
MessagesInv ==
    command = "sub" =>
       /\ withoutTimestamp = Cardinality(Recorders \cap Without)
       /\ negativeLatency = Cardinality(Recorders \cap Ahead)
       /\ \A w \in Recorders \cap Measured : latency[w] = arrivedAt[w] - Stated(payload[w])

\* The counter of w lies before the cursor: addTo has added it.
Passed(w) ==
    \/ ForClient(number[w]) < cursor[1]
    \/ ForClient(number[w]) = cursor[1] /\ CountsIndex(latency[w]) < cursor[2]

\* Those of W that have been recorded in a counter which has been added at v.
CountedIn(W, v) ==
    {w \in W \cap Measured : Passed(w) /\ ValueForIndex(CountsIndex(latency[w])) = v}

\* The histogram has at each value, of the counters added so far, at least those who
\* had recorded before and at most those who have by now; for pub both are all.
HistogramInv ==
    /\ cursor \in (Members \X Indexes) \cup {<<SetSize, 0>>}
    /\ early \subseteq Recorders
    /\ command # "sub" /\ cursor # <<0, 0>> => Finished /\ early = Waiters
    /\ sharedReport \in [0..Highest -> Nat]
    /\ \A v \in 0..Highest : /\ Cardinality(CountedIn(early, v)) <= sharedReport[v]
                             /\ sharedReport[v] <= Cardinality(CountedIn(Recorders, v))

\* The report of a client is written when all have recorded, and right from then on.
ReportInv == report # NoReport => command = PerClient /\ Finished /\ report = Expected

StatsInv == StatsShapes /\ CountersInv /\ MessagesInv /\ HistogramInv /\ ReportInv

\* Waiters can be counted, whatever tells some of them from the others.
LEMMA Countable ==
    ASSUME NEW W \in SUBSET Waiters
    PROVE  /\ IsFiniteSet(W) /\ Cardinality(W) \in Nat
           /\ \A w : w \notin W => Cardinality(W \cup {w}) = Cardinality(W) + 1
BY WaitersAssumption, FS_Subset, FS_CardinalityType, FS_AddElement

\* Every latency has a counter in the set.
LEMMA CounterInRange ==
    ASSUME StatsShapes, NEW w \in Waiters, NEW v \in Int
    PROVE  ForClient(number[w]) \in Members /\ CountsIndex(v) \in Indexes
<1>1. number[w] \in Nat
  BY DEF StatsShapes
<1>2. number[w] % SetSize \in 0..(SetSize - 1)
  BY <1>1, SetSizeAssumption, Division
<1>3. CountsIndex(v) \in Nat /\ CountsIndex(v) < CountsLength
  BY IndexInRange, CountsLengthAssumption, HighestAssumption
<1>. QED  BY <1>2, <1>3, CountsLengthAssumption DEF ForClient, Members, Indexes

\* What a step does that records for w: only w's latency may be new.
Records(w) ==
    /\ pc[w] = "measure" /\ \E to \in Labels \ {"measure"} : pc' = [pc EXCEPT ![w] = to]
    /\ UNCHANGED <<command, number, payload, arrivedAt>>
    /\ \A v \in Waiters \ {w} : latency'[v] = latency[v]

\* Then w joins those who have recorded, and nobody else does.
LEMMA Joined ==
    ASSUME ChunkInv, NEW w \in Waiters, Records(w)
    PROVE  /\ w \notin Recorders /\ Recorders' = Recorders \cup {w}
           /\ Measured' = Measured /\ Without' = Without /\ Ahead' = Ahead
<1>1. pc \in [Waiters -> Labels]
  BY DEF ChunkInv, Shapes
<1>2. w \notin Recorders /\ Recorders' = Recorders \cup {w}
  BY <1>1 DEF Records, Recorders
<1>3. Measured' = Measured /\ Without' = Without /\ Ahead' = Ahead
  BY DEF Records, Measured, Without, Ahead
<1>. QED  BY <1>2, <1>3

\* Counters that count the recorded latencies do so after one more.
LEMMA CountersKept ==
    ASSUME ChunkInv, StatsShapes, CountersInv, NEW w \in Waiters, Records(w), latency'[w] \in Int,
           shared' = IF w \in Measured THEN Recorded(w, latency'[w]) ELSE shared
    PROVE  CountersInv' /\ shared' \in [Members -> [Indexes -> Nat]]
<1>. DEFINE m == ForClient(number[w])
            x == CountsIndex(latency'[w])
<1>1. m \in Members /\ x \in Indexes /\ shared \in [Members -> [Indexes -> Nat]]
  BY CounterInRange DEF StatsShapes
<1>2. shared' = IF w \in Measured THEN [shared EXCEPT ![m][x] = @ + 1] ELSE shared
  BY DEF Recorded
<1>3. number' = number /\ \A v \in Waiters \ {w} : latency'[v] = latency[v]
  BY DEF Records
<1>4. ASSUME NEW i \in Members, NEW index \in Indexes
      PROVE  RecordedAt(i, index)'
               = IF w \in Measured /\ i = m /\ index = x THEN RecordedAt(i, index) \cup {w}
                 ELSE RecordedAt(i, index)
  BY <1>3, Joined DEF RecordedAt, Recorders
<1>. HIDE DEF m, x
<1>5. ASSUME NEW i \in Members, NEW index \in Indexes
      PROVE  shared'[i][index] = Cardinality(RecordedAt(i, index)')
  <2>1. RecordedAt(i, index) \in SUBSET Waiters /\ w \notin RecordedAt(i, index)
    BY Joined DEF RecordedAt, Recorders
  <2>2. shared[i][index] = Cardinality(RecordedAt(i, index))
    BY DEF CountersInv
  <2>3. CASE w \in Measured /\ i = m /\ index = x
    <3>1. shared'[i][index] = shared[i][index] + 1
      BY <1>1, <1>2, <2>3
    <3>2. RecordedAt(i, index)' = RecordedAt(i, index) \cup {w}
      BY <1>4, <2>3
    <3>3. Cardinality(RecordedAt(i, index) \cup {w}) = Cardinality(RecordedAt(i, index)) + 1
      BY <2>1, Countable
    <3>. QED  BY <2>2, <3>1, <3>2, <3>3
  <2>4. CASE ~(w \in Measured /\ i = m /\ index = x)
    <3>1. shared'[i][index] = shared[i][index]
      BY <1>1, <1>2, <2>4
    <3>2. RecordedAt(i, index)' = RecordedAt(i, index)
      BY <1>4, <2>4
    <3>. QED  BY <2>2, <3>1, <3>2
  <2>. QED  BY <2>3, <2>4
<1>6. CountersInv'
  BY <1>5 DEF CountersInv, Members, Indexes
<1>7. shared' \in [Members -> [Indexes -> Nat]]
  BY <1>1, <1>2
<1>. QED  BY <1>6, <1>7

\* What the parser makes of the message of a callback.
LEMMA MessageRead ==
    ASSUME StatsShapes, command = "sub", NEW w \in Waiters
    PROVE  /\ payload[w] \in Payloads /\ arrivedAt[w] \in Int
           /\ BenchmarkTimestamp(payload[w]) \in Int
           /\ w \in Without <=> BenchmarkTimestamp(payload[w]) = Unread
           /\ w \notin Without => BenchmarkTimestamp(payload[w]) = Stated(payload[w])
           /\ w \in Ahead <=> w \notin Without /\ arrivedAt[w] - Stated(payload[w]) < 0
           /\ w \in Measured <=> w \notin Without /\ arrivedAt[w] - Stated(payload[w]) >= 0
<1>1. payload[w] \in Payloads /\ arrivedAt[w] \in Int
  BY DEF StatsShapes
<1>2. payload[w] \in [prefix: BOOLEAN, digits: Seq(Digits), end: Ends]
  BY <1>1, MessagesAssumption DEF Digits
<1>. DEFINE p == payload[w]
<1>3. /\ HasTimestamp(p) => BenchmarkTimestamp(p) = Stated(p) /\ Stated(p) \in Nat
      /\ HasTimestamp(p) <=> BenchmarkTimestamp(p) # Unread
      /\ BenchmarkTimestamp(p) \in Int
  BY <1>2, ReadsStated
<1>. QED  BY <1>1, <1>3 DEF Without, Ahead, Measured

\* All but the reports.
CountInv == StatsShapes /\ CountersInv /\ MessagesInv

\* A waiter of pub records its latency.
LEMMA AckInv ==
    ASSUME ChunkInv, CountInv, NEW w \in Waiters, RecordAck(w)
    PROVE  CountInv'
<1>1. /\ pc[w] = "measure" /\ command # "sub" /\ latency' = latency
      /\ \E to \in {"load", "counted"} : pc' = [pc EXCEPT ![w] = to]
      /\ UNCHANGED <<command, number, payload, arrivedAt, withoutTimestamp, negativeLatency>>
      /\ shared' = Recorded(w, latency'[w])
  BY DEF RecordAck, Goes, messageVars
<1>2. Records(w) /\ StatsShapes /\ CountersInv
  BY <1>1 DEF Records, Labels, CountInv
<1>3. w \in Measured /\ latency'[w] \in Int
  BY <1>1, <1>2 DEF Measured, StatsShapes
<1>4. CountersInv' /\ shared' \in [Members -> [Indexes -> Nat]]
  BY <1>1, <1>2, <1>3, CountersKept
<1>5. StatsShapes'
  BY <1>1, <1>2, <1>4 DEF StatsShapes, Members, Indexes
<1>6. MessagesInv'
  BY <1>1 DEF MessagesInv
<1>. QED  BY <1>4, <1>5, <1>6 DEF CountInv

\* A callback of sub counts its message in one of the three ways, the one that
\* its message calls for.
LEMMA LatencyInv ==
    ASSUME ChunkInv, CountInv, NEW w \in Waiters, RecordLatency(w)
    PROVE  CountInv'
<1>. DEFINE timestamp == BenchmarkTimestamp(payload[w])
            milliseconds == arrivedAt[w] - timestamp
            stated == Stated(payload[w])
<1>1. /\ pc[w] = "measure" /\ command = "sub" /\ pc' = [pc EXCEPT ![w] = "counted"]
      /\ UNCHANGED <<command, number, payload, arrivedAt>>
      /\ \/ /\ timestamp = Unread
            /\ withoutTimestamp' = withoutTimestamp + 1
            /\ UNCHANGED <<shared, negativeLatency, latency>>
         \/ /\ timestamp # Unread /\ milliseconds < 0
            /\ negativeLatency' = negativeLatency + 1
            /\ UNCHANGED <<shared, withoutTimestamp, latency>>
         \/ /\ timestamp # Unread /\ milliseconds >= 0
            /\ shared' = Recorded(w, milliseconds)
            /\ latency' = [latency EXCEPT ![w] = milliseconds]
            /\ UNCHANGED <<withoutTimestamp, negativeLatency>>
  BY DEF RecordLatency, Goes, messageVars
<1>2. StatsShapes /\ CountersInv /\ MessagesInv /\ latency \in [Waiters -> Int]
  BY DEF CountInv, StatsShapes
<1>3. /\ payload[w] \in Payloads /\ arrivedAt[w] \in Int /\ timestamp \in Int
      /\ w \in Without <=> timestamp = Unread
      /\ w \notin Without => timestamp = stated
      /\ w \in Ahead <=> w \notin Without /\ arrivedAt[w] - stated < 0
      /\ w \in Measured <=> w \notin Without /\ arrivedAt[w] - stated >= 0
  BY <1>1, <1>2, MessageRead
<1>. HIDE DEF timestamp, stated
<1>4. \/ /\ w \in Without /\ w \notin Ahead /\ w \notin Measured
         /\ withoutTimestamp' = withoutTimestamp + 1
         /\ UNCHANGED <<shared, negativeLatency, latency>>
      \/ /\ w \notin Without /\ w \in Ahead /\ w \notin Measured
         /\ negativeLatency' = negativeLatency + 1
         /\ UNCHANGED <<shared, withoutTimestamp, latency>>
      \/ /\ w \notin Without /\ w \notin Ahead /\ w \in Measured
         /\ shared' = Recorded(w, arrivedAt[w] - stated)
         /\ latency' = [latency EXCEPT ![w] = arrivedAt[w] - stated]
         /\ arrivedAt[w] - stated \in Int
         /\ UNCHANGED <<withoutTimestamp, negativeLatency>>
  <2>1. CASE timestamp = Unread
    BY <1>1, <1>3, <2>1
  <2>2. CASE timestamp # Unread /\ milliseconds < 0
    BY <1>1, <1>3, <2>2
  <2>3. CASE timestamp # Unread /\ milliseconds >= 0
    <3>1. timestamp = stated /\ w \notin Without /\ w \notin Ahead /\ w \in Measured
      BY <1>3, <2>3
    <3>. QED  BY <1>1, <1>3, <2>3, <3>1
  <2>. QED  BY <1>3, <2>1, <2>2, <2>3
<1>5. /\ latency' \in [Waiters -> Int]
      /\ \A v \in Waiters \ {w} : latency'[v] = latency[v]
      /\ w \in Measured => latency'[w] = arrivedAt[w] - stated
  BY <1>2, <1>4
<1>6. Records(w)
  BY <1>1, <1>5 DEF Records, Labels
<1>7. shared' = IF w \in Measured THEN Recorded(w, latency'[w]) ELSE shared
  BY <1>4, <1>5
<1>8. CountersInv' /\ shared' \in [Members -> [Indexes -> Nat]]
  BY <1>2, <1>5, <1>6, <1>7, CountersKept
<1>9. withoutTimestamp' \in Nat /\ negativeLatency' \in Nat
  BY <1>2, <1>4 DEF StatsShapes
<1>10. StatsShapes'
  BY <1>1, <1>2, <1>5, <1>8, <1>9 DEF StatsShapes, Members, Indexes
<1>11. /\ w \notin Recorders /\ Recorders' = Recorders \cup {w}
       /\ Measured' = Measured /\ Without' = Without /\ Ahead' = Ahead
  BY <1>6, Joined
<1>12. /\ withoutTimestamp = Cardinality(Recorders \cap Without)
       /\ negativeLatency = Cardinality(Recorders \cap Ahead)
       /\ \A v \in Recorders \cap Measured : latency[v] = arrivedAt[v] - Stated(payload[v])
  BY <1>1, <1>2 DEF MessagesInv
<1>13. withoutTimestamp' = Cardinality((Recorders \cup {w}) \cap Without)
  <2>1. Recorders \cap Without \in SUBSET Waiters /\ w \notin Recorders \cap Without
    BY <1>11 DEF Recorders
  <2>2. CASE w \in Without
    <3>1. (Recorders \cup {w}) \cap Without = (Recorders \cap Without) \cup {w}
      BY <2>2
    <3>2. withoutTimestamp' = withoutTimestamp + 1
      BY <1>4, <2>2
    <3>. QED  BY <1>12, <2>1, <3>1, <3>2, Countable
  <2>3. CASE w \notin Without
    <3>1. (Recorders \cup {w}) \cap Without = Recorders \cap Without
      BY <2>3
    <3>2. withoutTimestamp' = withoutTimestamp
      BY <1>4, <2>3
    <3>. QED  BY <1>12, <3>1, <3>2
  <2>. QED  BY <2>2, <2>3
<1>14. negativeLatency' = Cardinality((Recorders \cup {w}) \cap Ahead)
  <2>1. Recorders \cap Ahead \in SUBSET Waiters /\ w \notin Recorders \cap Ahead
    BY <1>11 DEF Recorders
  <2>2. CASE w \in Ahead
    <3>1. (Recorders \cup {w}) \cap Ahead = (Recorders \cap Ahead) \cup {w}
      BY <2>2
    <3>2. negativeLatency' = negativeLatency + 1
      BY <1>4, <2>2
    <3>. QED  BY <1>12, <2>1, <3>1, <3>2, Countable
  <2>3. CASE w \notin Ahead
    <3>1. (Recorders \cup {w}) \cap Ahead = Recorders \cap Ahead
      BY <2>3
    <3>2. negativeLatency' = negativeLatency
      BY <1>4, <2>3
    <3>. QED  BY <1>12, <3>1, <3>2
  <2>. QED  BY <2>2, <2>3
<1>15. ASSUME NEW v \in (Recorders \cup {w}) \cap Measured
       PROVE  latency'[v] = arrivedAt[v] - Stated(payload[v])
  <2>1. CASE v = w
    BY <1>5, <1>15, <2>1 DEF stated
  <2>2. CASE v # w
    BY <1>5, <1>12, <1>15, <2>2 DEF Recorders
  <2>. QED  BY <2>1, <2>2
<1>16. MessagesInv'
  BY <1>1, <1>11, <1>13, <1>14, <1>15 DEF MessagesInv
<1>. QED  BY <1>8, <1>10, <1>16 DEF CountInv

\* A step that records for nobody leaves the counters as they were.
LEMMA SameInv ==
    ASSUME CountInv, Recorders' = Recorders,
           UNCHANGED <<latency, command, number, payload, arrivedAt>>,
           UNCHANGED <<shared, withoutTimestamp, negativeLatency>>
    PROVE  CountInv'
<1>1. Measured' = Measured /\ Without' = Without /\ Ahead' = Ahead
  BY DEF Measured, Without, Ahead
<1>2. \A i, index : RecordedAt(i, index)' = RecordedAt(i, index)
  BY <1>1 DEF RecordedAt
<1>3. StatsShapes'
  BY DEF CountInv, StatsShapes, Members, Indexes
<1>4. ASSUME NEW i \in Members, NEW index \in Indexes
      PROVE  shared'[i][index] = Cardinality(RecordedAt(i, index)')
  BY <1>2 DEF CountInv, CountersInv
<1>5. CountersInv'
  BY <1>4 DEF CountersInv, Members, Indexes
<1>6. MessagesInv'
  BY <1>1 DEF CountInv, MessagesInv
<1>. QED  BY <1>3, <1>5, <1>6 DEF CountInv

-----------------------------------------------------------------------------
(* What the reports count.                                                 *)

\* A report that adds up counters, of which each is the number of measured waiters
\* of one kind, over those kinds whose latencies are at v in the layout.
LEMMA CountedAtValue ==
    ASSUME NEW v, NEW S, IsFiniteSet(S), NEW f, DOMAIN f = S, NEW kind,
           \A w \in Measured : latency[w] \in Int,
           \A x \in S : f[x] = Cardinality({w \in Measured : kind[w] = x}),
           \A w \in Measured : kind[w] \in S <=> ValueForIndex(CountsIndex(latency[w])) = v
    PROVE  SumFunction(f) = Cardinality(PlacedAt(Waiters, v))
<1>1. Measured \in SUBSET Waiters
  BY DEF Measured
<1>2. IsFiniteSet(Measured)
  BY <1>1, Countable
<1>3. SumFunctionOnSet(f, S) = Cardinality({w \in Measured : kind[w] \in S})
  BY <1>2, SumOfCounts
<1>4. {w \in Measured : kind[w] \in S} = PlacedAt(Waiters, v)
  BY <1>1, PlacedByLayout DEF PlacedAt
<1>. QED  BY <1>3, <1>4 DEF SumFunction

\* A counter in the set that is added to the histogram leaves it within its bounds.
LEMMA AddKept ==
    ASSUME CountInv, HistogramInv, AddToShared
    PROVE  HistogramInv'
<1>. DEFINE i == cursor[1]
            index == cursor[2]
            hit(v) == ValueForIndex(index) = v
            here == RecordedAt(i, index)
            now(W, v) == {w \in W \cap Measured :
                             Passed(w)' /\ ValueForIndex(CountsIndex(latency[w])) = v}
<1>1. /\ i \in Members /\ (command # "sub" => Finished)
      /\ sharedReport' = IF shared[i][index] = 0 THEN sharedReport
                         ELSE [sharedReport EXCEPT ![ValueForIndex(index)] = @ + shared[i][index]]
      /\ early' = IF cursor = <<0, 0>> THEN Recorders ELSE early
      /\ cursor' = IF index + 1 \in Indexes THEN <<i, index + 1>> ELSE <<i + 1, 0>>
      /\ UNCHANGED <<latency, pc, command, number, payload, arrivedAt>>
  BY DEF AddToShared, AddCount, vars, messageVars
<1>2. /\ cursor \in Members \X Indexes /\ index \in Indexes /\ cursor = <<i, index>>
      /\ early \subseteq Recorders /\ sharedReport \in [0..Highest -> Nat]
  BY <1>1, SetSizeAssumption DEF HistogramInv, Members
<1>3. /\ Recorders' = Recorders /\ Finished' = Finished /\ Measured' = Measured
      /\ Recorders \subseteq Waiters
  BY <1>1 DEF Recorders, Finished, Measured
<1>4. StatsShapes /\ CountersInv
  BY DEF CountInv
<1>5. cursor' \in (Members \X Indexes) \cup {<<SetSize, 0>>}
  <2>1. 0 \in Indexes
    BY <1>2, CountsLengthAssumption DEF Indexes
  <2>. QED  BY <1>1, <1>2, <2>1, SetSizeAssumption DEF Members
<1>6. early' \subseteq Recorders
  BY <1>1, <1>2
<1>7. command # "sub" => Finished /\ early' = Waiters
  <2>. SUFFICES ASSUME command # "sub"
                PROVE  Finished /\ early' = Waiters
    OBVIOUS
  <2>1. Finished /\ Recorders = Waiters
    BY <1>1 DEF Finished, Recorders
  <2>. QED  BY <1>1, <2>1 DEF HistogramInv
<1>8. ASSUME NEW w \in Recorders \cap Measured
      PROVE  /\ Passed(w)' <=> Passed(w) \/ w \in here
             /\ w \in here => ~Passed(w) /\ CountsIndex(latency[w]) = index
             /\ cursor = <<0, 0>> => ~Passed(w)
  <2>1. w \in Waiters /\ latency[w] \in Int
    BY <1>3, <1>4 DEF StatsShapes
  <2>2. ForClient(number[w]) \in Members /\ CountsIndex(latency[w]) \in Indexes
    BY <1>4, <2>1, CounterInRange
  <2>. DEFINE m == ForClient(number[w])
              x == CountsIndex(latency[w])
  <2>3. /\ Passed(w) <=> m < i \/ (m = i /\ x < index)
        /\ Passed(w)' <=> m < cursor'[1] \/ (m = cursor'[1] /\ x < cursor'[2])
        /\ w \in here <=> m = i /\ x = index
    BY <1>1 DEF Passed, RecordedAt
  <2>4. m \in Nat /\ x \in Nat /\ x < CountsLength /\ CountsLength \in Nat
    BY <2>2, CountsLengthAssumption, SetSizeAssumption DEF Members, Indexes
  <2>5. i \in Nat /\ index \in Nat /\ index < CountsLength
    BY <1>1, <1>2, SetSizeAssumption, CountsLengthAssumption DEF Members, Indexes
  <2>6. cursor = <<0, 0>> => i = 0 /\ index = 0
    OBVIOUS
  <2>7. CASE index + 1 \in Indexes
    <3>1. cursor'[1] = i /\ cursor'[2] = index + 1
      BY <1>1, <2>7
    <3>. HIDE DEF i, index, m, x
    <3>. QED  BY <2>3, <2>4, <2>5, <2>6, <3>1 DEF m, x
  <2>8. CASE index + 1 \notin Indexes
    <3>1. cursor'[1] = i + 1 /\ cursor'[2] = 0
      BY <1>1, <2>8
    <3>2. index = CountsLength - 1
      BY <2>5, <2>4, <2>8 DEF Indexes
    <3>. HIDE DEF i, index, m, x
    <3>. QED  BY <2>3, <2>4, <2>5, <2>6, <3>1, <3>2 DEF m, x
  <2>. QED  BY <2>7, <2>8
<1>9. here \subseteq Recorders \cap Measured /\ shared[i][index] = Cardinality(here)
  BY <1>1, <1>2, <1>4 DEF RecordedAt, CountersInv
<1>. HIDE DEF i, index, here
<1>10. ASSUME NEW v \in 0..Highest
       PROVE  /\ Cardinality(now(early', v)) <= sharedReport'[v]
              /\ sharedReport'[v] <= Cardinality(now(Recorders, v))
  <2>. DEFINE added == IF hit(v) THEN here ELSE {}
  <2>1. /\ added \subseteq Recorders \cap Measured
        /\ \A w \in added : w \in here /\ hit(v)
        /\ \A w \in here : hit(v) => w \in added
    BY <1>9
  <2>2. ASSUME NEW W \in SUBSET Recorders
        PROVE  now(W, v) = CountedIn(W, v) \cup (added \cap W)
    BY <1>8, <2>1 DEF CountedIn
  <2>3. CountedIn(Recorders, v) \cap added = {}
    BY <1>8, <2>1 DEF CountedIn
  <2>4. \A W \in SUBSET Recorders : CountedIn(W, v) \in SUBSET Waiters
    BY <1>3 DEF CountedIn
  <2>5. added \in SUBSET Waiters
    BY <1>3, <2>1
  <2>6. Cardinality(here) \in Nat /\ Cardinality(added) = IF hit(v) THEN Cardinality(here) ELSE 0
    BY <1>3, <1>9, Countable, FS_EmptySet
  <2>7. sharedReport'[v] = sharedReport[v] + Cardinality(added) /\ sharedReport[v] \in Nat
    <3>1. CASE hit(v)
      BY <1>1, <1>2, <1>9, <2>6, <3>1
    <3>2. CASE ~hit(v)
      BY <1>1, <1>2, <1>9, <2>6, <3>2
    <3>. QED  BY <3>1, <3>2
  <2>8. /\ Cardinality(CountedIn(early, v)) <= sharedReport[v]
        /\ sharedReport[v] <= Cardinality(CountedIn(Recorders, v))
    BY DEF HistogramInv
  <2>. HIDE DEF added, now
  <2>9. sharedReport'[v] <= Cardinality(now(Recorders, v))
    <3>. DEFINE A == CountedIn(Recorders, v)
    <3>1. IsFiniteSet(A) /\ IsFiniteSet(added) /\ Cardinality(A) \in Nat /\ Cardinality(added) \in Nat
      BY <2>4, <2>5, Countable
    <3>2. now(Recorders, v) = A \cup added
      BY <2>1, <2>2
    <3>3. A \cap added = {}
      BY <2>3
    <3>. HIDE DEF A
    <3>4. Cardinality(A \cup added) = Cardinality(A) + Cardinality(added) - Cardinality(A \cap added)
      BY <3>1, FS_Union
    <3>5. Cardinality(A \cap added) = 0
      BY <3>3, FS_EmptySet
    <3>. QED  BY <2>7, <2>8, <3>1, <3>2, <3>4, <3>5 DEF A
  <2>10. Cardinality(now(early', v)) <= sharedReport'[v]
    <3>. DEFINE A == CountedIn(early', v)
                B == added \cap early'
    <3>1. early' \in SUBSET Recorders
      BY <1>6
    <3>2. /\ IsFiniteSet(A) /\ IsFiniteSet(B) /\ IsFiniteSet(added) /\ IsFiniteSet(A \cap B)
          /\ Cardinality(A) \in Nat /\ Cardinality(B) \in Nat
          /\ Cardinality(added) \in Nat /\ Cardinality(A \cap B) \in Nat
      <4>1. A \in SUBSET Waiters /\ B \in SUBSET Waiters /\ A \cap B \in SUBSET Waiters
        BY <2>4, <2>5, <3>1
      <4>. QED  BY <4>1, <2>5, Countable
    <3>3. now(early', v) = A \cup B
      BY <2>2, <3>1
    <3>4. Cardinality(A) <= sharedReport[v]
      <4>1. CASE cursor = <<0, 0>>
        <5>1. A = {}
          BY <1>8, <3>1, <4>1 DEF CountedIn
        <5>. QED  BY <2>7, <5>1, FS_EmptySet
      <4>2. CASE cursor # <<0, 0>>
        BY <1>1, <2>8, <4>2
      <4>. QED  BY <4>1, <4>2
    <3>5. Cardinality(B) <= Cardinality(added)
      BY <3>2, FS_Subset
    <3>. HIDE DEF A, B
    <3>6. Cardinality(A \cup B) = Cardinality(A) + Cardinality(B) - Cardinality(A \cap B)
      BY <3>2, FS_Union
    <3>. QED  BY <2>7, <3>2, <3>3, <3>4, <3>5, <3>6
  <2>. QED  BY <2>9, <2>10
<1>11. sharedReport' \in [0..Highest -> Nat]
  <2>1. shared[i][index] \in Nat
    BY <1>3, <1>9, Countable
  <2>2. CASE shared[i][index] = 0
    BY <1>1, <1>2, <2>2
  <2>3. CASE shared[i][index] # 0
    <3>. DEFINE x == ValueForIndex(index)
                n == shared[i][index]
    <3>1. sharedReport' = [sharedReport EXCEPT ![x] = @ + n] /\ n \in Nat
      BY <1>1, <2>1, <2>3
    <3>. HIDE DEF x, n
    <3>2. \A y \in 0..Highest : sharedReport[y] \in Nat /\ sharedReport[y] + n \in Nat
      BY <1>2, <3>1
    <3>. QED  BY <1>2, <3>1, <3>2
  <2>. QED  BY <2>2, <2>3
<1>12. \A v : CountedIn(early, v)' = now(early', v) /\ CountedIn(Recorders, v)' = now(Recorders, v)
  BY <1>1, <1>3 DEF CountedIn
<1>. HIDE DEF now
<1>13. \A v \in 0..Highest : /\ Cardinality(CountedIn(early, v)') <= sharedReport'[v]
                             /\ sharedReport'[v] <= Cardinality(CountedIn(Recorders, v)')
  BY <1>10, <1>12
<1>. QED  BY <1>1, <1>3, <1>5, <1>6, <1>7, <1>11, <1>13 DEF HistogramInv, Members, Indexes

\* Who records while the report is read changes the upper bounds only.
LEMMA HistogramKept ==
    ASSUME StatsShapes, HistogramInv, UNCHANGED <<sharedReport, cursor, early, command, number>>,
           Recorders \subseteq Recorders', Finished => Finished', Measured' = Measured,
           \A w \in Recorders : latency'[w] = latency[w]
    PROVE  HistogramInv'
<1>1. Recorders' \subseteq Waiters /\ early \subseteq Recorders
  BY DEF Recorders, HistogramInv
<1>2. ASSUME NEW w \in Recorders
      PROVE  Passed(w)' <=> Passed(w)
  BY <1>2 DEF Passed
<1>3. ASSUME NEW v \in 0..Highest
      PROVE  /\ Cardinality(CountedIn(early, v)') <= sharedReport[v]
             /\ sharedReport[v] <= Cardinality(CountedIn(Recorders, v)')
  <2>1. CountedIn(early, v)' = CountedIn(early, v)
    BY <1>1, <1>2 DEF CountedIn
  <2>2. CountedIn(Recorders, v) \subseteq CountedIn(Recorders, v)'
    BY <1>2 DEF CountedIn
  <2>3. CountedIn(Recorders, v)' \in SUBSET Waiters
    BY <1>1 DEF CountedIn
  <2>. DEFINE A == CountedIn(Recorders, v)
              B == CountedIn(Recorders, v)'
  <2>4. A \in SUBSET B /\ A \in SUBSET Waiters /\ B \in SUBSET Waiters
    BY <2>2, <2>3
  <2>. HIDE DEF A, B
  <2>5. IsFiniteSet(B) /\ Cardinality(A) \in Nat /\ Cardinality(B) \in Nat
    BY <2>4, Countable
  <2>6. Cardinality(A) <= Cardinality(B)
    BY <2>4, <2>5, FS_Subset
  <2>7. /\ Cardinality(CountedIn(early, v)) <= sharedReport[v]
        /\ sharedReport[v] <= Cardinality(A) /\ sharedReport[v] \in Nat
    BY DEF HistogramInv, A
  <2>. QED  BY <2>1, <2>5, <2>6, <2>7 DEF B
<1>. QED  BY <1>1, <1>3 DEF HistogramInv, Members, Indexes

\* The counters of the client's chunks, added up, are the latencies at their places.
LEMMA ClientReport ==
    ASSUME ChunkInv, CountInv, command = PerClient, \A w \in Waiters : pc[w] = "done"
    PROVE  [v \in 0..Highest |->
              LET here == {s \in Slots : slot[s] # None}
                  hits == {so \in here \X Offsets : ValueForIndex(so[1] * HalfCount + so[2]) = v}
              IN  SumFunction([so \in hits |-> count[slot[so[1]]][so[2]]])] = Expected
<1>. DEFINE here == {s \in Slots : slot[s] # None}
            hits(v) == {so \in here \X Offsets : ValueForIndex(so[1] * HalfCount + so[2]) = v}
            f(v) == [so \in hits(v) |-> count[slot[so[1]]][so[2]]]
            kind == [w \in Measured |-> <<SlotOf(w), OffsetOf(w)>>]
<1>1. Measured = Waiters /\ \A w \in Measured : latency[w] \in Int
  BY DEF Measured, CountInv, StatsShapes, PerClient
<1>2. ASSUME NEW w \in Measured
      PROVE  /\ SlotOf(w) \in here /\ OffsetOf(w) \in Offsets
             /\ CountsIndex(latency[w]) = SlotOf(w) * HalfCount + OffsetOf(w)
             /\ kind[w] = <<SlotOf(w), OffsetOf(w)>>
  <2>1. /\ SlotOf(w) \in Slots /\ OffsetOf(w) \in Offsets
        /\ CountsIndex(latency[w]) = HalfCount * SlotOf(w) + OffsetOf(w)
    BY <1>1, <1>2, PlaceInRange
  <2>2. slot[SlotOf(w)] # None
    BY <1>1, <1>2 DEF ChunkInv, WaiterInv
  <2>3. SlotOf(w) \in Nat
    BY <2>1 DEF Slots
  <2>4. HalfCount * SlotOf(w) = SlotOf(w) * HalfCount
    BY <2>3, Half, Times
  <2>5. CountsIndex(latency[w]) = SlotOf(w) * HalfCount + OffsetOf(w)
    BY <2>1, <2>4, Zenon
  <2>. QED  BY <2>1, <2>2, <2>5
<1>3. ASSUME NEW v \in 0..Highest
      PROVE  SumFunction(f(v)) = Cardinality(PlacedAt(Waiters, v))
  <2>1. IsFiniteSet(hits(v))
    <3>1. IsFiniteSet(Slots) /\ IsFiniteSet(Offsets)
      <4>1. CountsLength \div HalfCount \in Int
        BY CountsLengthAssumption, Half, Division
      <4>. QED  BY <4>1, Half, FS_Interval DEF Slots, Offsets
    <3>2. IsFiniteSet(Slots \X Offsets)
      BY <3>1, FS_Product
    <3>. QED  BY <3>2, FS_Subset
  <2>2. ASSUME NEW x \in hits(v)
        PROVE  f(v)[x] = Cardinality({w \in Measured : kind[w] = x})
    <3>1. PICK s \in here, offset \in Offsets : x = <<s, offset>>
      OBVIOUS
    <3>2. f(v)[x] = count[slot[s]][offset]
      BY <3>1
    <3>3. {w \in Measured : kind[w] = x} = AddedTo(s, offset)
      BY <1>1, <1>2, <3>1 DEF AddedTo
    <3>4. count[slot[s]][offset] = Cardinality(AddedTo(s, offset))
      BY <3>1 DEF ChunkInv, Shapes, SlotInv, InstalledInv
    <3>. QED  BY <3>2, <3>3, <3>4
  <2>3. \A w \in Measured : kind[w] \in hits(v) <=> ValueForIndex(CountsIndex(latency[w])) = v
    BY <1>2
  <2>4. DOMAIN f(v) = hits(v)
    OBVIOUS
  <2>5. \A w \in Measured : latency[w] \in Int
    BY <1>1
  <2>. HIDE DEF hits, f, kind, here
  <2>. QED  BY <2>5, <2>1, <2>2, <2>3, <2>4, CountedAtValue
<1>. HIDE DEF f
<1>4. [v \in 0..Highest |-> SumFunction(f(v))] = Expected
  BY <1>3 DEF Expected
<1>. QED  BY <1>4 DEF f

-----------------------------------------------------------------------------
(* The invariant, and what it says of the reports.                         *)

\* Nobody records once all have: what a report was written from stays.
LEMMA FinishedStays ==
    ASSUME ReportInv, UNCHANGED report,
           Finished => Finished' /\ Expected' = Expected /\ command' = command
    PROVE  ReportInv'
BY DEF ReportInv, NoReport

\* A waiter on its way through the chunks has recorded, and still has after it.
LEMMA RecordSteps ==
    ASSUME ChunkInv, NEW w \in Waiters, Record(w)
    PROVE  /\ ~Finished /\ Recorders' = Recorders
           /\ latency' = latency /\ report' = report
<1>1. pc \in [Waiters -> Labels]
  BY DEF ChunkInv, Shapes
<1>2. /\ pc[w] \in {"load", "install", "reload", "add"}
      /\ \E to \in {"install", "add", "reload", "done"} : pc' = [pc EXCEPT ![w] = to]
      /\ latency' = latency /\ report' = report
  BY DEF Record, Load, InstallChunk, UseTheirs, Add, Goto
<1>3. ~Finished
  BY <1>2 DEF Finished
<1>. QED  BY <1>1, <1>2, <1>3 DEF Recorders

\* Nothing but the reports is left to change once all have recorded.
LEMMA ReportSteps ==
    ASSUME UNCHANGED <<latency, pc, command, number, payload, arrivedAt>>
    PROVE  /\ Recorders' = Recorders /\ Finished' = Finished
           /\ Measured' = Measured /\ Expected' = Expected
<1>1. Measured' = Measured
  BY DEF Measured
<1>. QED  BY <1>1 DEF Recorders, Finished, Expected, PlacedAt

\* The counters, the messages and the reports agree in every state of every run.
THEOREM StatsInvariant == StatsSpec => []StatsInv
<1>1. ASSUME StatsInit
      PROVE  StatsInv
  <2>1. /\ command \in {"pub", PerClient, "sub"} /\ pc = [w \in Waiters |-> "measure"]
        /\ report = NoReport /\ sharedReport = [v \in 0..Highest |-> 0]
        /\ cursor = <<0, 0>> /\ early = {}
        /\ shared = [i \in Members |-> [index \in Indexes |-> 0]]
        /\ withoutTimestamp = 0 /\ negativeLatency = 0
    BY <1>1 DEF StatsInit, Empty
  <2>2. StatsShapes
    <3>1. Numbers \subseteq Nat
      BY DEF Numbers
    <3>2. shared \in [Members -> [Indexes -> Nat]] /\ withoutTimestamp \in Nat /\ negativeLatency \in Nat
      BY <2>1
    <3>3. CASE command = "sub"
      <4>1. /\ latency = [w \in Waiters |-> 0] /\ number \in [Waiters -> Numbers]
            /\ payload \in [Waiters -> Payloads] /\ arrivedAt \in [Waiters -> Arrivals]
        BY <1>1, <3>3 DEF StatsInit
      <4>2. number \in [Waiters -> Nat] /\ arrivedAt \in [Waiters -> Int]
        BY <3>1, <4>1, MessagesAssumption
      <4>. QED  BY <3>2, <4>1, <4>2 DEF StatsShapes
    <3>4. CASE command # "sub"
      <4>1. /\ latency \in [Waiters -> Latencies]
            /\ number \in [Waiters -> Numbers] \/ number = [w \in Waiters |-> 1]
        BY <1>1, <3>4 DEF StatsInit
      <4>2. latency \in [Waiters -> Int]
        BY <4>1, LatenciesAssumption
      <4>3. CASE number \in [Waiters -> Numbers]
        BY <3>1, <3>2, <3>4, <4>2, <4>3 DEF StatsShapes
      <4>4. CASE number = [w \in Waiters |-> 1]
        BY <3>2, <3>4, <4>2, <4>4 DEF StatsShapes
      <4>. QED  BY <4>1, <4>3, <4>4
    <3>. QED  BY <3>3, <3>4
  <2>3. Recorders = {}
    BY <2>1 DEF Recorders
  <2>4. ASSUME NEW i \in Members, NEW index \in Indexes
        PROVE  shared[i][index] = Cardinality(RecordedAt(i, index))
    <3>1. RecordedAt(i, index) = {}
      BY <2>3 DEF RecordedAt
    <3>. QED  BY <2>1, <3>1, FS_EmptySet
  <2>5. MessagesInv
    BY <2>1, <2>3, FS_EmptySet DEF MessagesInv
  <2>6. HistogramInv
    <3>1. \A v : CountedIn(early, v) = {} /\ CountedIn(Recorders, v) = {}
      BY <2>1, <2>3 DEF CountedIn
    <3>2. 0 \in Members /\ 0 \in Indexes
      <4>1. CountsIndex(Highest) \in Int /\ CountsIndex(Highest) >= 0
        BY IndexInRange, HighestAssumption
      <4>. QED  BY <4>1, SetSizeAssumption, CountsLengthAssumption DEF Members, Indexes
    <3>3. sharedReport \in [0..Highest -> Nat] /\ \A v \in 0..Highest : sharedReport[v] = 0
      BY <2>1
    <3>4. Cardinality({}) = 0
      BY FS_EmptySet
    <3>5. cursor \in (Members \X Indexes) \cup {<<SetSize, 0>>}
      BY <2>1, <3>2
    <3>6. early \subseteq Recorders /\ cursor = <<0, 0>>
      BY <2>1
    <3>7. \A v \in 0..Highest : /\ Cardinality(CountedIn(early, v)) <= sharedReport[v]
                                /\ sharedReport[v] <= Cardinality(CountedIn(Recorders, v))
      BY <3>1, <3>3, <3>4
    <3>. QED  BY <3>3, <3>5, <3>6, <3>7 DEF HistogramInv
  <2>. QED  BY <2>1, <2>2, <2>4, <2>5, <2>6 DEF StatsInv, CountersInv, ReportInv
<1>2. ASSUME ChunkInv, StatsInv, [StatsNext]_allVars
      PROVE  StatsInv'
  <2>. USE <1>2 DEF StatsInv
  <2>1. CountInv
    BY DEF CountInv
  <2>2. ASSUME NEW w \in Waiters, RecordAck(w) \/ RecordLatency(w)
        PROVE  StatsInv'
    <3>1. pc[w] = "measure" /\ UNCHANGED <<report, sharedReport, cursor, early>>
      BY <2>2 DEF RecordAck, RecordLatency, Goes, chunkedVars, reportVars
    <3>2. ~Finished
      BY <3>1 DEF Finished
    <3>3. ReportInv'
      BY <3>1, <3>2, FinishedStays
    <3>4. CountInv'
      BY <2>1, <2>2, AckInv, LatencyInv
    <3>5. Records(w)
      BY <2>2 DEF StatsShapes, RecordAck, RecordLatency, Goes, messageVars, Records, Labels
    <3>6. /\ w \notin Recorders /\ Recorders' = Recorders \cup {w} /\ Measured' = Measured
          /\ Recorders \subseteq Waiters
      BY <1>2, <3>5, Joined DEF Recorders
    <3>7. /\ command' = command /\ number' = number
          /\ \A v \in Recorders : latency'[v] = latency[v]
      BY <3>5, <3>6 DEF Records
    <3>8. HistogramInv'
      BY <3>1, <3>2, <3>6, <3>7, HistogramKept
    <3>. QED  BY <3>3, <3>4, <3>8 DEF CountInv
  <2>3. ASSUME NEW w \in Waiters, Record(w), UNCHANGED <<messageVars, statsVars>>
        PROVE  StatsInv'
    <3>1. /\ ~Finished /\ Recorders' = Recorders /\ latency' = latency /\ report' = report
          /\ UNCHANGED <<command, number, payload, arrivedAt>>
          /\ UNCHANGED <<shared, withoutTimestamp, negativeLatency, sharedReport, cursor, early>>
      BY <2>3, RecordSteps DEF messageVars, statsVars, reportVars
    <3>2. ReportInv'
      BY <3>1, FinishedStays
    <3>3. CountInv'
      BY <2>1, <3>1, SameInv
    <3>4. Measured' = Measured
      BY <3>1 DEF Measured
    <3>5. HistogramInv'
      BY <3>1, <3>4, HistogramKept
    <3>. QED  BY <3>2, <3>3, <3>5 DEF CountInv
  <2>4. CASE AddToShared
    <3>1. /\ UNCHANGED <<latency, pc, command, number, payload, arrivedAt, report>>
          /\ UNCHANGED <<shared, withoutTimestamp, negativeLatency>>
      BY <2>4 DEF AddToShared, AddCount, vars, messageVars
    <3>2. Recorders' = Recorders /\ Finished' = Finished /\ Expected' = Expected
      BY <3>1, ReportSteps
    <3>3. ReportInv'
      BY <3>1, <3>2, FinishedStays
    <3>4. CountInv'
      BY <2>1, <3>1, <3>2, SameInv
    <3>5. HistogramInv'
      BY <2>1, <2>4, AddKept
    <3>. QED  BY <3>3, <3>4, <3>5 DEF CountInv
  <2>5. CASE command = PerClient /\ AddTo /\ UNCHANGED <<messageVars, statsVars>>
    <3>1. /\ UNCHANGED <<latency, pc, command, number, payload, arrivedAt>>
          /\ UNCHANGED <<shared, withoutTimestamp, negativeLatency, sharedReport, cursor, early>>
      BY <2>5 DEF AddTo, messageVars, statsVars, reportVars
    <3>2. /\ Recorders' = Recorders /\ Finished' = Finished /\ Expected' = Expected
          /\ Measured' = Measured
      BY <3>1, ReportSteps
    <3>3. command = PerClient /\ Finished /\ report' = Expected
      BY <2>1, <2>5, ClientReport DEF AddTo, Finished
    <3>4. ReportInv'
      BY <3>1, <3>2, <3>3 DEF ReportInv, NoReport
    <3>5. CountInv'
      BY <2>1, <3>1, <3>2, SameInv
    <3>6. HistogramInv'
      BY <3>1, <3>2, HistogramKept
    <3>. QED  BY <3>4, <3>5, <3>6 DEF CountInv
  <2>6. CASE UNCHANGED allVars
    <3>1. /\ UNCHANGED <<latency, pc, command, number, payload, arrivedAt, report>>
          /\ UNCHANGED <<shared, withoutTimestamp, negativeLatency, sharedReport, cursor, early>>
      BY <2>6 DEF allVars, vars, messageVars, statsVars, reportVars
    <3>2. /\ Recorders' = Recorders /\ Finished' = Finished /\ Expected' = Expected
          /\ Measured' = Measured
      BY <3>1, ReportSteps
    <3>3. ReportInv'
      BY <3>1, <3>2, FinishedStays
    <3>4. CountInv'
      BY <2>1, <3>1, <3>2, SameInv
    <3>5. HistogramInv'
      BY <3>1, <3>2, HistogramKept
    <3>. QED  BY <3>3, <3>4, <3>5 DEF CountInv
  <2>. QED  BY <2>2, <2>3, <2>4, <2>5, <2>6 DEF StatsNext
<1>. QED  BY <1>1, <1>2, ChunksInOrder, PTL DEF StatsSpec

\* No counter exceeds the number of waiters, and no slot or offset lies outside its
\* array, where the code would panic.
THEOREM TypeCorrect == StatsSpec => []TypeOK
<1>1. ASSUME ChunkInv, StatsInv
      PROVE  TypeOK
  <2>1. Shapes /\ SlotInv /\ latency \in [Waiters -> Int]
    BY <1>1 DEF ChunkInv, StatsInv, StatsShapes
  <2>2. \A w \in Waiters : SlotOf(w) \in Slots /\ OffsetOf(w) \in Offsets
    BY <2>1, PlaceInRange
  <2>3. Cardinality(Waiters) \in Nat
    BY WaitersAssumption, FS_CardinalityType
  <2>4. ASSUME NEW w \in Waiters, NEW offset \in Offsets
        PROVE  count[w][offset] \in 0..Cardinality(Waiters)
    <3>1. count[w][offset] \in Nat
      BY <2>1 DEF Shapes
    <3>2. CASE \A s \in Slots : slot[s] # w
      BY <2>1, <2>3, <3>2 DEF SlotInv, SpareInv
    <3>3. ASSUME NEW s \in Slots, slot[s] = w
          PROVE  count[w][offset] <= Cardinality(Waiters)
      <4>1. count[w][offset] = Cardinality(AddedTo(s, offset))
        BY <2>1, <3>3 DEF SlotInv, InstalledInv
      <4>2. AddedTo(s, offset) \subseteq Waiters
        BY DEF AddedTo
      <4>. QED  BY <4>1, <4>2, WaitersAssumption, FS_Subset
    <3>. QED  BY <2>3, <3>1, <3>2, <3>3
  <2>5. count \in [Waiters -> [Offsets -> 0..Cardinality(Waiters)]]
    BY <2>1, <2>4 DEF Shapes
  <2>. QED  BY <2>1, <2>2, <2>5 DEF TypeOK, Shapes, Labels
<1>. QED  BY <1>1, ChunksInOrder, StatsInvariant, PTL

\* Whatever the geometry, the latencies, the number of waiters and the order they
\* record in, a report of pub has every latency once, at its place; that of sub has
\* each at its place too, none twice, and all that were recorded before it was read.
THEOREM ReportsMatchLayout == StatsSpec => []ReportMatchesLayout
<1>1. ASSUME StatsInv, Reported
      PROVE  /\ \A v \in 0..Highest :
                   sharedReport[v]
                     \in Cardinality(PlacedAt(early, v))..Cardinality(PlacedAt(Recorders, v))
             /\ command # "sub" => sharedReport = Expected
  <2>1. HistogramInv /\ StatsShapes /\ cursor = <<SetSize, 0>>
    BY <1>1 DEF StatsInv, Reported
  <2>2. Recorders \subseteq Waiters /\ early \subseteq Recorders
    BY <2>1 DEF Recorders, HistogramInv
  <2>3. ASSUME NEW w \in Recorders
        PROVE  Passed(w) /\ ValueForIndex(CountsIndex(latency[w])) = Placed(latency[w])
    <3>1. w \in Waiters /\ latency[w] \in Int
      BY <2>1, <2>2 DEF StatsShapes
    <3>2. ForClient(number[w]) \in Members
      BY <2>1, <3>1, CounterInRange
    <3>3. Passed(w)
      BY <2>1, <3>2, SetSizeAssumption DEF Passed, Members
    <3>. QED  BY <3>1, <3>3, PlacedByLayout
  <2>4. ASSUME NEW W \in SUBSET Recorders, NEW v
        PROVE  CountedIn(W, v) = PlacedAt(W, v) /\ Cardinality(PlacedAt(W, v)) \in Nat
    <3>1. CountedIn(W, v) = PlacedAt(W, v)
      BY <2>3 DEF CountedIn, PlacedAt
    <3>2. PlacedAt(W, v) \in SUBSET Waiters
      BY <2>2 DEF PlacedAt
    <3>. QED  BY <3>1, <3>2, Countable
  <2>5. ASSUME NEW v \in 0..Highest
        PROVE  /\ sharedReport[v] \in Nat
               /\ Cardinality(PlacedAt(early, v)) <= sharedReport[v]
               /\ sharedReport[v] <= Cardinality(PlacedAt(Recorders, v))
               /\ Cardinality(PlacedAt(early, v)) \in Nat
               /\ Cardinality(PlacedAt(Recorders, v)) \in Nat
    BY <2>1, <2>2, <2>4 DEF HistogramInv
  <2>6. ASSUME command # "sub"
        PROVE  sharedReport = Expected
    <3>1. early = Waiters /\ Recorders = Waiters
      BY <2>1, <2>6, SetSizeAssumption DEF HistogramInv, Finished, Recorders
    <3>2. \A v \in 0..Highest : sharedReport[v] = Cardinality(PlacedAt(Waiters, v))
      BY <2>5, <3>1
    <3>3. sharedReport \in [0..Highest -> Nat]
      BY <2>1 DEF HistogramInv
    <3>. QED  BY <3>2, <3>3 DEF Expected
  <2>. QED  BY <2>5, <2>6
<1>2. ASSUME StatsInv
      PROVE  ReportMatchesLayout
  BY <1>1, <1>2 DEF StatsInv, ReportInv, ReportMatchesLayout
<1>. QED  BY <1>2, StatsInvariant, PTL

\* Whatever sub receives, it counts every message once, by what its digits say;
\* and it reads back every timestamp that pub can write.
THEOREM TimestampsAreRead == StatsSpec => []TimestampsRead
<1>1. ASSUME StatsInv, command = "sub"
      PROVE  /\ withoutTimestamp = Cardinality({w \in Recorders : ~HasTimestamp(payload[w])})
             /\ withoutTimestamp + negativeLatency + Cardinality(Recorders \cap Measured)
                   = Cardinality(Recorders)
             /\ \A w \in Recorders \cap Measured : latency[w] = arrivedAt[w] - Stated(payload[w])
  <2>. DEFINE without == Recorders \cap Without
              ahead == Recorders \cap Ahead
              measured == Recorders \cap Measured
  <2>1. /\ MessagesInv /\ StatsShapes /\ Recorders \subseteq Waiters
        /\ without = {w \in Recorders : ~HasTimestamp(payload[w])}
    BY <1>1 DEF StatsInv, Recorders, Without
  <2>2. /\ withoutTimestamp = Cardinality(without) /\ negativeLatency = Cardinality(ahead)
        /\ \A w \in measured : latency[w] = arrivedAt[w] - Stated(payload[w])
    BY <1>1, <2>1 DEF MessagesInv
  <2>3. \A w \in Recorders : /\ w \in ahead <=> w \notin without /\ w \notin measured
                             /\ w \in measured => w \notin without
    <3>. SUFFICES ASSUME NEW w \in Recorders
                  PROVE  /\ w \in ahead <=> w \notin without /\ w \notin measured
                         /\ w \in measured => w \notin without
      OBVIOUS
    <3>1. /\ arrivedAt[w] \in Int
          /\ w \in Ahead <=> w \notin Without /\ arrivedAt[w] - Stated(payload[w]) < 0
          /\ w \in Measured <=> w \notin Without /\ arrivedAt[w] - Stated(payload[w]) >= 0
          /\ BenchmarkTimestamp(payload[w]) \in Int
          /\ w \notin Without => BenchmarkTimestamp(payload[w]) = Stated(payload[w])
      BY <1>1, <2>1, MessageRead
    <3>. QED  BY <3>1
  <2>4. /\ without \cap ahead = {} /\ (without \cup ahead) \cap measured = {}
        /\ (without \cup ahead) \cup measured = Recorders
    BY <2>3
  <2>5. without \in SUBSET Waiters /\ ahead \in SUBSET Waiters /\ measured \in SUBSET Waiters
    BY <2>1
  <2>. HIDE DEF without, ahead, measured
  <2>6. /\ IsFiniteSet(without) /\ IsFiniteSet(ahead) /\ IsFiniteSet(measured)
        /\ Cardinality(without) \in Nat /\ Cardinality(ahead) \in Nat
        /\ Cardinality(measured) \in Nat
    BY <2>5, Countable
  <2>7. /\ IsFiniteSet(without \cup ahead)
        /\ Cardinality(without \cup ahead) = Cardinality(without) + Cardinality(ahead)
    <3>1. /\ IsFiniteSet(without \cup ahead)
          /\ Cardinality(without \cup ahead)
               = Cardinality(without) + Cardinality(ahead) - Cardinality(without \cap ahead)
      BY <2>6, FS_Union
    <3>2. Cardinality(without \cap ahead) = 0
      BY <2>4, FS_EmptySet
    <3>. QED  BY <2>6, <3>1, <3>2
  <2>8. Cardinality(Recorders) = Cardinality(without \cup ahead) + Cardinality(measured)
    <3>1. Cardinality((without \cup ahead) \cup measured)
            = Cardinality(without \cup ahead) + Cardinality(measured)
                - Cardinality((without \cup ahead) \cap measured)
      BY <2>6, <2>7, FS_Union
    <3>2. Cardinality((without \cup ahead) \cap measured) = 0
      BY <2>4, FS_EmptySet
    <3>3. Cardinality((without \cup ahead) \cup measured) = Cardinality(Recorders)
      BY <2>4, Zenon
    <3>. QED  BY <2>6, <2>7, <3>1, <3>2, <3>3
  <2>. QED  BY <2>1, <2>2, <2>6, <2>7, <2>8 DEF measured
<1>2. \A time \in 0..MaxInt : BenchmarkTimestamp(BenchmarkPayloadAt(time)) = time
  BY RoundTrip
<1>3. ASSUME StatsInv
      PROVE  TimestampsRead
  BY <1>1, <1>2, <1>3 DEF TimestampsRead
<1>. QED  BY <1>3, StatsInvariant, PTL

=============================================================================
