--------------------------- MODULE NumberTheorems ---------------------------
(* Numbers: the sums of the community module Functions over every finite    *)
(* set, which the totals of the clients' counters and the reports are, then *)
(* powers, least elements and quotients.                                    *)
EXTENDS Integers, Functions, FiniteSetTheorems, TLAPS

\* The element that the fold over s takes first.
First(s) == CHOOSE x \in s : TRUE

\* g is the table of the sums of f over the subsets of S.
IsSum(f, S, g) ==
    g = [s \in SUBSET S |-> IF s = {} THEN 0 ELSE f[First(s)] + g[s \ {First(s)}]]

-----------------------------------------------------------------------------
(* Induction over the subsets of a finite set: of those for which a         *)
(* statement fails there is a smallest one.                                 *)

\* A set of subsets of a finite set has a member with no smaller one in it.
LEMMA Smallest ==
    ASSUME NEW S, IsFiniteSet(S), NEW T, T \subseteq SUBSET S, T # {}
    PROVE  \E s \in T : \A t \in T : t \subseteq s => t = s
<1>1. IsWellFoundedOn(StrictSubsetOrdering(S), FiniteSubsetsOf(S))
  BY FS_StrictSubsetOrderingWellFounded
<1>2. T \subseteq FiniteSubsetsOf(S)
  BY FS_Subset DEF FiniteSubsetsOf
<1>3. \E s \in T : \A t \in T : ~(<<t, s>> \in StrictSubsetOrdering(S))
  BY <1>1, <1>2, WFMin
<1>. QED  BY <1>3 DEF StrictSubsetOrdering

\* First chooses an element.
LEMMA FirstIsIn == \A s : s # {} => First(s) \in s
BY DEF First

-----------------------------------------------------------------------------
(* The recursive function behind a sum exists and is unique.                *)

\* The library's sum is an entry of a table of sums.
LEMMA SumIsEntry == \A f, S : SumFunctionOnSet(f, S) = (CHOOSE g : IsSum(f, S, g))[S]
BY DEF SumFunctionOnSet, FoldFunctionOnSet, MapThenFoldSet, IsSum, First

\* Two tables of sums agree where both have an entry.
LEMMA SumUnique ==
    ASSUME NEW S, IsFiniteSet(S), NEW T \in SUBSET S, NEW f, NEW g, NEW h,
           IsSum(f, S, g), IsSum(f, T, h)
    PROVE  \A s \in SUBSET T : g[s] = h[s]
<1>. DEFINE Bad == {s \in SUBSET T : g[s] # h[s]}
<1>. SUFFICES ASSUME Bad # {}
              PROVE  FALSE
  OBVIOUS
<1>1. PICK s \in Bad : \A t \in Bad : t \subseteq s => t = s
  <2>1. Bad \subseteq SUBSET S
    OBVIOUS
  <2>. HIDE DEF Bad
  <2>. QED  BY <2>1, Smallest
<1>2. s # {} /\ s \in SUBSET T /\ s \in SUBSET S
  BY <1>1 DEF IsSum
<1>3. First(s) \in s
  BY <1>2, FirstIsIn
<1>4. g[s \ {First(s)}] = h[s \ {First(s)}]
  BY <1>1, <1>2, <1>3
<1>5. g[s] = f[First(s)] + g[s \ {First(s)}]
  BY <1>2 DEF IsSum
<1>6. h[s] = f[First(s)] + h[s \ {First(s)}]
  BY <1>2 DEF IsSum
<1>. QED  BY <1>1, <1>4, <1>5, <1>6

\* Every set has a table, and its entries are the sums over its subsets.
LEMMA SumExists ==
    ASSUME NEW S, IsFiniteSet(S), NEW f
    PROVE  \E g : IsSum(f, S, g)
<1>. DEFINE Bad == {s \in SUBSET S : ~ \E g : IsSum(f, s, g)}
<1>. SUFFICES ASSUME Bad # {}
              PROVE  FALSE
  BY DEF Bad
<1>1. PICK s \in Bad : \A t \in Bad : t \subseteq s => t = s
  <2>1. Bad \subseteq SUBSET S
    OBVIOUS
  <2>. HIDE DEF Bad
  <2>. QED  BY <2>1, Smallest
<1>. DEFINE g == [t \in SUBSET s |-> IF t = {} THEN 0
                                     ELSE f[First(t)] + SumFunctionOnSet(f, t \ {First(t)})]
<1>2. ASSUME NEW t \in SUBSET s, t # s
      PROVE  g[t] = SumFunctionOnSet(f, t)
  <2>. DEFINE h == CHOOSE h : IsSum(f, t, h)
  <2>1. IsSum(f, t, h) /\ IsFiniteSet(t)
    BY <1>1, <1>2, FS_Subset
  <2>2. SumFunctionOnSet(f, t) = h[t]
    BY SumIsEntry
  <2>3. CASE t = {}
    BY <2>1, <2>2, <2>3 DEF IsSum
  <2>4. CASE t # {}
    <3>. DEFINE u == t \ {First(t)}
                k == CHOOSE k : IsSum(f, u, k)
    <3>1. u \in SUBSET t /\ u # s /\ u \in SUBSET s /\ First(t) \in t
      BY <1>2, <2>4, FirstIsIn
    <3>2. IsSum(f, u, k)
      BY <1>1, <3>1
    <3>3. SumFunctionOnSet(f, u) = k[u]
      BY SumIsEntry
    <3>. HIDE DEF h, k
    <3>4. h[u] = k[u]
      BY <2>1, <3>1, <3>2, SumUnique
    <3>5. h[t] = f[First(t)] + h[u]
      BY <2>1, <2>4 DEF IsSum
    <3>. QED  BY <2>2, <2>4, <3>3, <3>4, <3>5
  <2>. QED  BY <2>3, <2>4
<1>3. IsSum(f, s, g)
  <2>1. ASSUME NEW t \in SUBSET s, t # {}
        PROVE  g[t \ {First(t)}] = SumFunctionOnSet(f, t \ {First(t)})
    <3>1. t \ {First(t)} # s /\ t \ {First(t)} \in SUBSET s
      BY <2>1, FirstIsIn
    <3>. QED  BY <1>2, <3>1
  <2>2. \A t \in SUBSET s :
            (IF t = {} THEN 0 ELSE f[First(t)] + SumFunctionOnSet(f, t \ {First(t)}))
              = (IF t = {} THEN 0 ELSE f[First(t)] + g[t \ {First(t)}])
    BY <2>1
  <2>. QED  BY <2>2 DEF IsSum
<1>. QED  BY <1>1, <1>3

\* A sum over no elements is 0; any other is that of one element and the rest.
THEOREM SumStep ==
    ASSUME NEW S, IsFiniteSet(S), NEW f
    PROVE  SumFunctionOnSet(f, S)
             = IF S = {} THEN 0 ELSE f[First(S)] + SumFunctionOnSet(f, S \ {First(S)})
<1>. DEFINE g == CHOOSE g : IsSum(f, S, g)
            T == S \ {First(S)}
            h == CHOOSE h : IsSum(f, T, h)
<1>1. IsSum(f, S, g) /\ SumFunctionOnSet(f, S) = g[S]
  BY SumExists, SumIsEntry
<1>2. IsSum(f, T, h) /\ SumFunctionOnSet(f, T) = h[T]
  <2>1. IsFiniteSet(T)
    BY FS_Subset
  <2>. QED  BY <2>1, SumExists, SumIsEntry
<1>. HIDE DEF g, h
<1>3. g[T] = h[T]
  BY <1>1, <1>2, SumUnique
<1>4. g[S] = IF S = {} THEN 0 ELSE f[First(S)] + g[T]
  BY <1>1 DEF IsSum
<1>. QED  BY <1>1, <1>2, <1>3, <1>4

\* A sum over no elements is 0.
LEMMA SumEmpty == \A f : SumFunctionOnSet(f, {}) = 0
BY SumStep, FS_EmptySet

-----------------------------------------------------------------------------
(* What a sum is, whatever the order of its elements.                      *)

\* Naturals add up to a natural.
THEOREM SumNat ==
    ASSUME NEW S, IsFiniteSet(S), NEW f, \A x \in S : f[x] \in Nat
    PROVE  SumFunctionOnSet(f, S) \in Nat
<1>. DEFINE Bad == {s \in SUBSET S : SumFunctionOnSet(f, s) \notin Nat}
<1>. SUFFICES ASSUME Bad # {}
              PROVE  FALSE
  OBVIOUS
<1>1. PICK s \in Bad : \A t \in Bad : t \subseteq s => t = s
  <2>1. Bad \subseteq SUBSET S
    OBVIOUS
  <2>. HIDE DEF Bad
  <2>. QED  BY <2>1, Smallest
<1>2. s \in SUBSET S /\ SumFunctionOnSet(f, s) \notin Nat /\ IsFiniteSet(s)
  BY <1>1, FS_Subset
<1>3. s # {}
  BY <1>2, SumEmpty
<1>4. First(s) \in s
  BY <1>3, FirstIsIn
<1>5. SumFunctionOnSet(f, s \ {First(s)}) \in Nat
  BY <1>1, <1>2, <1>4
<1>6. SumFunctionOnSet(f, s) = f[First(s)] + SumFunctionOnSet(f, s \ {First(s)})
  BY <1>2, <1>3, SumStep
<1>. QED  BY <1>2, <1>4, <1>5, <1>6

\* Any element can be taken out of the sum.
THEOREM SumRemove ==
    ASSUME NEW S, IsFiniteSet(S), NEW f, \A x \in S : f[x] \in Nat, NEW x \in S
    PROVE  SumFunctionOnSet(f, S) = f[x] + SumFunctionOnSet(f, S \ {x})
<1>. DEFINE Bad == {s \in SUBSET S : \E y \in s :
                      SumFunctionOnSet(f, s) # f[y] + SumFunctionOnSet(f, s \ {y})}
<1>. SUFFICES ASSUME Bad # {}
              PROVE  FALSE
  OBVIOUS
<1>1. PICK s \in Bad : \A t \in Bad : t \subseteq s => t = s
  <2>1. Bad \subseteq SUBSET S
    OBVIOUS
  <2>. HIDE DEF Bad
  <2>. QED  BY <2>1, Smallest
<1>2. PICK y \in s : SumFunctionOnSet(f, s) # f[y] + SumFunctionOnSet(f, s \ {y})
  BY <1>1
<1>. DEFINE z == First(s)
<1>3. s \in SUBSET S /\ IsFiniteSet(s) /\ z \in s
  BY <1>1, <1>2, FS_Subset, FirstIsIn
<1>4. SumFunctionOnSet(f, s) = f[z] + SumFunctionOnSet(f, s \ {z})
  BY <1>2, <1>3, SumStep
<1>. HIDE DEF z
<1>5. y # z
  BY <1>2, <1>4
<1>6. SumFunctionOnSet(f, s \ {z}) = f[y] + SumFunctionOnSet(f, (s \ {z}) \ {y})
  <2>1. s \ {z} \in SUBSET S /\ s \ {z} # s /\ y \in s \ {z}
    BY <1>3, <1>5
  <2>. QED  BY <1>1, <2>1
<1>7. SumFunctionOnSet(f, s \ {y}) = f[z] + SumFunctionOnSet(f, (s \ {y}) \ {z})
  <2>1. s \ {y} \in SUBSET S /\ s \ {y} # s /\ z \in s \ {y}
    BY <1>3, <1>5
  <2>. QED  BY <1>1, <2>1
<1>8. (s \ {z}) \ {y} = (s \ {y}) \ {z}
  OBVIOUS
<1>. DEFINE rest == SumFunctionOnSet(f, (s \ {z}) \ {y})
<1>9. f[y] \in Nat /\ f[z] \in Nat /\ rest \in Nat
  <2>1. (s \ {z}) \ {y} \in SUBSET S /\ IsFiniteSet((s \ {z}) \ {y})
    BY <1>3, FS_Subset
  <2>. QED  BY <1>3, <2>1, SumNat
<1>10. /\ SumFunctionOnSet(f, s) = f[z] + (f[y] + rest)
       /\ f[y] + SumFunctionOnSet(f, s \ {y}) = f[y] + (f[z] + rest)
  BY <1>4, <1>6, <1>7, <1>8
<1>. HIDE DEF rest
<1>11. f[z] + (f[y] + rest) = f[y] + (f[z] + rest)
  BY <1>9
<1>. QED  BY <1>2, <1>10, <1>11

\* Zeros add up to zero.
THEOREM SumZero ==
    ASSUME NEW S, IsFiniteSet(S), NEW f, \A x \in S : f[x] = 0
    PROVE  SumFunctionOnSet(f, S) = 0
<1>. DEFINE Bad == {s \in SUBSET S : SumFunctionOnSet(f, s) # 0}
<1>. SUFFICES ASSUME Bad # {}
              PROVE  FALSE
  OBVIOUS
<1>1. PICK s \in Bad : \A t \in Bad : t \subseteq s => t = s
  <2>1. Bad \subseteq SUBSET S
    OBVIOUS
  <2>. HIDE DEF Bad
  <2>. QED  BY <2>1, Smallest
<1>2. s \in SUBSET S /\ SumFunctionOnSet(f, s) # 0 /\ IsFiniteSet(s)
  BY <1>1, FS_Subset
<1>3. s # {}
  BY <1>2, SumEmpty
<1>4. First(s) \in s
  BY <1>3, FirstIsIn
<1>5. SumFunctionOnSet(f, s \ {First(s)}) = 0
  BY <1>1, <1>2, <1>4
<1>6. SumFunctionOnSet(f, s) = f[First(s)] + SumFunctionOnSet(f, s \ {First(s)})
  BY <1>2, <1>3, SumStep
<1>. QED  BY <1>2, <1>4, <1>5, <1>6

\* The sum of sums is the sum of both.
THEOREM SumPlus ==
    ASSUME NEW S, IsFiniteSet(S), NEW f, NEW g, NEW h,
           \A x \in S : g[x] \in Nat /\ h[x] \in Nat /\ f[x] = g[x] + h[x]
    PROVE  SumFunctionOnSet(f, S) = SumFunctionOnSet(g, S) + SumFunctionOnSet(h, S)
<1>. DEFINE Bad == {s \in SUBSET S : SumFunctionOnSet(f, s)
                                       # SumFunctionOnSet(g, s) + SumFunctionOnSet(h, s)}
<1>. SUFFICES ASSUME Bad # {}
              PROVE  FALSE
  OBVIOUS
<1>1. PICK s \in Bad : \A t \in Bad : t \subseteq s => t = s
  <2>1. Bad \subseteq SUBSET S
    OBVIOUS
  <2>. HIDE DEF Bad
  <2>. QED  BY <2>1, Smallest
<1>2. /\ s \in SUBSET S /\ IsFiniteSet(s)
      /\ SumFunctionOnSet(f, s) # SumFunctionOnSet(g, s) + SumFunctionOnSet(h, s)
  BY <1>1, FS_Subset
<1>3. s # {}
  <2>. SUFFICES ASSUME s = {}
                PROVE  FALSE
    OBVIOUS
  <2>1. /\ SumFunctionOnSet(f, s) = 0
        /\ SumFunctionOnSet(g, s) = 0
        /\ SumFunctionOnSet(h, s) = 0
    BY SumEmpty
  <2>. HIDE DEF Bad
  <2>2. SumFunctionOnSet(g, s) + SumFunctionOnSet(h, s) = 0
    BY <2>1
  <2>. QED  BY <1>2, <2>1, <2>2
<1>. DEFINE x == First(s)
            r == s \ {x}
<1>4. x \in s /\ r \in SUBSET S /\ r # s /\ r \subseteq s /\ IsFiniteSet(r)
  BY <1>2, <1>3, FirstIsIn, FS_Subset
<1>5. /\ SumFunctionOnSet(f, s) = f[x] + SumFunctionOnSet(f, r)
      /\ SumFunctionOnSet(g, s) = g[x] + SumFunctionOnSet(g, r)
      /\ SumFunctionOnSet(h, s) = h[x] + SumFunctionOnSet(h, r)
  BY <1>2, <1>3, SumStep
<1>6. SumFunctionOnSet(f, r) = SumFunctionOnSet(g, r) + SumFunctionOnSet(h, r)
  BY <1>1, <1>4
<1>7. SumFunctionOnSet(g, r) \in Nat /\ SumFunctionOnSet(h, r) \in Nat
  BY <1>4, SumNat
<1>8. g[x] \in Nat /\ h[x] \in Nat /\ f[x] = g[x] + h[x]
  BY <1>2, <1>4
<1>. HIDE DEF x, r
<1>. QED  BY <1>2, <1>5, <1>6, <1>7, <1>8

\* Functions with the same values have the same sum.
THEOREM SumSame ==
    ASSUME NEW S, IsFiniteSet(S), NEW f, NEW g,
           \A x \in S : f[x] \in Nat /\ f[x] = g[x]
    PROVE  SumFunctionOnSet(f, S) = SumFunctionOnSet(g, S)
<1>. DEFINE zero == [x \in S |-> 0]
<1>1. SumFunctionOnSet(g, S) = SumFunctionOnSet(f, S) + SumFunctionOnSet(zero, S)
  BY SumPlus
<1>2. SumFunctionOnSet(zero, S) = 0
  BY SumZero
<1>3. SumFunctionOnSet(f, S) \in Nat
  BY SumNat
<1>. QED  BY <1>1, <1>2, <1>3

\* Greater values have a greater sum.
THEOREM SumMonotone ==
    ASSUME NEW S, IsFiniteSet(S), NEW f, NEW g,
           \A x \in S : f[x] \in Nat /\ g[x] \in Nat /\ f[x] <= g[x]
    PROVE  SumFunctionOnSet(f, S) <= SumFunctionOnSet(g, S)
<1>. DEFINE d == [x \in S |-> g[x] - f[x]]
<1>1. \A x \in S : d[x] \in Nat /\ g[x] = f[x] + d[x]
  OBVIOUS
<1>. HIDE DEF d
<1>2. SumFunctionOnSet(g, S) = SumFunctionOnSet(f, S) + SumFunctionOnSet(d, S)
  BY <1>1, SumPlus
<1>3. SumFunctionOnSet(f, S) \in Nat /\ SumFunctionOnSet(d, S) \in Nat
  BY <1>1, SumNat
<1>. QED  BY <1>2, <1>3

\* What is counted by kind is counted as a whole: the members of W of each kind
\* in S add up to those of any kind in S.
THEOREM SumOfCounts ==
    ASSUME NEW W, IsFiniteSet(W), NEW S, IsFiniteSet(S), NEW kind, NEW f,
           \A x \in S : f[x] = Cardinality({w \in W : kind[w] = x})
    PROVE  SumFunctionOnSet(f, S) = Cardinality({w \in W : kind[w] \in S})
<1>. DEFINE Of(s) == {w \in W : kind[w] \in s}
            Bad == {s \in SUBSET S : SumFunctionOnSet(f, s) # Cardinality(Of(s))}
<1>. SUFFICES ASSUME Bad # {}
              PROVE  FALSE
  OBVIOUS
<1>1. PICK s \in Bad : \A t \in Bad : t \subseteq s => t = s
  <2>1. Bad \subseteq SUBSET S
    OBVIOUS
  <2>. HIDE DEF Bad
  <2>. QED  BY <2>1, Smallest
<1>2. s \in SUBSET S /\ SumFunctionOnSet(f, s) # Cardinality(Of(s)) /\ IsFiniteSet(s)
  BY FS_Subset
<1>3. \A t : IsFiniteSet(Of(t)) /\ Cardinality(Of(t)) \in Nat
  <2>. SUFFICES ASSUME NEW t
                PROVE  IsFiniteSet(Of(t)) /\ Cardinality(Of(t)) \in Nat
    OBVIOUS
  <2>1. Of(t) \subseteq W
    OBVIOUS
  <2>. HIDE DEF Of
  <2>. QED  BY <2>1, FS_Subset, FS_CardinalityType
<1>4. s # {}
  <2>1. Of({}) = {}
    OBVIOUS
  <2>. HIDE DEF Of
  <2>. QED  BY <1>2, <2>1, SumEmpty, FS_EmptySet
<1>5. PICK x \in s : TRUE
  BY <1>4
<1>. DEFINE t == s \ {x}
<1>6. SumFunctionOnSet(f, t) = Cardinality(Of(t))
  <2>1. t \notin Bad
    BY <1>1, <1>5
  <2>. QED  BY <1>2, <2>1
<1>7. f[x] = Cardinality(Of({x}))
  BY <1>2, <1>5
<1>8. Of(s) = Of({x}) \cup Of(t) /\ Of({x}) \cap Of(t) = {}
  BY <1>5
<1>9. \A y \in s : f[y] \in Nat
  <2>. SUFFICES ASSUME NEW y \in s
                PROVE  f[y] \in Nat
    OBVIOUS
  <2>1. f[y] = Cardinality(Of({y}))
    BY <1>2
  <2>. HIDE DEF Of
  <2>. QED  BY <1>3, <2>1
<1>10. SumFunctionOnSet(f, s) = f[x] + SumFunctionOnSet(f, t)
  BY <1>2, <1>5, <1>9, SumRemove
<1>. HIDE DEF Of, t
<1>11. Cardinality(Of(s)) = Cardinality(Of({x})) + Cardinality(Of(t))
  <2>. DEFINE A == Of({x})
              B == Of(t)
              C == Of(s)
  <2>1. IsFiniteSet(A) /\ IsFiniteSet(B) /\ Cardinality(A) \in Nat /\ Cardinality(B) \in Nat
    BY <1>3
  <2>2. C = A \cup B /\ A \cap B = {}
    BY <1>8
  <2>. HIDE DEF A, B, C
  <2>3. Cardinality(A \cup B) = Cardinality(A) + Cardinality(B) - Cardinality(A \cap B)
    BY <2>1, FS_Union
  <2>4. Cardinality({}) = 0
    BY FS_EmptySet
  <2>5. Cardinality(A \cap B) = 0
    BY <2>2, <2>4, Zenon
  <2>6. Cardinality(C) = Cardinality(A \cup B)
    BY <2>2, Zenon
  <2>7. Cardinality(C) = Cardinality(A) + Cardinality(B)
    BY <2>1, <2>3, <2>5, <2>6
  <2>. QED  BY <2>7 DEF A, B, C
<1>. QED  BY <1>2, <1>6, <1>7, <1>10, <1>11

-----------------------------------------------------------------------------
(* Powers of two.  The number of subsets of n things is 2^n, which is what  *)
(* the prover knows of powers.                                              *)

\* There are as many subsets of n things as the n-th power of two says.
LEMMA PowerIsSubsets ==
    ASSUME NEW n \in Nat
    PROVE  /\ IsFiniteSet(SUBSET (1..n))
           /\ 2^n = Cardinality(SUBSET (1..n)) /\ 2^n \in Nat
<1>1. IsFiniteSet(1..n) /\ Cardinality(1..n) = n
  BY FS_Interval
<1>. QED  BY <1>1, FS_SUBSET, FS_CardinalityType

\* The first power of two, and each next one.
LEMMA PowerStep ==
    /\ 2^0 = 1
    /\ \A n \in Nat : 2^(n + 1) = 2 * 2^n
<1>1. 2^0 = 1
  OBVIOUS
<1>2. ASSUME NEW n \in Nat
      PROVE  2^(n + 1) = 2 * 2^n
  <2>. DEFINE old == SUBSET (1..n)
              new == {s \cup {n + 1} : s \in old}
              f == [s \in old |-> s \cup {n + 1}]
  <2>1. SUBSET (1..(n + 1)) = old \cup new
    <3>1. ASSUME NEW s \in SUBSET (1..(n + 1)), n + 1 \in s
          PROVE  s \in new
      <4>1. s \ {n + 1} \in old /\ s = (s \ {n + 1}) \cup {n + 1}
        BY <3>1
      <4>. QED  BY <4>1
    <3>2. ASSUME NEW s \in SUBSET (1..(n + 1)), n + 1 \notin s
          PROVE  s \in old
      BY <3>2
    <3>3. old \subseteq SUBSET (1..(n + 1))
      OBVIOUS
    <3>4. ASSUME NEW s \in old
          PROVE  s \cup {n + 1} \in SUBSET (1..(n + 1))
      OBVIOUS
    <3>5. new \subseteq SUBSET (1..(n + 1))
      BY <3>4
    <3>. HIDE DEF old, new
    <3>. QED  BY <3>1, <3>2, <3>3, <3>5
  <2>2. old \cap new = {}
    <3>1. \A s \in new : n + 1 \in s
      OBVIOUS
    <3>2. \A s \in old : n + 1 \notin s
      OBVIOUS
    <3>. QED  BY <3>1, <3>2
  <2>3. f \in Bijection(old, new)
    <3>1. \A s, t \in old : s \cup {n + 1} = t \cup {n + 1} => s = t
      <4>. SUFFICES ASSUME NEW s \in old, NEW t \in old, s \cup {n + 1} = t \cup {n + 1}
                    PROVE  s = t
        OBVIOUS
      <4>1. n + 1 \notin s /\ n + 1 \notin t
        OBVIOUS
      <4>2. s = (s \cup {n + 1}) \ {n + 1} /\ t = (t \cup {n + 1}) \ {n + 1}
        BY <4>1
      <4>. QED  BY <4>2
    <3>2. f \in [old -> new]
      OBVIOUS
    <3>3. \A t \in new : \E s \in old : f[s] = t
      OBVIOUS
    <3>4. \A s, t \in old : f[s] = f[t] => s = t
      BY <3>1
    <3>. HIDE DEF f, old, new
    <3>. QED  BY <3>2, <3>3, <3>4 DEF Bijection, Injection, Surjection, IsInjective
  <2>4. IsFiniteSet(old) /\ Cardinality(old) = 2^n /\ 2^n \in Nat
    BY PowerIsSubsets
  <2>5. IsFiniteSet(new) /\ Cardinality(new) = 2^n
    <3>. HIDE DEF old, new, f
    <3>. QED  BY <2>3, <2>4, FS_Bijection DEF ExistsBijection
  <2>6. Cardinality(SUBSET (1..(n + 1))) = 2^(n + 1)
    BY PowerIsSubsets
  <2>. HIDE DEF old, new
  <2>7. Cardinality(old \cup new) = Cardinality(old) + Cardinality(new) - Cardinality(old \cap new)
    BY <2>4, <2>5, FS_Union
  <2>8. Cardinality(old \cap new) = 0
    BY <2>2, FS_EmptySet
  <2>9. 2^(n + 1) = Cardinality(old) + Cardinality(new) - 0
    BY <2>1, <2>6, <2>7, <2>8
  <2>. QED  BY <2>4, <2>5, <2>9
<1>. QED  BY <1>1, <1>2

\* A set of numbers that is not empty has a smallest one.
LEMMA Least ==
    ASSUME NEW T \in SUBSET Nat, T # {}
    PROVE  \E m \in T : \A k \in T : m <= k
<1>1. PICK n \in T : TRUE
  OBVIOUS
<1>. DEFINE I == 1..n
            B == {s \in SUBSET I : \E k \in T : s = 1..k}
<1>2. I \in B /\ IsFiniteSet(I) /\ B \subseteq SUBSET I
  BY <1>1, FS_Interval
<1>3. \E s \in B : \A t \in B : t \subseteq s => t = s
  <2>. HIDE DEF B, I
  <2>1. B # {}
    BY <1>2
  <2>. QED  BY <1>2, <2>1, Smallest
<1>4. PICK m \in T : /\ 1..m \in B
                     /\ \A t \in B : t \subseteq 1..m => t = 1..m
  BY <1>3
<1>5. ASSUME NEW k \in T, k < m
      PROVE  FALSE
  <2>1. 1..k \subseteq 1..m /\ 1..k # 1..m
    BY <1>5
  <2>. QED  BY <1>4, <1>5, <2>1
<1>. QED  BY <1>5

\* Powers of two are positive, and greater than their exponents.
LEMMA PowerExceeds == \A n \in Nat : 2^n \in Nat /\ n < 2^n
<1>. DEFINE Bad == {n \in Nat : ~(n < 2^n)}
<1>1. \A n \in Nat : 2^n \in Nat
  BY PowerIsSubsets
<1>2. Bad = {}
  <2>. SUFFICES ASSUME Bad # {}
                PROVE  FALSE
    OBVIOUS
  <2>1. PICK n \in Bad : \A k \in Bad : n <= k
    <3>1. Bad \in SUBSET Nat
      OBVIOUS
    <3>. HIDE DEF Bad
    <3>. QED  BY <3>1, Least
  <2>2. n # 0
    <3>1. 0 < 2^0
      BY PowerStep
    <3>. QED  BY <2>1, <3>1
  <2>3. n - 1 \in Nat /\ n - 1 < 2^(n - 1) /\ 2^(n - 1) \in Nat
    BY <1>1, <2>1, <2>2
  <2>4. 2^n = 2 * 2^(n - 1)
    <3>1. 2^((n - 1) + 1) = 2 * 2^(n - 1)
      BY <2>3, PowerStep
    <3>2. (n - 1) + 1 = n
      BY <2>1
    <3>. QED  BY <3>1, <3>2
  <2>. QED  BY <2>1, <2>3, <2>4
<1>. QED  BY <1>1, <1>2

\* Powers of two grow with their exponents.
LEMMA PowersInOrder ==
    ASSUME NEW m \in Nat, NEW n \in Nat, m <= n
    PROVE  2^m <= 2^n
<1>1. SUBSET (1..m) \subseteq SUBSET (1..n)
  OBVIOUS
<1>. QED  BY <1>1, PowerIsSubsets, FS_Subset

-----------------------------------------------------------------------------
(* Division.                                                               *)

\* A quotient and a remainder are what they should be.
LEMMA Divided ==
    ASSUME NEW d \in Nat \ {0}, NEW q \in Nat, NEW r \in 0..(d - 1)
    PROVE  (d * q + r) \div d = q /\ (d * q + r) % d = r
OBVIOUS

\* Products grow with their factors.
LEMMA Times ==
    ASSUME NEW d \in Nat, NEW x \in Nat, NEW y \in Nat
    PROVE  /\ d * x \in Nat /\ d * x = x * d /\ d * (x + 1) = d * x + d
           /\ x <= y => d * x <= d * y
OBVIOUS

\* Every number has a quotient and a remainder.
LEMMA Division ==
    ASSUME NEW a \in Nat, NEW d \in Nat \ {0}
    PROVE  /\ a \div d \in Nat /\ a % d \in 0..(d - 1)
           /\ a = d * (a \div d) + (a % d)
OBVIOUS

=============================================================================
