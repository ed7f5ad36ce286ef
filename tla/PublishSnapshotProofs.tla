----------------------- MODULE PublishSnapshotProofs -----------------------
(* Theorems about PublishSnapshot for every finite set of clients, message  *)
(* count, window, QoS, pacing and number of snapshots.                      *)
EXTENDS PublishSnapshot, PublishClientProofs, NumberTheorems

\* The counters of that name, as they stand.
Values(name) == [c \in Clients |-> Counter(c)[name]]

\* When a client's counter of that name is loaded, counted from its first load.
Turn(name) == CASE name = "published" -> 0
                [] name = "acked"     -> 1
                [] name = "failed"    -> 2
                [] name = "timedOut"  -> 3

\* The clients whose counter of that name is in the first n loads.
TakenIn(n, name) ==
    {c \in Clients : \E i \in 1..Len(Order) : Order[i] = c /\ 4 * (i - 1) + Turn(name) < n}
Taken(name) == TakenIn(loads, name)

-----------------------------------------------------------------------------
(* The inductive invariant.  Every sum is between what its counters were    *)
(* when the snapshot began and what they are now.  A sum that is not        *)
(* complete yet is compared with the counters it holds, and with those that *)
(* are still to come.                                                       *)

SnapshotTypes ==
    /\ loads \in -1..AllLoads
    /\ summary \in [Names -> Nat] /\ before \in [Names -> Nat]
    /\ previous \in [Names -> Nat] /\ growth \in [Names -> Nat]

\* What the reader has in hand, against the counters.
Reading(name) ==
    /\ previous[name] <= Totals[name]
    /\ loads # -1 =>
         /\ previous[name] <= before[name]
         /\ before[name] <= summary[name]
                              + SumFunctionOnSet(Values(name), Clients \ Taken(name))
         /\ summary[name] <= SumFunctionOnSet(Values(name), Taken(name))

SnapshotInv ==
    /\ IInv
    /\ SnapshotTypes
    /\ growth = previous
    /\ \A name \in Names : Reading(name)

-----------------------------------------------------------------------------
(* The order of the loads.                                                 *)

\* The clients are loaded one after the other, each of them once.
LEMMA OrderOfClients ==
    /\ Len(Order) \in Nat
    /\ \A i \in 1..Len(Order) : Order[i] \in Clients
    /\ \A i, j \in 1..Len(Order) : Order[i] = Order[j] => i = j
    /\ \A c \in Clients : \E i \in 1..Len(Order) : Order[i] = c
<1>. DEFINE n == Cardinality(Clients)
<1>1. n \in Nat /\ ExistsBijection(1..n, Clients)
  BY ClientsAssumption, FS_CardinalityType
<1>2. \E f \in [1..n -> Clients] : IsInjective(f)
  BY <1>1 DEF ExistsBijection, Bijection, Injection, IsInjective
<1>3. Order \in [1..n -> Clients] /\ IsInjective(Order)
  BY <1>2 DEF Order, SetToSeq
<1>. HIDE DEF n
<1>4. Len(Order) = n
  BY <1>1, <1>3
<1>5. \A i, j \in 1..n : Order[i] = Order[j] => i = j
  BY <1>3 DEF IsInjective
<1>6. \A c \in Clients : \E i \in 1..n : Order[i] = c
  <2>1. Order \in Injection(1..n, Clients)
    BY <1>3 DEF Injection
  <2>2. Cardinality(1..n) = n
    BY <1>1, FS_Interval
  <2>3. Order \in Surjection(1..n, Clients)
    BY <2>1, <2>2, ClientsAssumption, FS_Injection DEF n
  <2>. QED  BY <2>3 DEF Surjection
<1>. QED  BY <1>1, <1>3, <1>4, <1>5, <1>6

\* Four loads per client, in the order of the struct.
LEMMA OrderOfLoads ==
    /\ AllLoads = 4 * Len(Order) /\ AllLoads \in Nat
    /\ \A name \in Names : Turn(name) \in 0..3 /\ Counters[Turn(name) + 1] = name
<1>1. Len(Counters) = 4
  BY DEF Counters
<1>2. AllLoads = 4 * Len(Order)
  BY <1>1, OrderOfClients DEF AllLoads
<1>. QED  BY <1>2, OrderOfClients DEF Names, Turn, Counters

\* The next load takes one counter more: that of the client whose turn it is.
LEMMA NextLoad ==
    ASSUME loads \in 0..AllLoads - 1
    PROVE  /\ Owner \in Clients /\ Loaded \in Names
           /\ Owner \notin Taken(Loaded)
           /\ TakenIn(loads + 1, Loaded) = Taken(Loaded) \cup {Owner}
           /\ \A name \in Names \ {Loaded} : TakenIn(loads + 1, name) = Taken(name)
<1>. DEFINE i == (loads \div 4) + 1
            t == loads % 4
<1>1. /\ i \in 1..Len(Order) /\ t \in 0..3
      /\ loads = 4 * (i - 1) + t
  BY OrderOfClients, OrderOfLoads
<1>. HIDE DEF i, t
<1>2. Owner = Order[i] /\ Loaded = Counters[t + 1]
  BY DEF Owner, Loaded, i, t
<1>3. Owner \in Clients
  BY <1>1, <1>2, OrderOfClients
<1>4. Loaded \in Names /\ Turn(Loaded) = t
  BY <1>1, <1>2 DEF Counters, Names, Turn
<1>5. \A name \in Names \ {Loaded} : Turn(name) \in 0..3 /\ Turn(name) # t
  BY <1>4, OrderOfLoads
<1>6. ASSUME NEW j \in 1..Len(Order), NEW u \in 0..3
      PROVE  4 * (j - 1) + u < loads + 1 <=> \/ 4 * (j - 1) + u < loads
                                             \/ j = i /\ u = t
  BY <1>1, <1>6, OrderOfClients
<1>7. Owner \notin Taken(Loaded)
  BY <1>1, <1>2, <1>4, OrderOfClients DEF Taken, TakenIn
<1>8. TakenIn(loads + 1, Loaded) = Taken(Loaded) \cup {Owner}
  BY <1>1, <1>2, <1>3, <1>4, <1>6 DEF Taken, TakenIn
<1>9. ASSUME NEW name \in Names \ {Loaded}
      PROVE  TakenIn(loads + 1, name) = Taken(name)
  BY <1>5, <1>6, <1>9 DEF Taken, TakenIn
<1>. QED  BY <1>3, <1>4, <1>7, <1>8, <1>9

\* Nothing is taken before the first load, and everything after the last.
LEMMA TakenAtEnds ==
    ASSUME NEW name \in Names
    PROVE  TakenIn(0, name) = {} /\ TakenIn(AllLoads, name) = Clients
<1>1. Turn(name) \in 0..3 /\ AllLoads = 4 * Len(Order)
  BY OrderOfLoads
<1>2. \A i \in 1..Len(Order) : /\ ~(4 * (i - 1) + Turn(name) < 0)
                               /\ 4 * (i - 1) + Turn(name) < AllLoads
  BY <1>1, OrderOfClients
<1>. QED  BY <1>2, OrderOfClients DEF TakenIn

-----------------------------------------------------------------------------
(* Sums of counters.                                                       *)

\* A counter is a natural number, and so is the sum of any of them.
LEMMA SumsAreNatural ==
    ASSUME TypeOK, NEW name \in Names
    PROVE  /\ \A c \in Clients : Values(name)[c] \in Nat
           /\ \A S \in SUBSET Clients : SumFunctionOnSet(Values(name), S) \in Nat
           /\ Totals[name] = SumFunctionOnSet(Values(name), Clients)
<1>1. \A c \in Clients : Values(name)[c] \in Nat
  BY DEF TypeOK, Values, Counter, Names
<1>2. ASSUME NEW S \in SUBSET Clients
      PROVE  SumFunctionOnSet(Values(name), S) \in Nat
  <2>1. IsFiniteSet(S)
    BY ClientsAssumption, FS_Subset
  <2>. QED  BY <1>1, <2>1, SumNat
<1>3. Totals[name] = SumFunctionOnSet(Values(name), Clients)
  BY DEF Totals, SumFunction, Values
<1>. QED  BY <1>1, <1>2, <1>3

\* One counter more, or one less, in a sum.
LEMMA SumTakes ==
    ASSUME TypeOK, NEW name \in Names, NEW S \in SUBSET Clients, NEW c \in S
    PROVE  SumFunctionOnSet(Values(name), S)
             = Counter(c)[name] + SumFunctionOnSet(Values(name), S \ {c})
<1>1. IsFiniteSet(S)
  BY ClientsAssumption, FS_Subset
<1>2. \A d \in S : Values(name)[d] \in Nat
  BY SumsAreNatural
<1>3. SumFunctionOnSet(Values(name), S)
        = Values(name)[c] + SumFunctionOnSet(Values(name), S \ {c})
  BY <1>1, <1>2, SumRemove
<1>. QED  BY <1>3 DEF Values

\* No step of a client takes anything back from a counter.
LEMMA CountersGrow ==
    ASSUME TypeOK, TypeOK', [Next]_vars, NEW c \in Clients
    PROVE  /\ published[c] <= published'[c] /\ acked[c] <= acked'[c]
           /\ failed[c] <= failed'[c] /\ timedOut[c] <= timedOut'[c]
<1>. USE DEF TypeOK, counterVars
<1>1. ASSUME NEW d \in Clients, SendStep(d)
      PROVE  /\ published[c] <= published'[c] /\ acked[c] <= acked'[c]
             /\ failed[c] <= failed'[c] /\ timedOut[c] <= timedOut'[c]
  <2>1. CASE CountPublished(d)
    BY <2>1 DEF CountPublished
  <2>2. SendStep(d) => CountPublished(d) \/ UNCHANGED counterVars
    BY DEF SendStep, Start, Acquire, AcquireCancelled, Publish, Spawn,
           PauseOver, PauseCancelled, Drained, Disconnect
  <2>. QED  BY <1>1, <2>1, <2>2
<1>2. ASSUME NEW d \in Clients, NEW m \in Messages, WaitStep(d, m)
      PROVE  /\ published[c] <= published'[c] /\ acked[c] <= acked'[c]
             /\ failed[c] <= failed'[c] /\ timedOut[c] <= timedOut'[c]
  BY <1>2 DEF WaitStep, CountTimedOut, CountFailed, RecordLatency, CountAcked,
              Release, WaiterDone
<1>3. CASE UNCHANGED counterVars
  BY <1>3
<1>4. (Cancel \/ UNCHANGED vars) => UNCHANGED counterVars
  BY DEF Cancel, vars
<1>5. (\E d \in Clients, m \in Messages : BrokerAnswers(d, m)) => UNCHANGED counterVars
  BY DEF BrokerAnswers
<1>. QED  BY <1>1, <1>2, <1>3, <1>4, <1>5 DEF Next, Terminating

\* Nor from the sum of any of them.
LEMMA SumsGrow ==
    ASSUME TypeOK, TypeOK', [Next]_vars, NEW name \in Names, NEW S \in SUBSET Clients
    PROVE  SumFunctionOnSet(Values(name), S) <= SumFunctionOnSet(Values(name)', S)
<1>1. IsFiniteSet(S)
  BY ClientsAssumption, FS_Subset
<1>2. \A c \in Clients : Values(name)[c] \in Nat /\ Values(name)'[c] \in Nat
  BY DEF TypeOK, Values, Counter, Names
<1>3. \A c \in Clients : Values(name)[c] <= Values(name)'[c]
  BY CountersGrow DEF Values, Counter, Names
<1>. QED  BY <1>1, <1>2, <1>3, SumMonotone

-----------------------------------------------------------------------------
(* The steps of the reader.                                                *)

\* A snapshot begins with nothing taken, and everything still to come.
LEMMA BeginInv == SnapshotInv /\ BeginSnapshot => SnapshotInv'
<1>. SUFFICES ASSUME SnapshotInv, BeginSnapshot
              PROVE  SnapshotInv'
  OBVIOUS
<1>1. IInv /\ TypeOK /\ SnapshotTypes /\ UNCHANGED <<vars, previous, growth>>
  BY DEF SnapshotInv, IInv, LoopInv, BeginSnapshot
<1>2. IInv' /\ Totals' = Totals /\ \A name \in Names : Values(name)' = Values(name)
  BY <1>1, NextInv DEF vars, counterVars, Totals, Values, Counter
<1>3. Totals \in [Names -> Nat]
  BY <1>1, SumsAreNatural DEF Totals
<1>4. SnapshotTypes'
  BY <1>1, <1>3, OrderOfLoads DEF BeginSnapshot, SnapshotTypes, Zero
<1>5. ASSUME NEW name \in Names
      PROVE  Reading(name)'
  <2>1. Taken(name)' = {}
    BY TakenAtEnds DEF BeginSnapshot, Taken
  <2>2. /\ summary'[name] = 0 /\ before'[name] = Totals[name] /\ loads' = 0
        /\ previous[name] <= Totals[name] /\ previous' = previous
    BY DEF BeginSnapshot, Zero, SnapshotInv, Reading
  <2>3. /\ SumFunctionOnSet(Values(name), {}) = 0
        /\ SumFunctionOnSet(Values(name), Clients) = Totals[name] /\ Totals[name] \in Nat
    BY <1>1, <1>3, SumEmpty, SumsAreNatural
  <2>4. Clients \ {} = Clients
    OBVIOUS
  <2>. QED  BY <1>2, <2>1, <2>2, <2>3, <2>4 DEF Reading
<1>6. growth' = previous'
  BY <1>1 DEF SnapshotInv
<1>. QED  BY <1>2, <1>4, <1>5, <1>6 DEF SnapshotInv

\* A load moves one counter from those to come to those that are in the sum.
LEMMA LoadInv == SnapshotInv /\ LoadCounter => SnapshotInv'
<1>. SUFFICES ASSUME SnapshotInv, LoadCounter
              PROVE  SnapshotInv'
  OBVIOUS
<1>. DEFINE value == Counter(Owner)[Loaded]
<1>1. IInv /\ TypeOK /\ SnapshotTypes /\ UNCHANGED <<vars, before, previous, growth>>
  BY DEF SnapshotInv, IInv, LoopInv, LoadCounter, LoadInto
<1>2. /\ loads \in 0..AllLoads - 1 /\ loads' = loads + 1
      /\ summary' = [summary EXCEPT ![Loaded] = @ + value]
  BY DEF LoadCounter, LoadInto
<1>3. IInv' /\ Totals' = Totals /\ \A name \in Names : Values(name)' = Values(name)
  BY <1>1, NextInv DEF vars, counterVars, Totals, Values, Counter
<1>4. Owner \in Clients /\ Loaded \in Names
  BY <1>2, NextLoad
<1>5. value \in Nat /\ value = Values(Loaded)[Owner]
  BY <1>1, <1>4, SumsAreNatural DEF Values
<1>. HIDE DEF value
<1>6. SnapshotTypes'
  BY <1>1, <1>2, <1>4, <1>5, OrderOfLoads DEF SnapshotTypes
<1>7. ASSUME NEW name \in Names
      PROVE  Reading(name)'
  <2>. DEFINE T == Taken(name)
              U == TakenIn(loads + 1, name)
  <2>1. Taken(name)' = U
    BY <1>2 DEF Taken, TakenIn
  <2>2. T \in SUBSET Clients /\ U \in SUBSET Clients
    BY DEF Taken, TakenIn
  <2>3. /\ previous[name] <= Totals[name] /\ previous[name] <= before[name]
        /\ before[name] <= summary[name] + SumFunctionOnSet(Values(name), Clients \ T)
        /\ summary[name] <= SumFunctionOnSet(Values(name), T)
    BY <1>2 DEF SnapshotInv, Reading
  <2>. HIDE DEF T, U
  <2>4. CASE name # Loaded
    <3>1. U = T /\ summary'[name] = summary[name]
      BY <1>1, <1>2, <2>4, NextLoad DEF T, U, SnapshotTypes
    <3>. QED  BY <1>1, <1>3, <2>1, <2>3, <3>1 DEF Reading
  <2>5. CASE name = Loaded
    <3>1. Owner \notin T /\ U = T \cup {Owner} /\ summary'[name] = summary[name] + value
      BY <1>1, <1>2, <2>5, NextLoad DEF T, U, SnapshotTypes
    <3>2. SumFunctionOnSet(Values(name), U) = value + SumFunctionOnSet(Values(name), T)
      <4>1. U \ {Owner} = T /\ Owner \in U
        BY <3>1
      <4>. QED  BY <1>1, <2>2, <2>5, <4>1, SumTakes DEF value
    <3>3. SumFunctionOnSet(Values(name), Clients \ T)
            = value + SumFunctionOnSet(Values(name), Clients \ U)
      <4>1. (Clients \ T) \ {Owner} = Clients \ U /\ Owner \in Clients \ T
        BY <1>4, <3>1
      <4>. QED  BY <1>1, <2>5, <4>1, SumTakes DEF value
    <3>4. /\ SumFunctionOnSet(Values(name), T) \in Nat
          /\ SumFunctionOnSet(Values(name), Clients \ U) \in Nat
      BY <1>1, <2>2, SumsAreNatural
    <3>5. summary[name] \in Nat /\ before[name] \in Nat
      BY <1>1 DEF SnapshotTypes
    <3>. QED  BY <1>1, <1>3, <1>5, <2>1, <2>3, <3>1, <3>2, <3>3, <3>4, <3>5 DEF Reading
  <2>. QED  BY <2>4, <2>5
<1>8. growth' = previous'
  BY <1>1 DEF SnapshotInv
<1>. QED  BY <1>3, <1>6, <1>7, <1>8 DEF SnapshotInv

\* A complete sum lies between what was true when it began and what is true now.
LEMMA CompleteSnapshot ==
    ASSUME SnapshotInv, loads = AllLoads, NEW name \in Names
    PROVE  /\ previous[name] \in Nat /\ before[name] \in Nat
           /\ summary[name] \in Nat /\ Totals[name] \in Nat
           /\ previous[name] <= before[name]
           /\ before[name] <= summary[name]
           /\ summary[name] <= Totals[name]
<1>1. TypeOK /\ SnapshotTypes /\ Reading(name)
  BY DEF SnapshotInv, IInv, LoopInv
<1>2. Taken(name) = Clients
  BY TakenAtEnds DEF Taken
<1>3. /\ SumFunctionOnSet(Values(name), Clients \ Clients) = 0
      /\ SumFunctionOnSet(Values(name), Clients) = Totals[name] /\ Totals[name] \in Nat
  <2>1. Clients \ Clients = {}
    OBVIOUS
  <2>. QED  BY <1>1, <2>1, SumEmpty, SumsAreNatural
<1>4. /\ previous[name] \in Nat /\ before[name] \in Nat /\ summary[name] \in Nat
      /\ loads # -1
  BY <1>1, OrderOfLoads DEF SnapshotTypes
<1>. QED  BY <1>1, <1>2, <1>3, <1>4 DEF Reading

\* What is appended to the samples is what the sums have grown by.
LEMMA UseInv == SnapshotInv /\ UseSnapshot => SnapshotInv'
<1>. SUFFICES ASSUME SnapshotInv, UseSnapshot
              PROVE  SnapshotInv'
  OBVIOUS
<1>1. IInv /\ SnapshotTypes /\ growth = previous /\ UNCHANGED vars
  BY DEF SnapshotInv, UseSnapshot, UseSnapshotAnd
<1>2. /\ loads = AllLoads /\ loads' = -1 /\ summary' = Zero /\ before' = Zero
      /\ growth' = [name \in Names |-> growth[name] + summary[name] - previous[name]]
      /\ previous' = summary
  BY DEF UseSnapshot, UseSnapshotAnd
<1>3. IInv' /\ Totals' = Totals
  BY <1>1, NextInv DEF vars, counterVars, Totals, Counter
<1>4. growth' = previous'
  BY <1>1, <1>2 DEF SnapshotTypes
<1>5. SnapshotTypes'
  BY <1>1, <1>2, <1>4, OrderOfLoads DEF SnapshotTypes, Zero
<1>6. ASSUME NEW name \in Names
      PROVE  Reading(name)'
  <2>1. summary[name] <= Totals[name]
    BY <1>2, CompleteSnapshot
  <2>. QED  BY <1>2, <1>3, <2>1 DEF Reading
<1>. QED  BY <1>3, <1>4, <1>5, <1>6 DEF SnapshotInv

\* A step of a client, the broker or the signal handler raises the counters at
\* most, whether or not the reader has loaded them already.
LEMMA ClientInv == SnapshotInv /\ [Next]_vars /\ UNCHANGED readerVars => SnapshotInv'
<1>. SUFFICES ASSUME SnapshotInv, [Next]_vars, UNCHANGED readerVars
              PROVE  SnapshotInv'
  OBVIOUS
<1>1. IInv /\ IInv' /\ TypeOK /\ TypeOK' /\ SnapshotTypes /\ growth = previous
  BY NextInv DEF SnapshotInv, IInv, LoopInv
<1>2. SnapshotTypes' /\ growth' = previous'
  BY <1>1 DEF SnapshotTypes, readerVars
<1>3. ASSUME NEW name \in Names
      PROVE  Reading(name)'
  <2>. DEFINE T == Taken(name)
              Now(S) == SumFunctionOnSet(Values(name), S)
              Then(S) == SumFunctionOnSet(Values(name)', S)
  <2>1. T \in SUBSET Clients /\ Taken(name)' = T
    BY DEF Taken, TakenIn, readerVars
  <2>2. ASSUME NEW S \in SUBSET Clients
        PROVE  Now(S) \in Nat /\ Then(S) \in Nat /\ Now(S) <= Then(S)
    <3>1. Now(S) \in Nat /\ Now(S) <= Then(S)
      BY <1>1, SumsAreNatural, SumsGrow
    <3>2. \A c \in Clients : Values(name)'[c] \in Nat
      BY <1>1 DEF TypeOK, Values, Counter, Names
    <3>3. Then(S) \in Nat
      BY <3>2, ClientsAssumption, FS_Subset, SumNat
    <3>. QED  BY <3>1, <3>3
  <2>3. Totals[name] = Now(Clients) /\ Totals'[name] = Then(Clients)
    BY DEF Totals, SumFunction, Values
  <2>. DEFINE nowT == Now(T)         thenT == Then(T)
              nowR == Now(Clients \ T)  thenR == Then(Clients \ T)
              nowAll == Now(Clients)    thenAll == Then(Clients)
  <2>4. /\ nowT \in Nat /\ thenT \in Nat /\ nowT <= thenT
        /\ nowR \in Nat /\ thenR \in Nat /\ nowR <= thenR
        /\ nowAll \in Nat /\ thenAll \in Nat /\ nowAll <= thenAll
    BY <2>1, <2>2
  <2>5. /\ previous[name] <= nowAll
        /\ loads # -1 => /\ previous[name] <= before[name]
                         /\ before[name] <= summary[name] + nowR
                         /\ summary[name] <= nowT
    BY <2>3 DEF SnapshotInv, Reading
  <2>6. previous[name] \in Nat /\ before[name] \in Nat /\ summary[name] \in Nat
    BY <1>1 DEF SnapshotTypes
  <2>7. UNCHANGED <<previous, before, summary, loads>>
    BY DEF readerVars
  <2>. HIDE DEF nowT, thenT, nowR, thenR, nowAll, thenAll
  <2>8. /\ previous[name] <= thenAll
        /\ loads # -1 => /\ previous[name] <= before[name]
                         /\ before[name] <= summary[name] + thenR
                         /\ summary[name] <= thenT
    BY <2>4, <2>5, <2>6
  <2>. QED  BY <2>1, <2>3, <2>7, <2>8 DEF Reading, thenT, thenR, thenAll
<1>. QED  BY <1>1, <1>2, <1>3 DEF SnapshotInv

-----------------------------------------------------------------------------
(* The theorems.                                                           *)

\* The invariant of the reader and of the loops it reads from.
THEOREM SnapshotInvariant == SnapshotSpec => []SnapshotInv
<1>1. SnapshotInit => SnapshotInv
  <2>. SUFFICES ASSUME SnapshotInit
                PROVE  SnapshotInv
    OBVIOUS
  <2>1. IInv
    <3>1. InitLoops /\ ctxDone \in BOOLEAN /\ conn \in [Clients -> Conns]
      BY DEF SnapshotInit, Init, Conns
    <3>2. \A c \in Clients : conn[c] = "closed" <=> pc[c] = "done"
      BY DEF SnapshotInit, Init, InitLoops
    <3>. QED  BY <3>1, <3>2, InitInv DEF IInv
  <2>2. SnapshotTypes /\ growth = previous
    BY OrderOfLoads DEF SnapshotInit, SnapshotTypes, Zero
  <2>3. ASSUME NEW name \in Names
        PROVE  Reading(name)
    <3>1. Totals[name] \in Nat
      BY <2>1, SumsAreNatural DEF IInv, LoopInv
    <3>. QED  BY <3>1 DEF SnapshotInit, Zero, Reading
  <2>. QED  BY <2>1, <2>2, <2>3 DEF SnapshotInv
<1>2. SnapshotInv /\ [SnapshotNext]_allVars => SnapshotInv'
  <2>1. SnapshotInv /\ UNCHANGED allVars => SnapshotInv'
    BY ClientInv DEF allVars
  <2>. QED  BY <2>1, ClientInv, BeginInv, LoadInv, UseInv DEF SnapshotNext, Reader
<1>. QED  BY <1>1, <1>2, PTL DEF SnapshotSpec

\* A client that has stopped has a verdict for everything it published, and
\* none has more: summed over the clients.
LEMMA TotalsAddUp ==
    ASSUME IInv
    PROVE  /\ Totals.acked + Totals.failed + Totals.timedOut <= Totals.published
           /\ AllDone => Totals.acked + Totals.failed + Totals.timedOut = Totals.published
<1>. DEFINE Sum(f) == SumFunctionOnSet(f, Clients)
            A == Values("acked")      F == Values("failed")
            T == Values("timedOut")   P == Values("published")
            AF == [c \in Clients |-> A[c] + F[c]]
            AFT == [c \in Clients |-> AF[c] + T[c]]
<1>1. TypeOK /\ LoopInv
  BY DEF IInv, LoopInv
<1>2. \A c \in Clients : /\ A[c] \in Nat /\ F[c] \in Nat /\ T[c] \in Nat /\ P[c] \in Nat
                         /\ A[c] = acked[c] /\ F[c] = failed[c]
                         /\ T[c] = timedOut[c] /\ P[c] = published[c]
  BY <1>1 DEF TypeOK, Values, Counter
<1>3. /\ Totals.acked = Sum(A) /\ Totals.failed = Sum(F)
      /\ Totals.timedOut = Sum(T) /\ Totals.published = Sum(P)
  BY <1>1, SumsAreNatural DEF Names
<1>. HIDE DEF A, F, T, P
<1>4. \A c \in Clients : /\ AF[c] \in Nat /\ AF[c] = A[c] + F[c]
                         /\ AFT[c] \in Nat /\ AFT[c] = AF[c] + T[c]
  BY <1>2
<1>. HIDE DEF AF, AFT
<1>5. Sum(AF) = Sum(A) + Sum(F) /\ Sum(AFT) = Sum(AF) + Sum(T)
  BY <1>2, <1>4, ClientsAssumption, SumPlus
<1>6. \A c \in Clients : AFT[c] <= P[c] /\ (pc[c] = "done" => AFT[c] = P[c])
  BY <1>1, <1>2, <1>4, NoneAhead, RestAddsUp
<1>7. Sum(AFT) <= Sum(P)
  BY <1>2, <1>4, <1>6, ClientsAssumption, SumMonotone
<1>8. AllDone => Sum(AFT) = Sum(P)
  BY <1>2, <1>4, <1>6, ClientsAssumption, SumSame DEF AllDone
<1>. QED  BY <1>3, <1>5, <1>7, <1>8

\* A snapshot is torn by no more than what happened while it was taken, and
\* that of a run that is over adds up.
THEOREM TornByWhatHappened == SnapshotSpec => []SnapshotsBetween
<1>1. SnapshotInv => SnapshotsBetween
  <2>. SUFFICES ASSUME SnapshotInv, loads = AllLoads
                PROVE  /\ \A name \in Names : summary[name] \in before[name]..Totals[name]
                       /\ summary.acked + summary.failed + summary.timedOut
                            <= summary.published + (Totals.published - before.published)
                       /\ AllDone /\ before = Totals =>
                            summary.acked + summary.failed + summary.timedOut
                              = summary.published
    BY DEF SnapshotsBetween
  <2>1. \A name \in Names :
            /\ before[name] \in Nat /\ summary[name] \in Nat /\ Totals[name] \in Nat
            /\ before[name] <= summary[name] /\ summary[name] <= Totals[name]
    BY CompleteSnapshot
  <2>2. /\ Totals.acked + Totals.failed + Totals.timedOut <= Totals.published
        /\ AllDone => Totals.acked + Totals.failed + Totals.timedOut = Totals.published
    BY TotalsAddUp DEF SnapshotInv
  <2>3. "published" \in Names /\ "acked" \in Names /\ "failed" \in Names /\ "timedOut" \in Names
    BY DEF Names
  <2>4. before = Totals => \A name \in Names : summary[name] = Totals[name]
    BY <2>1
  <2>. HIDE DEF Totals
  <2>. QED  BY <2>1, <2>2, <2>3, <2>4
<1>. QED  BY <1>1, SnapshotInvariant, PTL

\* No growth is negative, and everything counted so far has been handed out
\* exactly once.
THEOREM GrowthIsTotal == SnapshotSpec => []GrowthAddsUp
<1>1. SnapshotInv => GrowthAddsUp
  <2>1. SnapshotInv => growth = previous
    BY DEF SnapshotInv
  <2>2. ASSUME SnapshotInv, loads = AllLoads, NEW name \in Names
        PROVE  summary[name] >= previous[name]
    BY <2>2, CompleteSnapshot
  <2>. QED  BY <2>1, <2>2 DEF GrowthAddsUp
<1>. QED  BY <1>1, SnapshotInvariant, PTL

=============================================================================
