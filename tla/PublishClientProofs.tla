------------------------ MODULE PublishClientProofs ------------------------
(* Theorems about PublishClient for every set of clients, message count,   *)
(* window, QoS and pacing.                                                 *)
EXTENDS PublishClient, FiniteSetTheorems, TLAPS

\* The messages of one client whose waiter stands at one of the labels S.
At(w, S) == {m \in Messages : w[m] \in S}

\* Those of them whose token completed with the given answer.
Answered(w, t, answer) == {m \in At(w, Settled) : t[m] = answer}

-----------------------------------------------------------------------------
(* Counting waiters.                                                       *)

\* There are finitely many messages, so every set of them has a size.
LEMMA MessagesFinite ==
    ASSUME NEW S \in SUBSET Messages
    PROVE  IsFiniteSet(S) /\ Cardinality(S) \in Nat
<1>1. IsFiniteSet(Messages)
  BY CountAssumption, FS_Interval DEF Messages
<1>2. IsFiniteSet(S)
  BY <1>1, FS_Subset
<1>. QED  BY <1>2, FS_CardinalityType

\* One waiter that moves to label b changes the size of At(w, S) by what it
\* adds and what it takes away.
LEMMA MovedWaiter ==
    ASSUME NEW w \in [Messages -> Waiters], NEW m \in Messages, NEW b, NEW S
    PROVE  /\ Cardinality(At(w, S)) \in Nat
           /\ Cardinality(At([w EXCEPT ![m] = b], S))
                = Cardinality(At(w, S)) + (IF b \in S THEN 1 ELSE 0)
                                        - (IF w[m] \in S THEN 1 ELSE 0)
           /\ w[m] \in S => Cardinality(At(w, S)) > 0
<1>. DEFINE v == [w EXCEPT ![m] = b]
            n == Cardinality(At(w, S))
<1>1. IsFiniteSet(At(w, S)) /\ n \in Nat
  BY MessagesFinite DEF At
<1>2. m \in At(w, S) <=> w[m] \in S
  BY DEF At
<1>3. w[m] \in S => n > 0
  BY <1>1, <1>2, FS_EmptySet
<1>4. CASE b \in S
  <2>1. At(v, S) = At(w, S) \cup {m}
    BY <1>4 DEF At
  <2>2. Cardinality(At(w, S) \cup {m}) = IF m \in At(w, S) THEN n ELSE n + 1
    BY <1>1, FS_AddElement
  <2>3. Cardinality(At(v, S)) = IF w[m] \in S THEN n ELSE n + 1
    BY <1>2, <2>1, <2>2
  <2>. QED  BY <1>1, <1>3, <1>4, <2>3
<1>5. CASE b \notin S
  <2>1. At(v, S) = At(w, S) \ {m}
    BY <1>5 DEF At
  <2>2. Cardinality(At(w, S) \ {m}) = IF m \in At(w, S) THEN n - 1 ELSE n
    BY <1>1, FS_RemoveElement
  <2>3. Cardinality(At(v, S)) = IF w[m] \in S THEN n - 1 ELSE n
    BY <1>2, <2>1, <2>2
  <2>. QED  BY <1>1, <1>3, <1>5, <2>3
<1>. QED  BY <1>4, <1>5

\* A set of messages is no larger than a set of messages it is contained in,
\* and strictly smaller when an element is missing from it.
LEMMA FewerMessages ==
    ASSUME NEW T \in SUBSET Messages, NEW S \in SUBSET T
    PROVE  /\ Cardinality(S) \in Nat /\ Cardinality(T) \in Nat
           /\ Cardinality(S) <= Cardinality(T)
           /\ \A m \in T \ S : Cardinality(S) + 1 <= Cardinality(T)
<1>1. /\ IsFiniteSet(T) /\ Cardinality(T) \in Nat
      /\ IsFiniteSet(S) /\ Cardinality(S) \in Nat
  BY MessagesFinite
<1>2. Cardinality(S) <= Cardinality(T) /\ (Cardinality(S) = Cardinality(T) => S = T)
  BY <1>1, FS_Subset
<1>. QED  BY <1>1, <1>2

\* A waiter that settles keeps every answered message and may add its own.
LEMMA AnsweredGrows ==
    ASSUME NEW w \in [Messages -> Waiters], NEW t, NEW m \in Messages, NEW b, NEW a,
           w[m] \in Settled => b \in Settled
    PROVE  /\ Cardinality(Answered(w, t, a)) \in Nat
           /\ Cardinality(Answered([w EXCEPT ![m] = b], t, a)) \in Nat
           /\ Cardinality(Answered(w, t, a))
                <= Cardinality(Answered([w EXCEPT ![m] = b], t, a))
           /\ w[m] \notin Settled /\ b \in Settled /\ t[m] = a =>
                Cardinality(Answered(w, t, a)) + 1
                  <= Cardinality(Answered([w EXCEPT ![m] = b], t, a))
<1>. DEFINE v == [w EXCEPT ![m] = b]
            old == Answered(w, t, a)
            new == Answered(v, t, a)
<1>1. new \in SUBSET Messages /\ old \in SUBSET new
  BY DEF Answered, At
<1>2. w[m] \notin Settled /\ b \in Settled /\ t[m] = a => m \in new \ old
  BY DEF Answered, At
<1>3. /\ Cardinality(old) \in Nat /\ Cardinality(new) \in Nat
      /\ Cardinality(old) <= Cardinality(new)
      /\ \A x \in new \ old : Cardinality(old) + 1 <= Cardinality(new)
  BY <1>1, FewerMessages
<1>. HIDE DEF old, new
<1>4. w[m] \notin Settled /\ b \in Settled /\ t[m] = a =>
        Cardinality(old) + 1 <= Cardinality(new)
  BY <1>2, <1>3
<1>. QED  BY <1>3, <1>4 DEF old, new

-----------------------------------------------------------------------------
(* The inductive invariant.  TypeOK and the checked invariants are not      *)
(* inductive on their own: the counts must be tied to where the waiters     *)
(* stand, and the waiters to how far the sending goroutine has come.        *)

\* Where the sending goroutine stands decides what it has done.
Sending(c) ==
    /\ pc[c] = "idle" => sent[c] = 0
    /\ pc[c] \in {"acquire", "publish", "pace"} => sent[c] < Count
    /\ pc[c] \in {"count", "spawn"} => sent[c] > 0
    /\ pc[c] \in {"disconnect", "done"} => outstanding[c] = 0
    /\ published[c] = IF pc[c] = "count" THEN sent[c] - 1 ELSE sent[c]

\* The last message sent has no waiter until the go statement.
Launched(c) == IF pc[c] \in {"count", "spawn"} THEN sent[c] - 1 ELSE sent[c]

\* Tokens and waiters appear in the order of the loop.
Waiting(c) ==
    \A m \in Messages :
        /\ waiter[c][m] = "none" <=> m > Launched(c)
        /\ token[c][m] = "none" <=> m > sent[c]
        /\ waiter[c][m] = "acked" => token[c][m] = "ok"

\* Every count is the number of waiters it stands for.
Counting(c) ==
    /\ held[c] = Cardinality(At(waiter[c], Holding)) + (IF pc[c] \in Publishing THEN 1 ELSE 0)
    /\ outstanding[c] = Cardinality(At(waiter[c], Running))
    /\ acked[c] + failed[c] + timedOut[c] + Cardinality(At(waiter[c], Unsettled)) = Launched(c)
    /\ acked[c] <= Cardinality(Answered(waiter[c], token[c], "ok"))
    /\ failed[c] <= Cardinality(Answered(waiter[c], token[c], "error"))
    /\ recorded[c] = IF QoS = 0 THEN 0 ELSE acked[c] + Cardinality(At(waiter[c], {"acked"}))

\* What the goroutines of the clients keep, whoever opens the connections.
LoopInv == TypeOK /\ \A c \in Clients : Sending(c) /\ Waiting(c) /\ Counting(c)

\* Nor do they have a connection closed under them.
ClosedInv == \A c \in Clients : conn[c] = "closed" => pc[c] \in {"idle", "done"}
ServedInv == LoopInv /\ ClosedInv

\* Here they are open from the start, and closed by the loops alone.
IInv == LoopInv /\ \A c \in Clients : conn[c] = "closed" <=> pc[c] = "done"

\* What the invariant reads of client c is left as it is.
Untouched(c) ==
    /\ pc'[c] = pc[c] /\ sent'[c] = sent[c]
    /\ token'[c] = token[c] /\ waiter'[c] = waiter[c]
    /\ held'[c] = held[c] /\ outstanding'[c] = outstanding[c]
    /\ published'[c] = published[c] /\ acked'[c] = acked[c]
    /\ failed'[c] = failed[c] /\ timedOut'[c] = timedOut[c]
    /\ recorded'[c] = recorded[c]

\* A step of client c need only be looked at for client c.
LEMMA OneClient ==
    ASSUME LoopInv, NEW c \in Clients,
           TypeOK', Sending(c)', Waiting(c)', Counting(c)',
           \A d \in Clients \ {c} : Untouched(d)
    PROVE  LoopInv'
<1>. SUFFICES ASSUME NEW d \in Clients \ {c}
              PROVE  Sending(d)' /\ Waiting(d)' /\ Counting(d)'
  BY DEF LoopInv
<1>1. Sending(d) /\ Waiting(d) /\ Counting(d) /\ Untouched(d)
  BY DEF LoopInv
<1>2. Sending(d)'
  BY <1>1 DEF Sending, Untouched
<1>3. Waiting(d)'
  BY <1>1 DEF Waiting, Launched, Untouched
<1>4. Counting(d)'
  BY <1>1 DEF Counting, Launched, Untouched
<1>. QED  BY <1>2, <1>3, <1>4

\* The initial states satisfy the invariant.
LEMMA InitInv == InitLoops /\ ctxDone \in BOOLEAN /\ conn \in [Clients -> Conns] => LoopInv
<1>. HAVE InitLoops /\ ctxDone \in BOOLEAN /\ conn \in [Clients -> Conns]
<1>1. TypeOK
  BY CountAssumption, InFlightAssumption
  DEF InitLoops, TypeOK, Conns, PCs, Tokens, Waiters, Publishing
<1>. SUFFICES ASSUME NEW c \in Clients
              PROVE  Sending(c) /\ Waiting(c) /\ Counting(c)
  BY <1>1 DEF LoopInv
<1>2. Sending(c)
  BY DEF InitLoops, Sending
<1>3. Waiting(c)
  BY CountAssumption DEF InitLoops, Waiting, Launched, Messages
<1>4. Counting(c)
  <2>1. \A S : "none" \notin S => At(waiter[c], S) = {}
    BY DEF InitLoops, At
  <2>2. \A S : "none" \notin S => Cardinality(At(waiter[c], S)) = 0
    BY <2>1, FS_EmptySet
  <2>3. \A a : Answered(waiter[c], token[c], a) = {}
    BY <2>1 DEF Answered, Settled
  <2>4. \A a : Cardinality(Answered(waiter[c], token[c], a)) = 0
    BY <2>3, FS_EmptySet
  <2>. QED  BY <2>2, <2>4
       DEF InitLoops, Counting, Launched, Publishing, Unsettled, Holding, Running
<1>. QED  BY <1>2, <1>3, <1>4

-----------------------------------------------------------------------------
(* The steps of the sending goroutine.                                     *)

\* Every step of sendMessages and runClientPublish preserves the invariant.
LEMMA SendStepInv ==
    ASSUME LoopInv, NEW c \in Clients, SendStep(c)
    PROVE  LoopInv'
<1>. USE CountAssumption, InFlightAssumption DEF Goto
<1>1. TypeOK /\ Sending(c) /\ Waiting(c) /\ Counting(c)
  BY DEF LoopInv
<1>2. \A S : Cardinality(At(waiter[c], S)) \in Nat
  BY MessagesFinite DEF At
<1>3. CASE Start(c)
  <2>1. TypeOK'
    BY <1>1, <1>3 DEF Start, TypeOK, Sending, counterVars, Messages, PCs, Publishing, Conns, Tokens, Waiters, Running, Holding, Unsettled
  <2>2. \A d \in Clients \ {c} : Untouched(d)
    BY <1>1, <1>3 DEF Start, TypeOK, Untouched, counterVars
  <2>3. Sending(c)'
    BY <1>1, <1>3 DEF Start, TypeOK, Sending, counterVars
  <2>4. Waiting(c)'
    BY <1>1, <1>3 DEF Start, TypeOK, Sending, Waiting, Launched, counterVars, Messages
  <2>5. Counting(c)'
    BY <1>1, <1>2, <1>3 DEF Start, TypeOK, Counting, Launched, Publishing, counterVars
  <2>. QED  BY <2>1, <2>2, <2>3, <2>4, <2>5, OneClient
<1>4. CASE Acquire(c)
  <2>1. TypeOK'
    BY <1>1, <1>4 DEF Acquire, TypeOK, Sending, counterVars, Messages, PCs, Publishing, Conns, Tokens, Waiters, Running, Holding, Unsettled
  <2>2. \A d \in Clients \ {c} : Untouched(d)
    BY <1>1, <1>4 DEF Acquire, TypeOK, Untouched, counterVars
  <2>3. Sending(c)'
    BY <1>1, <1>4 DEF Acquire, TypeOK, Sending, counterVars
  <2>4. Waiting(c)'
    BY <1>1, <1>4 DEF Acquire, TypeOK, Sending, Waiting, Launched, counterVars, Messages
  <2>5. Counting(c)'
    BY <1>1, <1>2, <1>4 DEF Acquire, TypeOK, Counting, Launched, Publishing, counterVars
  <2>. QED  BY <2>1, <2>2, <2>3, <2>4, <2>5, OneClient
<1>5. CASE AcquireCancelled(c)
  <2>1. TypeOK'
    BY <1>1, <1>5 DEF AcquireCancelled, TypeOK, Sending, counterVars, Messages, PCs, Publishing, Conns, Tokens, Waiters, Running, Holding, Unsettled
  <2>2. \A d \in Clients \ {c} : Untouched(d)
    BY <1>1, <1>5 DEF AcquireCancelled, TypeOK, Untouched, counterVars
  <2>3. Sending(c)'
    BY <1>1, <1>5 DEF AcquireCancelled, TypeOK, Sending, counterVars
  <2>4. Waiting(c)'
    BY <1>1, <1>5 DEF AcquireCancelled, TypeOK, Sending, Waiting, Launched, counterVars, Messages
  <2>5. Counting(c)'
    BY <1>1, <1>2, <1>5 DEF AcquireCancelled, TypeOK, Counting, Launched, Publishing, counterVars
  <2>. QED  BY <2>1, <2>2, <2>3, <2>4, <2>5, OneClient
<1>6. CASE Publish(c)
  <2>. DEFINE n == sent[c] + 1
  <2>a. n \in Messages /\ sent[c] \in Nat /\ n <= Count
    BY <1>1, <1>6 DEF Publish, TypeOK, Sending, Messages
  <2>b. /\ sent' = [sent EXCEPT ![c] = n]
        /\ token' = [token EXCEPT ![c] = [token[c] EXCEPT ![n] = "pending"]]
        /\ pc[c] = "publish" /\ pc' = [pc EXCEPT ![c] = "count"]
        /\ UNCHANGED <<ctxDone, conn, waiter, held, outstanding,
                       published, acked, failed, timedOut, recorded>>
    BY <1>6 DEF Publish, counterVars
  <2>c. /\ sent'[c] = n /\ pc'[c] = "count" /\ waiter'[c] = waiter[c]
        /\ token'[c] = [token[c] EXCEPT ![n] = "pending"]
    BY <1>1, <2>b DEF TypeOK
  <2>. HIDE DEF n
  <2>1. TypeOK'
    <3>1. token' \in [Clients -> [Messages -> Tokens]]
      BY <1>1, <2>a, <2>b DEF TypeOK, Tokens
    <3>. QED  BY <1>1, <2>a, <2>b, <3>1 DEF TypeOK, PCs, Publishing, n
  <2>2. \A d \in Clients \ {c} : Untouched(d)
    BY <1>1, <2>b DEF TypeOK, Untouched
  <2>3. Sending(c)'
    BY <1>1, <2>a, <2>b, <2>c DEF Sending, n
  <2>4. Waiting(c)'
    BY <1>1, <2>a, <2>b, <2>c DEF TypeOK, Waiting, Launched, Messages, n
  <2>5. Counting(c)'
    <3>1. waiter[c][n] = "none"
      BY <1>1, <2>a, <2>b DEF Waiting, Launched, n
    <3>2. \A a : Answered(waiter[c], token'[c], a) = Answered(waiter[c], token[c], a)
      BY <1>1, <2>a, <2>c, <3>1 DEF TypeOK, Answered, At, Settled
    <3>3. Launched(c)' = Launched(c)
      BY <1>1, <2>a, <2>b, <2>c DEF TypeOK, Launched, n
    <3>4. pc[c] \in Publishing /\ pc'[c] \in Publishing
      BY <2>b, <2>c DEF Publishing
    <3>. QED  BY <1>1, <2>b, <2>c, <3>2, <3>3, <3>4 DEF Counting
  <2>. QED  BY <2>1, <2>2, <2>3, <2>4, <2>5, OneClient
<1>7. CASE CountPublished(c)
  <2>1. TypeOK'
    BY <1>1, <1>7 DEF CountPublished, TypeOK, Sending, counterVars, Messages, PCs, Publishing, Conns, Tokens, Waiters, Running, Holding, Unsettled
  <2>2. \A d \in Clients \ {c} : Untouched(d)
    BY <1>1, <1>7 DEF CountPublished, TypeOK, Untouched, counterVars
  <2>3. Sending(c)'
    BY <1>1, <1>7 DEF CountPublished, TypeOK, Sending, counterVars
  <2>4. Waiting(c)'
    BY <1>1, <1>7 DEF CountPublished, TypeOK, Sending, Waiting, Launched, counterVars, Messages
  <2>5. Counting(c)'
    BY <1>1, <1>2, <1>7 DEF CountPublished, TypeOK, Counting, Launched, Publishing, counterVars
  <2>. QED  BY <2>1, <2>2, <2>3, <2>4, <2>5, OneClient
<1>8. CASE Spawn(c)
  <2>. DEFINE m == sent[c]
  <2>a. /\ m \in Messages /\ waiter[c][m] = "none"
        /\ waiter[c] \in [Messages -> Waiters] /\ outstanding[c] \in Nat
    BY <1>1, <1>8 DEF Spawn, TypeOK, Sending, Waiting, Launched, Messages
  <2>b. /\ pc[c] = "spawn" /\ pc'[c] = IF m = Count THEN "drain" ELSE "pace"
        /\ outstanding'[c] = outstanding[c] + 1
        /\ waiter'[c] = [waiter[c] EXCEPT ![m] = "waiting"]
        /\ UNCHANGED <<ctxDone, conn, sent, token, held,
                       published, acked, failed, timedOut, recorded>>
    BY <1>1, <1>8 DEF Spawn, TypeOK, counterVars
  <2>c. \/ m = Count /\ pc'[c] = "drain"
        \/ m < Count /\ pc'[c] = "pace"
    <3>1. CASE m = Count
      BY <2>b, <3>1
    <3>2. CASE m # Count
      <4>1. m \in Nat /\ m <= Count
        BY <2>a DEF Messages
      <4>2. m < Count
        BY <3>2, <4>1
      <4>. QED  BY <2>b, <3>2, <4>2
    <3>. QED  BY <3>1, <3>2
  <2>. HIDE DEF m
  <2>1. TypeOK'
    <3>1. waiter' = [waiter EXCEPT ![c] = [waiter[c] EXCEPT ![m] = "waiting"]]
      BY <1>8 DEF Spawn, m
    <3>2. waiter' \in [Clients -> [Messages -> Waiters]]
      BY <1>1, <2>a, <3>1 DEF TypeOK, Waiters, Running, Holding, Unsettled
    <3>3. pc' \in [Clients -> PCs] /\ outstanding' \in [Clients -> Nat]
      BY <1>1, <1>8 DEF Spawn, TypeOK, PCs
    <3>. QED  BY <1>1, <2>b, <3>2, <3>3 DEF TypeOK
  <2>2. \A d \in Clients \ {c} : Untouched(d)
    BY <1>1, <1>8 DEF Spawn, TypeOK, Untouched, counterVars
  <2>3. Sending(c)'
    <3>1. /\ conn'[c] = conn[c] /\ sent'[c] = sent[c] /\ published'[c] = published[c]
          /\ pc[c] = "spawn" /\ pc'[c] \in {"drain", "pace"}
      BY <2>b, <2>c
    <3>2. pc'[c] = "pace" => sent[c] < Count
      BY <1>1, <2>c DEF TypeOK, m
    <3>. QED  BY <1>1, <3>1, <3>2 DEF Sending
  <2>4. Waiting(c)'
    BY <1>1, <2>a, <2>b DEF TypeOK, Waiting, Launched, Messages, m
  <2>5. Counting(c)'
    <3>1. \A S : Cardinality(At(waiter'[c], S))
                   = Cardinality(At(waiter[c], S)) + (IF "waiting" \in S THEN 1 ELSE 0)
                                                   - (IF "none" \in S THEN 1 ELSE 0)
      BY <2>a, <2>b, MovedWaiter
    <3>2. \A a : Answered(waiter'[c], token[c], a) = Answered(waiter[c], token[c], a)
      BY <2>a, <2>b DEF Answered, At, Settled
    <3>3. Launched(c)' = Launched(c) + 1 /\ Launched(c) \in Int
      BY <1>1, <2>a, <2>b DEF TypeOK, Launched, m, Messages
    <3>4. pc[c] \in Publishing /\ pc'[c] \notin Publishing
      BY <2>b DEF Publishing
    <3>5. /\ Cardinality(At(waiter'[c], Holding)) = Cardinality(At(waiter[c], Holding)) + 1
          /\ Cardinality(At(waiter'[c], Running)) = Cardinality(At(waiter[c], Running)) + 1
          /\ Cardinality(At(waiter'[c], Unsettled)) = Cardinality(At(waiter[c], Unsettled)) + 1
          /\ Cardinality(At(waiter'[c], {"acked"})) = Cardinality(At(waiter[c], {"acked"}))
      BY <1>2, <3>1 DEF Running, Holding, Unsettled
    <3>6. /\ acked[c] \in Nat /\ failed[c] \in Nat /\ timedOut[c] \in Nat
          /\ Cardinality(At(waiter[c], Holding)) \in Nat
          /\ Cardinality(At(waiter[c], Unsettled)) \in Nat
      BY <1>1, <1>2 DEF TypeOK
    <3>7. held'[c] = Cardinality(At(waiter'[c], Holding)) + (IF pc'[c] \in Publishing THEN 1 ELSE 0)
      BY <1>1, <2>b, <3>4, <3>5, <3>6 DEF Counting
    <3>8. outstanding'[c] = Cardinality(At(waiter'[c], Running))
      BY <1>1, <2>b, <3>5 DEF Counting
    <3>9. acked'[c] + failed'[c] + timedOut'[c] + Cardinality(At(waiter'[c], Unsettled))
            = Launched(c)'
      BY <1>1, <2>b, <3>3, <3>5, <3>6 DEF Counting
    <3>. QED  BY <1>1, <2>b, <3>2, <3>5, <3>7, <3>8, <3>9 DEF Counting
  <2>. QED  BY <2>1, <2>2, <2>3, <2>4, <2>5, OneClient
<1>9. CASE PauseOver(c)
  <2>1. TypeOK'
    BY <1>1, <1>9 DEF PauseOver, TypeOK, Sending, counterVars, Messages, PCs, Publishing, Conns, Tokens, Waiters, Running, Holding, Unsettled
  <2>2. \A d \in Clients \ {c} : Untouched(d)
    BY <1>1, <1>9 DEF PauseOver, TypeOK, Untouched, counterVars
  <2>3. Sending(c)'
    BY <1>1, <1>9 DEF PauseOver, TypeOK, Sending, counterVars
  <2>4. Waiting(c)'
    BY <1>1, <1>9 DEF PauseOver, TypeOK, Sending, Waiting, Launched, counterVars, Messages
  <2>5. Counting(c)'
    BY <1>1, <1>2, <1>9 DEF PauseOver, TypeOK, Counting, Launched, Publishing, counterVars
  <2>. QED  BY <2>1, <2>2, <2>3, <2>4, <2>5, OneClient
<1>10. CASE PauseCancelled(c)
  <2>1. TypeOK'
    BY <1>1, <1>10 DEF PauseCancelled, TypeOK, Sending, counterVars, Messages, PCs, Publishing, Conns, Tokens, Waiters, Running, Holding, Unsettled
  <2>2. \A d \in Clients \ {c} : Untouched(d)
    BY <1>1, <1>10 DEF PauseCancelled, TypeOK, Untouched, counterVars
  <2>3. Sending(c)'
    BY <1>1, <1>10 DEF PauseCancelled, TypeOK, Sending, counterVars
  <2>4. Waiting(c)'
    BY <1>1, <1>10 DEF PauseCancelled, TypeOK, Sending, Waiting, Launched, counterVars, Messages
  <2>5. Counting(c)'
    BY <1>1, <1>2, <1>10 DEF PauseCancelled, TypeOK, Counting, Launched, Publishing, counterVars
  <2>. QED  BY <2>1, <2>2, <2>3, <2>4, <2>5, OneClient
<1>11. CASE Drained(c)
  <2>1. TypeOK'
    BY <1>1, <1>11 DEF Drained, TypeOK, Sending, counterVars, Messages, PCs, Publishing, Conns, Tokens, Waiters, Running, Holding, Unsettled
  <2>2. \A d \in Clients \ {c} : Untouched(d)
    BY <1>1, <1>11 DEF Drained, TypeOK, Untouched, counterVars
  <2>3. Sending(c)'
    BY <1>1, <1>11 DEF Drained, TypeOK, Sending, counterVars
  <2>4. Waiting(c)'
    BY <1>1, <1>11 DEF Drained, TypeOK, Sending, Waiting, Launched, counterVars, Messages
  <2>5. Counting(c)'
    BY <1>1, <1>2, <1>11 DEF Drained, TypeOK, Counting, Launched, Publishing, counterVars
  <2>. QED  BY <2>1, <2>2, <2>3, <2>4, <2>5, OneClient
<1>12. CASE Disconnect(c)
  <2>1. TypeOK'
    BY <1>1, <1>12 DEF Disconnect, TypeOK, Sending, counterVars, Messages, PCs, Publishing, Conns, Tokens, Waiters, Running, Holding, Unsettled
  <2>2. \A d \in Clients \ {c} : Untouched(d)
    BY <1>1, <1>12 DEF Disconnect, TypeOK, Untouched, counterVars
  <2>3. Sending(c)'
    BY <1>1, <1>12 DEF Disconnect, TypeOK, Sending, counterVars
  <2>4. Waiting(c)'
    BY <1>1, <1>12 DEF Disconnect, TypeOK, Sending, Waiting, Launched, counterVars, Messages
  <2>5. Counting(c)'
    BY <1>1, <1>2, <1>12 DEF Disconnect, TypeOK, Counting, Launched, Publishing, counterVars
  <2>. QED  BY <2>1, <2>2, <2>3, <2>4, <2>5, OneClient
<1>. QED  BY <1>3, <1>4, <1>5, <1>6, <1>7, <1>8, <1>9, <1>10, <1>11, <1>12 DEF SendStep

-----------------------------------------------------------------------------
(* The steps of the waiting goroutines.                                    *)

\* Every step of waitForResult preserves the invariant.
LEMMA WaitStepInv ==
    ASSUME LoopInv, NEW c \in Clients, NEW m \in Messages, WaitStep(c, m)
    PROVE  LoopInv'
<1>. DEFINE w == waiter[c]
            v == waiter'[c]
            Num(S) == Cardinality(At(w, S))
            NumNext(S) == Cardinality(At(v, S))
            Ans(a) == Cardinality(Answered(w, token[c], a))
            AnsNext(a) == Cardinality(Answered(v, token[c], a))
<1>1. TypeOK /\ Sending(c) /\ Waiting(c) /\ Counting(c)
  BY DEF LoopInv
<1>2. PICK label \in Waiters \ {"none"} :
        /\ w[m] \in Running
        /\ waiter' = [waiter EXCEPT ![c][m] = label]
  BY DEF WaitStep, CountTimedOut, CountFailed, RecordLatency, CountAcked, Release,
         WaiterDone, Move, Waiters, Running, Holding, Unsettled
<1>3. /\ w \in [Messages -> Waiters] /\ v = [w EXCEPT ![m] = label]
      /\ waiter' = [waiter EXCEPT ![c] = [w EXCEPT ![m] = label]]
      /\ w[m] # "none"
  BY <1>1, <1>2 DEF TypeOK, Running, Holding, Unsettled
<1>4. UNCHANGED <<ctxDone, conn, pc, sent, token, published>>
  BY DEF WaitStep, CountTimedOut, CountFailed, RecordLatency, CountAcked, Release,
         WaiterDone, counterVars
<1>5. ASSUME NEW S
      PROVE  /\ Num(S) \in Nat
             /\ NumNext(S) = Num(S) + (IF label \in S THEN 1 ELSE 0)
                                    - (IF w[m] \in S THEN 1 ELSE 0)
             /\ w[m] \in S => Num(S) > 0
  BY <1>3, MovedWaiter
<1>6. ASSUME NEW a, w[m] \in Settled => label \in Settled
      PROVE  /\ Ans(a) \in Nat /\ AnsNext(a) \in Nat
             /\ Ans(a) <= AnsNext(a)
             /\ w[m] \notin Settled /\ label \in Settled /\ token[c][m] = a =>
                  Ans(a) + 1 <= AnsNext(a)
  <2>. DEFINE u == [w EXCEPT ![m] = label]
  <2>1. /\ Ans(a) \in Nat /\ Cardinality(Answered(u, token[c], a)) \in Nat
        /\ Ans(a) <= Cardinality(Answered(u, token[c], a))
        /\ w[m] \notin Settled /\ label \in Settled /\ token[c][m] = a =>
             Ans(a) + 1 <= Cardinality(Answered(u, token[c], a))
    BY <1>3, <1>6, AnsweredGrows
  <2>2. AnsNext(a) = Cardinality(Answered(u, token[c], a))
    BY <1>3
  <2>. HIDE DEF u, w, v
  <2>. QED  BY <2>1, <2>2
<1>7. \A x \in Clients \ {c} : Untouched(x)
  <2>1. \A x \in Clients \ {c} : waiter'[x] = waiter[x]
    BY <1>1, <1>2 DEF TypeOK
  <2>. QED  BY <1>1, <1>4, <2>1
       DEF TypeOK, Untouched, WaitStep, CountTimedOut, CountFailed, RecordLatency,
           CountAcked, Release, WaiterDone, counterVars
<1>8. Num(Running) > 0 /\ outstanding[c] = Num(Running)
  BY <1>1, <1>2, <1>5 DEF Counting
<1>9. Sending(c)'
  BY <1>1, <1>4, <1>8 DEF Sending
<1>10. Launched(c)' = Launched(c)
  BY <1>4 DEF Launched
<1>11. ASSUME label = "acked" => token[c][m] = "ok"
       PROVE  Waiting(c)'
  BY <1>1, <1>2, <1>3, <1>4, <1>10, <1>11 DEF Waiting
<1>12. TypeOK'
  <2>1. waiter' \in [Clients -> [Messages -> Waiters]]
    BY <1>1, <1>3 DEF TypeOK
  <2>2. held' \in [Clients -> 0..InFlight]
    <3>1. CASE Release(c, m)
      <4>1. Num(Holding) > 0
        BY <1>5, <3>1 DEF Release, Holding
      <4>2. held[c] \in 0..InFlight /\ held[c] > 0
        BY <1>1, <1>5, <4>1 DEF TypeOK, Counting
      <4>3. held[c] - 1 \in 0..InFlight
        BY <4>2, InFlightAssumption
      <4>. QED  BY <1>1, <3>1, <4>3 DEF Release, TypeOK
    <3>2. CASE ~Release(c, m)
      BY <1>1, <3>2 DEF TypeOK, WaitStep, CountTimedOut, CountFailed, RecordLatency,
                        CountAcked, WaiterDone
    <3>. QED  BY <3>1, <3>2
  <2>3. outstanding' \in [Clients -> Nat]
    <3>1. outstanding[c] - 1 \in Nat
      BY <1>5, <1>8
    <3>. QED  BY <1>1, <3>1
         DEF TypeOK, WaitStep, CountTimedOut, CountFailed, RecordLatency, CountAcked,
             Release, WaiterDone
  <2>4. /\ acked' \in [Clients -> Nat] /\ failed' \in [Clients -> Nat]
        /\ timedOut' \in [Clients -> Nat] /\ recorded' \in [Clients -> Nat]
    <3>1. \/ acked' = acked
          \/ acked' = [acked EXCEPT ![c] = acked[c] + 1]
      BY DEF WaitStep, CountTimedOut, CountFailed, RecordLatency, CountAcked, Release,
             WaiterDone, counterVars
    <3>2. \/ failed' = failed
          \/ failed' = [failed EXCEPT ![c] = failed[c] + 1]
      BY DEF WaitStep, CountTimedOut, CountFailed, RecordLatency, CountAcked, Release,
             WaiterDone, counterVars
    <3>3. \/ timedOut' = timedOut
          \/ timedOut' = [timedOut EXCEPT ![c] = timedOut[c] + 1]
      BY DEF WaitStep, CountTimedOut, CountFailed, RecordLatency, CountAcked, Release,
             WaiterDone, counterVars
    <3>4. \/ recorded' = recorded
          \/ recorded' = [recorded EXCEPT ![c] = recorded[c] + 1]
      BY DEF WaitStep, CountTimedOut, CountFailed, RecordLatency, CountAcked, Release,
             WaiterDone, counterVars
    <3>5. /\ acked \in [Clients -> Nat] /\ failed \in [Clients -> Nat]
          /\ timedOut \in [Clients -> Nat] /\ recorded \in [Clients -> Nat]
      BY <1>1 DEF TypeOK
    <3>6. \A f, g : /\ f \in [Clients -> Nat]
                    /\ g = f \/ g = [f EXCEPT ![c] = f[c] + 1]
                    => g \in [Clients -> Nat]
      OBVIOUS
    <3>. QED  BY <3>1, <3>2, <3>3, <3>4, <3>5, <3>6
  <2>. QED  BY <1>1, <1>4, <2>1, <2>2, <2>3, <2>4 DEF TypeOK
<1>13. /\ acked[c] \in Nat /\ failed[c] \in Nat /\ timedOut[c] \in Nat
       /\ held[c] \in Nat /\ outstanding[c] \in Nat /\ recorded[c] \in Nat
       /\ Num(Holding) \in Nat /\ Num(Running) \in Nat
       /\ Num(Unsettled) \in Nat /\ Num({"acked"}) \in Nat
  BY <1>1, <1>5 DEF TypeOK
<1>14. CASE CountTimedOut(c, m)
  <2>1. w[m] = "waiting" /\ label = "counted"
    BY <1>1, <1>3, <1>14 DEF CountTimedOut, Move, TypeOK
  <2>2. /\ timedOut'[c] = timedOut[c] + 1
        /\ UNCHANGED <<held, outstanding, acked, failed, recorded>>
    BY <1>1, <1>14 DEF CountTimedOut, TypeOK, counterVars
  <2>3. /\ NumNext(Holding) = Num(Holding)
        /\ NumNext(Running) = Num(Running)
        /\ NumNext(Unsettled) = Num(Unsettled) - 1
        /\ NumNext({"acked"}) = Num({"acked"})
    BY <1>5, <2>1 DEF Running, Holding, Unsettled
  <2>4. \A a : /\ Ans(a) \in Nat /\ AnsNext(a) \in Nat /\ Ans(a) <= AnsNext(a)
               /\ token[c][m] = a => Ans(a) + 1 <= AnsNext(a)
    BY <1>6, <2>1 DEF Settled
  <2>5. Counting(c)'
    BY <1>1, <1>4, <1>10, <1>13, <2>1, <2>2, <2>3, <2>4, QoSAssumption DEF Counting
  <2>. QED  BY <1>7, <1>9, <1>11, <1>12, <2>1, <2>5, OneClient
<1>15. CASE CountFailed(c, m)
  <2>1. w[m] = "waiting" /\ label = "counted" /\ token[c][m] = "error"
    BY <1>1, <1>3, <1>15 DEF CountFailed, Move, TypeOK, Waiting
  <2>2. /\ failed'[c] = failed[c] + 1
        /\ UNCHANGED <<held, outstanding, acked, timedOut, recorded>>
    BY <1>1, <1>15 DEF CountFailed, TypeOK, counterVars
  <2>3. /\ NumNext(Holding) = Num(Holding)
        /\ NumNext(Running) = Num(Running)
        /\ NumNext(Unsettled) = Num(Unsettled) - 1
        /\ NumNext({"acked"}) = Num({"acked"})
    BY <1>5, <2>1 DEF Running, Holding, Unsettled
  <2>4. \A a : /\ Ans(a) \in Nat /\ AnsNext(a) \in Nat /\ Ans(a) <= AnsNext(a)
               /\ token[c][m] = a => Ans(a) + 1 <= AnsNext(a)
    BY <1>6, <2>1 DEF Settled
  <2>5. Counting(c)'
    BY <1>1, <1>4, <1>10, <1>13, <2>1, <2>2, <2>3, <2>4, QoSAssumption DEF Counting
  <2>. QED  BY <1>7, <1>9, <1>11, <1>12, <2>1, <2>5, OneClient
<1>16. CASE RecordLatency(c, m)
  <2>1. w[m] = "waiting" /\ label = "acked" /\ token[c][m] = "ok"
    BY <1>1, <1>3, <1>16 DEF RecordLatency, Move, TypeOK, Waiting
  <2>2. /\ recorded'[c] = IF QoS > 0 THEN recorded[c] + 1 ELSE recorded[c]
        /\ UNCHANGED <<held, outstanding, acked, failed, timedOut>>
    BY <1>1, <1>16 DEF RecordLatency, TypeOK, counterVars
  <2>3. /\ NumNext(Holding) = Num(Holding)
        /\ NumNext(Running) = Num(Running)
        /\ NumNext(Unsettled) = Num(Unsettled)
        /\ NumNext({"acked"}) = Num({"acked"}) + 1
    BY <1>5, <2>1 DEF Running, Holding, Unsettled
  <2>4. \A a : /\ Ans(a) \in Nat /\ AnsNext(a) \in Nat /\ Ans(a) <= AnsNext(a)
    BY <1>6, <2>1 DEF Settled
  <2>5. Counting(c)'
    BY <1>1, <1>4, <1>10, <1>13, <2>1, <2>2, <2>3, <2>4, QoSAssumption DEF Counting
  <2>. QED  BY <1>7, <1>9, <1>11, <1>12, <2>1, <2>5, OneClient
<1>17. CASE CountAcked(c, m)
  <2>1. w[m] = "acked" /\ label = "counted" /\ token[c][m] = "ok"
    BY <1>1, <1>3, <1>17 DEF CountAcked, Move, TypeOK, Waiting
  <2>2. /\ acked'[c] = acked[c] + 1
        /\ UNCHANGED <<held, outstanding, failed, timedOut, recorded>>
    BY <1>1, <1>17 DEF CountAcked, TypeOK, counterVars
  <2>3. /\ NumNext(Holding) = Num(Holding)
        /\ NumNext(Running) = Num(Running)
        /\ NumNext(Unsettled) = Num(Unsettled) - 1
        /\ NumNext({"acked"}) = Num({"acked"}) - 1
    BY <1>5, <2>1 DEF Running, Holding, Unsettled
  <2>4. \A a : /\ Ans(a) \in Nat /\ AnsNext(a) \in Nat /\ Ans(a) <= AnsNext(a)
               /\ token[c][m] = a => Ans(a) + 1 <= AnsNext(a)
    BY <1>6, <2>1 DEF Settled
  <2>5. Counting(c)'
    BY <1>1, <1>4, <1>10, <1>13, <2>1, <2>2, <2>3, <2>4, QoSAssumption DEF Counting
  <2>. QED  BY <1>7, <1>9, <1>11, <1>12, <2>1, <2>5, OneClient
<1>18. CASE Release(c, m)
  <2>1. w[m] = "counted" /\ label = "released"
    BY <1>1, <1>3, <1>18 DEF Release, Move, TypeOK
  <2>2. /\ held'[c] = held[c] - 1
        /\ UNCHANGED <<outstanding, acked, failed, timedOut, recorded>>
    BY <1>1, <1>18 DEF Release, TypeOK, counterVars
  <2>3. /\ NumNext(Holding) = Num(Holding) - 1
        /\ NumNext(Running) = Num(Running)
        /\ NumNext(Unsettled) = Num(Unsettled)
        /\ NumNext({"acked"}) = Num({"acked"})
    BY <1>5, <2>1 DEF Running, Holding, Unsettled
  <2>4. \A a : /\ Ans(a) \in Nat /\ AnsNext(a) \in Nat /\ Ans(a) <= AnsNext(a)
    BY <1>6, <2>1 DEF Settled
  <2>5. Counting(c)'
    BY <1>1, <1>4, <1>10, <1>13, <2>1, <2>2, <2>3, <2>4, QoSAssumption DEF Counting
  <2>. QED  BY <1>7, <1>9, <1>11, <1>12, <2>1, <2>5, OneClient
<1>19. CASE WaiterDone(c, m)
  <2>1. w[m] = "released" /\ label = "finished"
    BY <1>1, <1>3, <1>19 DEF WaiterDone, Move, TypeOK
  <2>2. /\ outstanding'[c] = outstanding[c] - 1
        /\ UNCHANGED <<held, acked, failed, timedOut, recorded>>
    BY <1>1, <1>19 DEF WaiterDone, TypeOK, counterVars
  <2>3. /\ NumNext(Holding) = Num(Holding)
        /\ NumNext(Running) = Num(Running) - 1
        /\ NumNext(Unsettled) = Num(Unsettled)
        /\ NumNext({"acked"}) = Num({"acked"})
    BY <1>5, <2>1 DEF Running, Holding, Unsettled
  <2>4. \A a : /\ Ans(a) \in Nat /\ AnsNext(a) \in Nat /\ Ans(a) <= AnsNext(a)
    BY <1>6, <2>1 DEF Settled
  <2>5. Counting(c)'
    BY <1>1, <1>4, <1>10, <1>13, <2>1, <2>2, <2>3, <2>4, QoSAssumption DEF Counting
  <2>. QED  BY <1>7, <1>9, <1>11, <1>12, <2>1, <2>5, OneClient
<1>. QED  BY <1>14, <1>15, <1>16, <1>17, <1>18, <1>19 DEF WaitStep

-----------------------------------------------------------------------------
(* The environment, and the invariant of the specification.                *)

\* A broker answer, even a late one, preserves the invariant.
LEMMA AnswerInv ==
    ASSUME LoopInv, NEW c \in Clients, NEW m \in Messages, BrokerAnswers(c, m)
    PROVE  LoopInv'
<1>1. TypeOK /\ Sending(c) /\ Waiting(c) /\ Counting(c)
  BY DEF LoopInv
<1>2. PICK answer \in {"ok", "error"} :
        /\ token[c][m] = "pending"
        /\ token' = [token EXCEPT ![c] = [token[c] EXCEPT ![m] = answer]]
  BY DEF BrokerAnswers
<1>3. UNCHANGED <<ctxDone, conn, pc, sent, waiter, held, outstanding,
                  published, acked, failed, timedOut, recorded>>
  BY DEF BrokerAnswers, counterVars
<1>4. token' \in [Clients -> [Messages -> Tokens]]
  BY <1>1, <1>2 DEF TypeOK, Tokens
<1>5. TypeOK'
  BY <1>1, <1>3, <1>4 DEF TypeOK
<1>6. \A d \in Clients \ {c} : Untouched(d)
  BY <1>1, <1>2, <1>3 DEF TypeOK, Untouched
<1>7. Sending(c)'
  BY <1>1, <1>3 DEF Sending
<1>8. token'[c] = [token[c] EXCEPT ![m] = answer] /\ token[c] \in [Messages -> Tokens]
  BY <1>1, <1>2 DEF TypeOK
<1>9. Waiting(c)'
  BY <1>1, <1>2, <1>3, <1>8 DEF Waiting, Launched
<1>10. ASSUME NEW a \in {"ok", "error"}
       PROVE  /\ Cardinality(Answered(waiter[c], token[c], a)) \in Nat
              /\ Cardinality(Answered(waiter[c], token'[c], a)) \in Nat
              /\ Cardinality(Answered(waiter[c], token[c], a))
                   <= Cardinality(Answered(waiter[c], token'[c], a))
  <2>1. /\ Answered(waiter[c], token'[c], a) \in SUBSET Messages
        /\ Answered(waiter[c], token[c], a)
             \in SUBSET Answered(waiter[c], token'[c], a)
    BY <1>2, <1>8 DEF Answered, At
  <2>. QED  BY <2>1, FewerMessages
<1>11. Counting(c)'
  <2>1. acked[c] \in Nat /\ failed[c] \in Nat
    BY <1>1 DEF TypeOK
  <2>2. Launched(c)' = Launched(c)
    BY <1>3 DEF Launched
  <2>3. acked[c] <= Cardinality(Answered(waiter[c], token'[c], "ok"))
    BY <1>1, <1>10, <2>1 DEF Counting
  <2>4. failed[c] <= Cardinality(Answered(waiter[c], token'[c], "error"))
    BY <1>1, <1>10, <2>1 DEF Counting
  <2>. QED  BY <1>1, <1>3, <2>2, <2>3, <2>4 DEF Counting
<1>. QED  BY <1>5, <1>6, <1>7, <1>9, <1>11, OneClient

\* A step that changes nothing but the context and the connections preserves the
\* invariant.
LEMMA ContextInv ==
    ASSUME LoopInv, ctxDone' \in BOOLEAN, conn' \in [Clients -> Conns],
           UNCHANGED <<pc, sent, token, waiter, held, outstanding, counterVars>>
    PROVE  LoopInv'
<1>1. TypeOK'
  BY DEF LoopInv, TypeOK, counterVars
<1>2. ASSUME NEW c \in Clients
      PROVE  Sending(c)' /\ Waiting(c)' /\ Counting(c)'
  <2>1. Sending(c) /\ Waiting(c) /\ Counting(c)
    BY DEF LoopInv
  <2>2. Launched(c)' = Launched(c)
    BY DEF Launched
  <2>3. Sending(c)'
    BY <2>1 DEF Sending, counterVars
  <2>4. Waiting(c)'
    BY <2>1, <2>2 DEF Waiting
  <2>5. Counting(c)'
    BY <2>1, <2>2 DEF Counting, counterVars
  <2>. QED  BY <2>3, <2>4, <2>5
<1>. QED  BY <1>1, <1>2 DEF LoopInv

\* Every step of the specification preserves the invariant.
LEMMA NextInv == IInv /\ [Next]_vars => IInv'
<1>. SUFFICES ASSUME IInv, [Next]_vars
              PROVE  IInv'
  OBVIOUS
<1>1. LoopInv /\ TypeOK /\ \A c \in Clients : conn[c] = "closed" <=> pc[c] = "done"
  BY DEF IInv, LoopInv
<1>2. ASSUME NEW c \in Clients, SendStep(c)
      PROVE  IInv'
  <2>1. \A d \in Clients : conn'[d] = "closed" <=> pc'[d] = "done"
    BY <1>1, <1>2 DEF SendStep, Start, Acquire, AcquireCancelled, Publish, CountPublished, Spawn,
       PauseOver, PauseCancelled, Drained, Disconnect, Goto, TypeOK
  <2>. QED  BY <1>1, <1>2, <2>1, SendStepInv DEF IInv
<1>3. ASSUME NEW c \in Clients, NEW m \in Messages, WaitStep(c, m)
      PROVE  IInv'
  <2>1. conn' = conn /\ pc' = pc
    BY <1>3 DEF WaitStep, CountTimedOut, CountFailed, RecordLatency, CountAcked, Release,
       WaiterDone
  <2>. QED  BY <1>1, <1>3, <2>1, WaitStepInv DEF IInv
<1>4. ASSUME NEW c \in Clients, NEW m \in Messages, BrokerAnswers(c, m)
      PROVE  IInv'
  <2>1. conn' = conn /\ pc' = pc
    BY <1>4 DEF BrokerAnswers
  <2>. QED  BY <1>1, <1>4, <2>1, AnswerInv DEF IInv
<1>5. CASE Cancel
  BY <1>1, <1>5, ContextInv DEF Cancel, IInv, TypeOK
<1>6. CASE UNCHANGED vars
  BY <1>1, <1>6, ContextInv DEF vars, IInv, TypeOK
<1>. QED  BY <1>2, <1>3, <1>4, <1>5, <1>6 DEF Next, Terminating

\* The inductive invariant holds in every reachable state, whatever the number
\* of clients and messages, the window, the QoS and the pacing.
THEOREM Invariant == Spec => []IInv
<1>1. Init => IInv
  <2>1. Init => InitLoops /\ ctxDone \in BOOLEAN /\ conn \in [Clients -> Conns]
    BY DEF Init, Conns
  <2>2. Init => \A c \in Clients : conn[c] = "closed" <=> pc[c] = "done"
    BY DEF Init, InitLoops
  <2>. QED  BY <2>1, <2>2, InitInv DEF IInv
<1>2. IInv /\ [Next]_vars => IInv'
  BY NextInv
<1>. QED  BY <1>1, <1>2, PTL DEF Spec

\* Every variable keeps its type: in particular a client never holds more than
\* InFlight slots and never publishes more than Count messages.
THEOREM TypeCorrect == Spec => []TypeOK
<1>1. IInv => TypeOK
  BY DEF IInv, LoopInv
<1>. QED  BY <1>1, Invariant, PTL

-----------------------------------------------------------------------------
(* The checked invariants.                                                 *)

\* A client that has not started, or is done, has no waiter left: every message it
\* sent has been settled.
LEMMA RestMeansSettled ==
    ASSUME LoopInv, NEW c \in Clients, pc[c] \in {"idle", "done"}
    PROVE  /\ At(waiter[c], Running) = {}
           /\ Cardinality(At(waiter[c], Unsettled)) = 0
           /\ Cardinality(At(waiter[c], {"acked"})) = 0
<1>1. Sending(c) /\ Waiting(c) /\ Counting(c)
  BY DEF LoopInv
<1>2. At(waiter[c], Running) = {}
  <2>1. CASE pc[c] = "idle"
    <3>1. Launched(c) = 0
      BY <1>1, <2>1 DEF Sending, Launched
    <3>2. ASSUME NEW m \in Messages
          PROVE  waiter[c][m] = "none"
      <4>1. m > Launched(c)
        BY <3>1, CountAssumption DEF Messages
      <4>. QED  BY <1>1, <4>1 DEF Waiting
    <3>. QED  BY <3>2 DEF At, Running, Holding, Unsettled
  <2>2. CASE pc[c] = "done"
    <3>1. Cardinality(At(waiter[c], Running)) = 0
      BY <1>1, <2>2 DEF Sending, Counting
    <3>. QED  BY <3>1, MessagesFinite, FS_EmptySet DEF At
  <2>. QED  BY <2>1, <2>2
<1>3. At(waiter[c], Unsettled) = {} /\ At(waiter[c], {"acked"}) = {}
  BY <1>2 DEF At, Running, Holding, Unsettled
<1>. QED  BY <1>2, <1>3, FS_EmptySet

\* Its counts add up, with one latency per ack where latencies are recorded.
LEMMA RestAddsUp ==
    ASSUME LoopInv, NEW c \in Clients, pc[c] \in {"idle", "done"}
    PROVE  /\ published[c] = sent[c]
           /\ acked[c] + failed[c] + timedOut[c] = published[c]
           /\ recorded[c] = IF QoS = 0 THEN 0 ELSE acked[c]
           /\ \A m \in Messages : waiter[c][m] \in {"none", "finished"}
<1>1. TypeOK /\ Sending(c) /\ Counting(c)
  BY DEF LoopInv
<1>2. Launched(c) = sent[c] /\ published[c] = sent[c]
  BY <1>1 DEF Sending, Launched
<1>3. acked[c] \in Nat /\ failed[c] \in Nat /\ timedOut[c] \in Nat
  BY <1>1 DEF TypeOK
<1>4. acked[c] + failed[c] + timedOut[c] = published[c]
  BY <1>1, <1>2, <1>3, RestMeansSettled DEF Counting
<1>5. recorded[c] = IF QoS = 0 THEN 0 ELSE acked[c]
  BY <1>1, <1>3, RestMeansSettled DEF Counting
<1>6. \A m \in Messages : waiter[c][m] \in Waiters /\ waiter[c][m] \notin Running
  BY <1>1, RestMeansSettled DEF TypeOK, At
<1>. QED  BY <1>2, <1>4, <1>5, <1>6 DEF Waiters

\* No verdict is counted ahead of its publish, no publish ahead of its call.
LEMMA NoneAhead ==
    ASSUME LoopInv, NEW c \in Clients
    PROVE  /\ acked[c] + failed[c] + timedOut[c] <= published[c]
           /\ published[c] <= sent[c]
           /\ sent[c] <= published[c] + 1
<1>1. Sending(c) /\ Counting(c)
  BY DEF LoopInv
<1>2. /\ acked[c] \in Nat /\ failed[c] \in Nat /\ timedOut[c] \in Nat
      /\ sent[c] \in 0..Count /\ published[c] \in Nat
  BY DEF LoopInv, TypeOK
<1>3. Cardinality(At(waiter[c], Unsettled)) \in Nat
  BY MessagesFinite DEF At
<1>4. acked[c] + failed[c] + timedOut[c] <= Launched(c)
  BY <1>1, <1>2, <1>3 DEF Counting, Launched
<1>. QED  BY <1>1, <1>2, <1>4, CountAssumption DEF Sending, Launched

\* A connection is closed before its client starts or after it is done.
LEMMA ClosedMeansSettled ==
    ASSUME ServedInv, NEW c \in Clients, conn[c] = "closed"
    PROVE  /\ pc[c] \in {"idle", "done"}
           /\ At(waiter[c], Running) = {}
           /\ Cardinality(At(waiter[c], Unsettled)) = 0
           /\ Cardinality(At(waiter[c], {"acked"})) = 0
BY RestMeansSettled DEF ServedInv, ClosedInv

\* Acks and failures are only counted for messages the broker answered so.
LEMMA VerdictsAnswered == LoopInv => VerdictsTruthful
<1>. SUFFICES ASSUME LoopInv, NEW c \in Clients
              PROVE  /\ acked[c] <= Cardinality({m \in Messages : token[c][m] = "ok"})
                     /\ failed[c] <= Cardinality({m \in Messages : token[c][m] = "error"})
  BY DEF VerdictsTruthful
<1>1. TypeOK /\ Counting(c)
  BY DEF LoopInv
<1>2. ASSUME NEW a
      PROVE  /\ Cardinality(Answered(waiter[c], token[c], a)) \in Nat
             /\ Cardinality({m \in Messages : token[c][m] = a}) \in Nat
             /\ Cardinality(Answered(waiter[c], token[c], a))
                  <= Cardinality({m \in Messages : token[c][m] = a})
  <2>1. Answered(waiter[c], token[c], a) \in SUBSET {m \in Messages : token[c][m] = a}
    BY DEF Answered, At
  <2>. QED  BY <2>1, FewerMessages
<1>3. acked[c] \in Nat /\ failed[c] \in Nat
  BY <1>1 DEF TypeOK
<1>. QED  BY <1>1, <1>2, <1>3 DEF Counting

\* The checked invariants hold wherever the loops run as they are.
LEMMA PromisesKept ==
    ServedInv => EveryPublishSettled /\ NoDisconnectUnderLoad /\ SlotsAccounted /\ LatencyPerAck
<1>. SUFFICES ASSUME ServedInv
              PROVE  EveryPublishSettled /\ NoDisconnectUnderLoad /\ SlotsAccounted /\ LatencyPerAck
  OBVIOUS
<1>1. LoopInv /\ ClosedInv
  BY DEF ServedInv
<1>2. EveryPublishSettled
  BY <1>1, RestAddsUp DEF ClosedInv, EveryPublishSettled
<1>3. NoDisconnectUnderLoad
  BY <1>1, RestAddsUp DEF ClosedInv, NoDisconnectUnderLoad, Publishing
<1>4. SlotsAccounted
  BY <1>1 DEF LoopInv, Counting, SlotsAccounted, At
<1>5. LatencyPerAck
  <2>. SUFFICES ASSUME NEW c \in Clients
                PROVE  IF QoS = 0 THEN recorded[c] = 0
                       ELSE /\ acked[c] <= recorded[c]
                            /\ conn[c] = "closed" => recorded[c] = acked[c]
    BY DEF LatencyPerAck
  <2>1. Counting(c) /\ acked[c] \in Nat
    BY <1>1 DEF LoopInv, TypeOK
  <2>2. Cardinality(At(waiter[c], {"acked"})) \in Nat
    BY MessagesFinite DEF At
  <2>3. conn[c] = "closed" => Cardinality(At(waiter[c], {"acked"})) = 0
    BY ClosedMeansSettled
  <2>. QED  BY <2>1, <2>2, <2>3 DEF Counting
<1>. QED  BY <1>2, <1>3, <1>4, <1>5

\* Here, too.
LEMMA ServedHere == IInv => ServedInv
BY DEF IInv, ServedInv, ClosedInv

\* The counts of a client that has disconnected add up: one verdict for every
\* message handed to the connection.
THEOREM PublishesSettled == Spec => []EveryPublishSettled
BY ServedHere, PromisesKept, Invariant, PTL

\* No connection is closed under a goroutine that still uses it.
THEOREM DisconnectWaits == Spec => []NoDisconnectUnderLoad
BY ServedHere, PromisesKept, Invariant, PTL

\* The semaphore neither leaks a slot nor gives one back twice.
THEOREM SlotsAccountedFor == Spec => []SlotsAccounted
BY ServedHere, PromisesKept, Invariant, PTL

\* Acks and failures are only counted for messages the broker answered so.
THEOREM VerdictsTruth == Spec => []VerdictsTruthful
<1>1. IInv => VerdictsTruthful
  BY VerdictsAnswered DEF IInv
<1>. QED  BY <1>1, Invariant, PTL

\* One latency per ack at QoS 1 and 2, none at QoS 0.
THEOREM LatencyForEveryAck == Spec => []LatencyPerAck
BY ServedHere, PromisesKept, Invariant, PTL

\* No verdict is counted ahead of its publish.
THEOREM NeverAhead == Spec => []CountsNeverAhead
<1>1. IInv => CountsNeverAhead
  BY NoneAhead DEF IInv, CountsNeverAhead
<1>. QED  BY <1>1, Invariant, PTL

-----------------------------------------------------------------------------
(* Stopping.                                                               *)

\* A Publish call is due when the client has taken the slot for it.
Due(c) == IF pc[c] = "publish" THEN 1 ELSE 0

\* The context is cancelled, and client c has at most one message to go from k.
Stopped(c, k) == ctxDone /\ sent[c] + Due(c) <= k + 1

\* Only a slot that was free before the context was cancelled can be taken.
LEMMA SendStepStops ==
    ASSUME TypeOK, NEW c \in Clients, NEW k \in 0..Count, Stopped(c, k),
           NEW d \in Clients, SendStep(d)
    PROVE  Stopped(c, k)'
<1>1. /\ sent \in [Clients -> 0..Count] /\ pc \in [Clients -> PCs]
      /\ sent[c] \in Nat /\ k \in Nat
  BY CountAssumption DEF TypeOK
<1>2. CASE d # c
  <2>1. pc'[c] = pc[c] /\ sent'[c] = sent[c] /\ ctxDone'
    BY <1>1, <1>2 DEF Stopped, SendStep, Start, Acquire, AcquireCancelled, Publish,
       CountPublished, Spawn, PauseOver, PauseCancelled, Drained, Disconnect, Goto
  <2>. QED  BY <2>1 DEF Stopped, Due
<1>3. CASE d = c /\ Publish(c)
  BY <1>1, <1>3 DEF Stopped, Publish, Goto, Due
<1>4. CASE d = c /\ ~Publish(c)
  <2>1. sent'[c] = sent[c] /\ ctxDone' /\ pc'[c] # "publish"
    BY <1>1, <1>4 DEF Stopped, SendStep, Start, Acquire, AcquireCancelled,
       CountPublished, Spawn, PauseOver, PauseCancelled, Drained, Disconnect, Goto
  <2>. QED  BY <1>1, <2>1 DEF Stopped, Due
<1>. QED  BY <1>2, <1>3, <1>4

\* The waiters and the broker send nothing.
LEMMA WaitStepStops ==
    ASSUME NEW c \in Clients, NEW k \in 0..Count, Stopped(c, k),
           NEW d \in Clients, NEW m \in Messages, WaitStep(d, m) \/ BrokerAnswers(d, m)
    PROVE  Stopped(c, k)'
<1>1. UNCHANGED <<ctxDone, pc, sent>>
  BY DEF WaitStep, CountTimedOut, CountFailed, RecordLatency, CountAcked, Release, WaiterDone,
     BrokerAnswers
<1>. QED  BY <1>1 DEF Stopped, Due

\* When the context is cancelled at most the slot just taken is due; what is due
\* counts.
LEMMA StoppedBounds ==
    ASSUME TypeOK, NEW c \in Clients, NEW k \in 0..Count
    PROVE  /\ ctxDone /\ sent[c] = k => Stopped(c, k)
           /\ Stopped(c, k) => sent[c] <= k + 1
BY CountAssumption DEF TypeOK, Stopped, Due

\* After the context is cancelled a client publishes at most once more: the
\* semaphore refuses every later slot.
THEOREM Stopping == Spec => StopsSending
<1>. SUFFICES ASSUME NEW c \in Clients, NEW k \in 0..Count
              PROVE  Spec => [](ctxDone /\ sent[c] = k => [](sent[c] <= k + 1))
  BY DEF StopsSending
<1>. DEFINE P == ctxDone /\ sent[c] = k
            Q == sent[c] <= k + 1
<1>1. TypeOK /\ P => Stopped(c, k)
  BY StoppedBounds
<1>2. TypeOK /\ Stopped(c, k) => Q
  BY StoppedBounds
<1>3. TypeOK /\ Stopped(c, k) /\ [Next]_vars => Stopped(c, k)'
  <2>. SUFFICES ASSUME TypeOK, Stopped(c, k), [Next]_vars
                PROVE  Stopped(c, k)'
    OBVIOUS
  <2>1. CASE Cancel \/ UNCHANGED vars
    BY <2>1 DEF Cancel, vars, Stopped, Due
  <2>. QED  BY <2>1, SendStepStops, WaitStepStops DEF Next, Terminating
<1>4. Spec => []TypeOK
  BY TypeCorrect
<1>. HIDE DEF P, Q
<1>5. Spec => [](P => []Q)
  BY <1>1, <1>2, <1>3, <1>4, PTL DEF Spec
<1>. QED  BY <1>5 DEF P, Q

-----------------------------------------------------------------------------
(* The refinement.                                                         *)

\* A message sent into a slot leaves fewer than InFlight others unsettled.
LEMMA SendFits ==
    ASSUME ServedInv, NEW c \in Clients, pc[c] = "publish"
    PROVE  /\ conn[c] # "closed" /\ sent[c] < Count
           /\ sent[c] - Ledger!Verdicts(c) < InFlight
<1>1. TypeOK /\ Sending(c) /\ Counting(c)
  BY DEF ServedInv, LoopInv
<1>2. /\ Cardinality(At(waiter[c], Unsettled)) \in Nat
      /\ Cardinality(At(waiter[c], Holding)) \in Nat
      /\ Cardinality(At(waiter[c], Unsettled)) <= Cardinality(At(waiter[c], Holding))
  <2>1. /\ At(waiter[c], Holding) \in SUBSET Messages
        /\ At(waiter[c], Unsettled) \in SUBSET At(waiter[c], Holding)
    BY DEF At, Holding
  <2>. QED  BY <2>1, FewerMessages
<1>3. held[c] = Cardinality(At(waiter[c], Holding)) + 1
  BY <1>1 DEF Counting, Publishing
<1>4. Ledger!Verdicts(c) + Cardinality(At(waiter[c], Unsettled)) = sent[c]
  BY <1>1 DEF Counting, Launched, Ledger!Verdicts
<1>5. /\ held[c] \in 0..InFlight /\ sent[c] \in 0..Count
      /\ Ledger!Verdicts(c) \in Nat
  BY <1>1 DEF TypeOK, Ledger!Verdicts
<1>6. conn[c] # "closed"
  BY DEF ServedInv, ClosedInv
<1>. QED  BY <1>1, <1>2, <1>3, <1>4, <1>5, <1>6, InFlightAssumption, CountAssumption DEF Sending

\* A waiter that has not settled keeps its client from closing, and its verdict
\* is the one the ledger still misses.
LEMMA SettleFits ==
    ASSUME ServedInv, NEW c \in Clients, NEW m \in Messages, waiter[c][m] \in Unsettled
    PROVE  conn[c] # "closed" /\ Ledger!Verdicts(c) < sent[c]
<1>1. TypeOK /\ Sending(c) /\ Counting(c)
  BY DEF ServedInv, LoopInv
<1>2. m \in At(waiter[c], Unsettled) /\ m \in At(waiter[c], Running)
  BY DEF At, Running, Holding
<1>3. conn[c] # "closed"
  BY <1>2, ClosedMeansSettled
<1>4. /\ Cardinality(At(waiter[c], Unsettled)) \in Nat
      /\ Cardinality(At(waiter[c], Unsettled)) # 0
  BY <1>2, MessagesFinite, FS_EmptySet DEF At
<1>5. Ledger!Verdicts(c) + Cardinality(At(waiter[c], Unsettled)) <= sent[c]
  BY <1>1, CountAssumption DEF TypeOK, Counting, Launched, Ledger!Verdicts
<1>6. sent[c] \in Nat /\ Ledger!Verdicts(c) \in Nat
  BY <1>1, CountAssumption DEF TypeOK, Ledger!Verdicts
<1>. QED  BY <1>3, <1>4, <1>5, <1>6

\* The initial states are those of the ledger.
LEMMA LedgerInit == Init => Ledger!Init
BY DEF Init, InitLoops, Ledger!Init

\* A step of a loop is a step of the ledger or leaves it alone: Publish sends,
\* Disconnect closes.
LEMMA LedgerSendStep ==
    ASSUME ServedInv, NEW c \in Clients, SendStep(c)
    PROVE  [Ledger!Next]_Ledger!vars
<1>. USE DEF Ledger!vars, counterVars
<1>1. ASSUME Publish(c)
      PROVE  Ledger!Send(c)
  BY <1>1, SendFits DEF Publish, Ledger!Send
<1>2. ASSUME Disconnect(c)
      PROVE  Ledger!Close(c)
  <2>1. TypeOK /\ Sending(c) /\ Counting(c) /\ ClosedInv
    BY DEF ServedInv, LoopInv
  <2>2. At(waiter[c], Running) = {}
    BY <1>2, <2>1, MessagesFinite, FS_EmptySet DEF Disconnect, Sending, Counting, At
  <2>3. At(waiter[c], Unsettled) = {}
    BY <2>2 DEF At, Running, Holding
  <2>4. Cardinality(At(waiter[c], Unsettled)) = 0
    BY <2>3, FS_EmptySet
  <2>5. Ledger!Verdicts(c) = sent[c]
    BY <1>2, <2>1, <2>4 DEF Disconnect, TypeOK, Counting, Launched, Ledger!Verdicts
  <2>6. {d \in Clients : conn'[d] = "closed"} = {d \in Clients : conn[d] = "closed"} \cup {c}
    BY <1>2, <2>1 DEF Disconnect, TypeOK
  <2>7. conn[c] # "closed"
    BY <1>2, <2>1 DEF Disconnect, ClosedInv
  <2>. QED  BY <1>2, <2>5, <2>6, <2>7 DEF Disconnect, Ledger!Close
<1>3. ASSUME ~Publish(c), ~Disconnect(c)
      PROVE  UNCHANGED Ledger!vars
  BY <1>3 DEF SendStep, Start, Acquire, AcquireCancelled, CountPublished, Spawn,
              PauseOver, PauseCancelled, Drained
<1>. QED  BY <1>1, <1>2, <1>3 DEF Ledger!Next

\* So is a step of a waiter, of which the three that count settle a message, and
\* an answer of the broker.
LEMMA LedgerWaitStep ==
    ASSUME ServedInv, NEW c \in Clients, NEW m \in Messages, WaitStep(c, m) \/ BrokerAnswers(c, m)
    PROVE  [Ledger!Next]_Ledger!vars
<1>. USE DEF Ledger!vars, counterVars
<1>1. ASSUME CountTimedOut(c, m) \/ CountFailed(c, m) \/ CountAcked(c, m)
      PROVE  Ledger!Settle(c)
  <2>1. waiter[c][m] \in Unsettled
    BY <1>1 DEF CountTimedOut, CountFailed, CountAcked, Unsettled
  <2>2. conn[c] # "closed" /\ Ledger!Verdicts(c) < sent[c]
    BY <2>1, SettleFits
  <2>. QED  BY <1>1, <2>2 DEF CountTimedOut, CountFailed, CountAcked, Ledger!Settle
<1>2. ASSUME RecordLatency(c, m) \/ Release(c, m) \/ WaiterDone(c, m) \/ BrokerAnswers(c, m)
      PROVE  UNCHANGED Ledger!vars
  BY <1>2 DEF RecordLatency, Release, WaiterDone, BrokerAnswers
<1>. QED  BY <1>1, <1>2 DEF WaitStep, Ledger!Next

\* A connection that is closed before its loop has started has nothing to settle.
LEMMA LedgerCloseUnused ==
    ASSUME ServedInv, NEW c \in Clients, pc[c] = "idle", conn' = [conn EXCEPT ![c] = "closed"],
           UNCHANGED <<sent, acked, failed, timedOut>>
    PROVE  [Ledger!Next]_Ledger!vars
<1>1. conn \in [Clients -> Conns]
  BY DEF ServedInv, LoopInv, TypeOK
<1>2. {d \in Clients : conn'[d] = "closed"} = {d \in Clients : conn[d] = "closed"} \cup {c}
  BY <1>1
<1>3. CASE conn[c] = "closed"
  <2>1. {d \in Clients : conn'[d] = "closed"} = {d \in Clients : conn[d] = "closed"}
    BY <1>2, <1>3
  <2>. QED  BY <2>1 DEF Ledger!vars
<1>4. CASE conn[c] # "closed"
  <2>1. Ledger!Verdicts(c) = sent[c]
    BY RestAddsUp DEF ServedInv, Ledger!Verdicts
  <2>. QED  BY <1>2, <1>4, <2>1 DEF Ledger!Next, Ledger!Close
<1>. QED  BY <1>3, <1>4

\* Every step keeps to the ledger.
LEMMA LedgerStep == IInv /\ [Next]_vars => [Ledger!Next]_Ledger!vars
<1>. SUFFICES ASSUME IInv, [Next]_vars
              PROVE  [Ledger!Next]_Ledger!vars
  OBVIOUS
<1>1. CASE Cancel \/ UNCHANGED vars
  BY <1>1 DEF Cancel, vars, Ledger!vars, counterVars
<1>. QED  BY <1>1, ServedHere, LedgerSendStep, LedgerWaitStep DEF Next, Terminating

\* Every publishing client keeps the ledger's promise: one verdict per message,
\* a window of InFlight, and a connection closed only when the verdicts are in.
THEOREM LedgerImplemented == Spec => Ledger!SafeSpec
<1>1. Init => Ledger!Init
  BY LedgerInit
<1>2. IInv /\ [Next]_vars => [Ledger!Next]_Ledger!vars
  BY LedgerStep
<1>. QED  BY <1>1, <1>2, Invariant, PTL DEF Spec, Ledger!SafeSpec

=============================================================================
