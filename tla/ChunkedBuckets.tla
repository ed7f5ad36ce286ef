--------------------------- MODULE ChunkedBuckets ---------------------------
(***************************************************************************)
(* One client's latency counters (chunkedLatencyBuckets in                 *)
(* internal/mqttload/latency_buckets.go): the waiters of a client record   *)
(* into them at the same time, without a lock, and a chunk of counters is  *)
(* allocated by whoever needs it first.  When all have finished the report *)
(* reads them (addTo).                                                     *)
(*                                                                         *)
(* A chunk is named after the waiter that allocated it.                    *)
(***************************************************************************)
EXTENDS LatencyBuckets, FiniteSets

CONSTANTS
    Waiters,    \* the goroutines that record
    Latencies,  \* what they may have measured
    None        \* a nil pointer

ASSUME WaitersAssumption   == IsFiniteSet(Waiters) /\ None \notin Waiters
ASSUME LatenciesAssumption == Latencies \subseteq Int

VARIABLES
    latency,  \* latency[w]: what w records
    pc,       \* pc[w]: where w stands in record
    slot,     \* slot[s]: the chunk installed there
    chunk,    \* chunk[w]: the chunk w holds in its local variable
    count,    \* count[w][offset]: the counters of the chunk w allocated
    report    \* report[v]: how often the report counts v

vars == <<latency, pc, slot, chunk, count, report>>

Slots   == 0..(CountsLength \div HalfCount - 1)
Offsets == 0..(HalfCount - 1)
SlotOf(w)   == CountsIndex(latency[w]) \div HalfCount
OffsetOf(w) == CountsIndex(latency[w]) % HalfCount
NoReport == [v \in 0..Highest |-> -1]

\* Every index the code computes is in range, or it would panic.
TypeOK ==
    /\ latency \in [Waiters -> Int]
    /\ pc \in [Waiters -> {"measure", "load", "install", "reload", "add", "done", "counted"}]
    /\ slot \in [Slots -> Waiters \cup {None}]
    /\ chunk \in [Waiters -> Waiters \cup {None}]
    /\ count \in [Waiters -> [Offsets -> 0..Cardinality(Waiters)]]
    /\ \A w \in Waiters : SlotOf(w) \in Slots /\ OffsetOf(w) \in Offsets

Empty ==
    /\ slot = [s \in Slots |-> None]
    /\ chunk = [w \in Waiters |-> None]
    /\ count = [w \in Waiters |-> [offset \in Offsets |-> 0]]
    /\ report = NoReport

Goto(w, label) == pc' = [pc EXCEPT ![w] = label]

\* chunkSlot.Load()
Load(w) ==
    /\ pc[w] = "load"
    /\ chunk' = [chunk EXCEPT ![w] = slot[SlotOf(w)]]
    /\ Goto(w, IF slot[SlotOf(w)] = None THEN "install" ELSE "add")
    /\ UNCHANGED <<latency, slot, count, report>>

\* Mutant: the new chunk is stored over another one.
StoreChunk(w) ==
    /\ pc[w] = "install"
    /\ slot' = [slot EXCEPT ![SlotOf(w)] = w]
    /\ chunk' = [chunk EXCEPT ![w] = w]
    /\ Goto(w, "add")
    /\ UNCHANGED <<latency, count, report>>

\* CompareAndSwap(nil, newChunk)
InstallChunk(w) ==
    /\ pc[w] = "install"
    /\ IF slot[SlotOf(w)] = None
       THEN /\ slot' = [slot EXCEPT ![SlotOf(w)] = w]
            /\ chunk' = [chunk EXCEPT ![w] = w]
            /\ Goto(w, "add")
       ELSE Goto(w, "reload") /\ UNCHANGED <<slot, chunk>>
    /\ UNCHANGED <<latency, count, report>>

\* Another goroutine installed its chunk first: use that one.
UseTheirs(w) ==
    /\ pc[w] = "reload"
    /\ chunk' = [chunk EXCEPT ![w] = slot[SlotOf(w)]]
    /\ Goto(w, "add")
    /\ UNCHANGED <<latency, slot, count, report>>

Add(w) ==
    /\ pc[w] = "add"
    /\ count' = [count EXCEPT ![chunk[w]][OffsetOf(w)] = @ + 1]
    /\ Goto(w, "done")
    /\ UNCHANGED <<latency, slot, chunk, report>>

\* addTo: every counter of every installed chunk goes into the histogram.
AddTo ==
    /\ \A w \in Waiters : pc[w] = "done"
    /\ report = NoReport
    /\ report' = [v \in 0..Highest |->
         LET here == {s \in Slots : slot[s] # None}
             hits == {so \in here \X Offsets : ValueForIndex(so[1] * HalfCount + so[2]) = v}
         IN  SumFunction([so \in hits |-> count[slot[so[1]]][so[2]]])]
    /\ UNCHANGED <<latency, pc, slot, chunk, count>>

Record(w) == Load(w) \/ InstallChunk(w) \/ UseTheirs(w) \/ Add(w)

-----------------------------------------------------------------------------
(* Properties.                                                             *)

\* No latency is lost or counted twice, whoever wins the race for a chunk: a
\* counter in an installed chunk is the number of waiters that added to it.
NothingLost ==
    \A s \in Slots, offset \in Offsets :
        (IF slot[s] = None THEN 0 ELSE count[slot[s]][offset])
          = Cardinality({w \in Waiters :
                pc[w] = "done" /\ SlotOf(w) = s /\ OffsetOf(w) = offset})

=============================================================================
