---------------------------- MODULE LatencyStats ----------------------------
(***************************************************************************)
(* All latencies of a run: the dense counters every run shares             *)
(* (latencyBuckets and latencyBucketSet in latency_buckets.go), recorded   *)
(* by the waiters of pub at QoS 1 and 2 (waitForResult) or the callbacks   *)
(* of sub --benchmark (recordLatency), and with --per-client-stats the     *)
(* chunked counters of each client as well.  The report adds the counters  *)
(* up one by one: that of pub when all waiters have finished, that of sub  *)
(* whether or not callbacks are still recording.                           *)
(***************************************************************************)
EXTENDS ChunkedBuckets, BenchmarkPayload

CONSTANTS
    SetSize,   \* length of a latencyBucketSet
    Payloads,  \* what sub may receive
    Arrivals   \* when, in milliseconds

ASSUME SetSizeAssumption == SetSize \in Nat \ {0}
ASSUME MessagesAssumption ==
    /\ Payloads \subseteq [prefix: BOOLEAN, digits: Seq(0..Base - 1), end: Ends]
    /\ Arrivals \subseteq Int

VARIABLES
    command,            \* "pub", "pub --per-client-stats" or "sub"
    number,             \* number[w]: the client of w, or the number of its message
    payload, arrivedAt, \* payload[w], arrivedAt[w]: the message of callback w
    shared,             \* shared[i][index]: the counters of the set
    withoutTimestamp, negativeLatency,
    sharedReport,       \* sharedReport[v]: how often the histogram has v
    cursor,             \* the counter that addTo adds next: member, index
    early               \* who had recorded when addTo began

messageVars == <<command, number, payload, arrivedAt>>
chunkedVars == <<slot, chunk, count, report>>
reportVars  == <<sharedReport, cursor, early>>
statsVars   == <<shared, withoutTimestamp, negativeLatency, reportVars>>
allVars     == <<vars, messageVars, statsVars>>

Members == 0..SetSize - 1
Indexes == 0..CountsLength - 1
PerClient == "pub --per-client-stats"
Numbers == 1..Cardinality(Waiters)

\* pub: the waiters of different clients, or, for the chunked counters, of one.
StatsInit ==
    /\ command \in {"pub", PerClient, "sub"}
    /\ pc = [w \in Waiters |-> "measure"]
    /\ Empty
    /\ sharedReport = [v \in 0..Highest |-> 0] /\ cursor = <<0, 0>> /\ early = {}
    /\ shared = [i \in Members |-> [index \in Indexes |-> 0]]
    /\ withoutTimestamp = 0 /\ negativeLatency = 0
    /\ IF command = "sub"
       THEN /\ latency = [w \in Waiters |-> 0]
            /\ number \in {f \in [Waiters -> Numbers] : IsInjective(f)}
            /\ payload \in [Waiters -> Payloads] /\ arrivedAt \in [Waiters -> Arrivals]
       ELSE /\ latency \in [Waiters -> Latencies]
            /\ number \in IF command = "pub" THEN [Waiters -> Numbers] ELSE {[w \in Waiters |-> 1]}
            /\ payload = [w \in Waiters |-> None] /\ arrivedAt = [w \in Waiters |-> 0]

-----------------------------------------------------------------------------

Goes(w, to) == pc[w] = "measure" /\ pc' = [pc EXCEPT ![w] = to]

\* forClient
ForClient(n) == n % SetSize

\* latencyBuckets.record
Recorded(w, v) == [shared EXCEPT ![ForClient(number[w])][CountsIndex(v)] = @ + 1]

\* waitForResult records the latency of an ack, here and then per client.
RecordAck(w) ==
    /\ command # "sub"
    /\ Goes(w, IF command = PerClient THEN "load" ELSE "counted")
    /\ shared' = Recorded(w, latency[w])
    /\ UNCHANGED <<latency, chunkedVars, messageVars>>
    /\ UNCHANGED <<withoutTimestamp, negativeLatency, reportVars>>

\* recordLatency, of which every path ends in one atomic add.
RecordLatency(w) ==
    LET timestamp == BenchmarkTimestamp(payload[w])
        milliseconds == arrivedAt[w] - timestamp
    IN  /\ command = "sub"
        /\ Goes(w, "counted")
        /\ \/ /\ timestamp = Unread
              /\ withoutTimestamp' = withoutTimestamp + 1
              /\ UNCHANGED <<shared, negativeLatency, latency>>
           \/ /\ timestamp # Unread /\ milliseconds < 0
              /\ negativeLatency' = negativeLatency + 1
              /\ UNCHANGED <<shared, withoutTimestamp, latency>>
           \/ /\ timestamp # Unread /\ milliseconds >= 0
              /\ shared' = Recorded(w, milliseconds)
              /\ latency' = [latency EXCEPT ![w] = milliseconds]
              /\ UNCHANGED <<withoutTimestamp, negativeLatency>>
        /\ UNCHANGED <<chunkedVars, messageVars, reportVars>>

-----------------------------------------------------------------------------

\* Those that have recorded in the set.
Recorders == {w \in Waiters : pc[w] # "measure"}

\* What RunPublish waits for before it returns; RunSubscribe waits for no callback.
Finished == \A w \in Waiters : pc[w] \in {"done", "counted"}

\* One step of addTo: a counter is loaded and added to the histogram.
AddCount(i, index) ==
    /\ i \in Members
    /\ command # "sub" => Finished
    /\ sharedReport' = IF shared[i][index] = 0 THEN sharedReport
                      ELSE [sharedReport EXCEPT ![ValueForIndex(index)] = @ + shared[i][index]]
    /\ early' = IF cursor = <<0, 0>> THEN Recorders ELSE early
    /\ UNCHANGED <<vars, messageVars, shared, withoutTimestamp, negativeLatency>>

\* Mutant: the counters of the first member only.
AddToFirst ==
    LET i == cursor[1]
        index == cursor[2]
    IN  /\ AddCount(i, index)
        /\ cursor' = IF index + 1 \in Indexes THEN <<i, index + 1>> ELSE <<SetSize, 0>>

\* latencyBucketSet.addTo: every counter of one member after the other.
AddToShared ==
    LET i == cursor[1]
        index == cursor[2]
    IN  /\ AddCount(i, index)
        /\ cursor' = IF index + 1 \in Indexes THEN <<i, index + 1>> ELSE <<i + 1, 0>>

Reported == cursor = <<SetSize, 0>>

StatsNext ==
    \/ \E w \in Waiters : RecordAck(w) \/ RecordLatency(w)
    \/ \E w \in Waiters : Record(w) /\ UNCHANGED <<messageVars, statsVars>>
    \/ AddToShared
    \/ command = PerClient /\ AddTo /\ UNCHANGED <<messageVars, statsVars>>
    \/ Reported /\ (command = PerClient => report # NoReport) /\ UNCHANGED allVars

StatsSpec == StatsInit /\ [][StatsNext]_allVars

-----------------------------------------------------------------------------
(* Properties.                                                             *)

\* The number the digits of a payload stand for, however many there are.
Stated(p) == SumFunction([i \in DOMAIN p.digits |-> p.digits[i] * Place(Len(p.digits) - i)])

\* "The payload must start with {"timestamp":, followed by up to 19 digits and
\* then a comma or a closing brace", and be an int64.
HasTimestamp(p) ==
    /\ p.prefix /\ p.digits # <<>> /\ Len(p.digits) <= MaxDigits
    /\ p.end \in {"comma", "brace"} /\ Stated(p) <= MaxInt

\* Those whose latency is recorded.
Measured == {w \in Waiters :
    command = "sub" => HasTimestamp(payload[w]) /\ arrivedAt[w] >= Stated(payload[w])}

\* The value at which the layout of the histogram counts a latency: all values
\* below SubBucketCount, and of each later range of twice the size the
\* HalfCount values that divide it evenly; the greatest that is not above it.
Layout == (0..(SubBucketCount - 1))
            \cup UNION {{k * 2^b : k \in HalfCount..(SubBucketCount - 1)} : b \in 1..Highest}
Placed(v) == Max({x \in Layout : x <= Clamp(v)})
PlacedAt(W, v) == {w \in W \cap Measured : Placed(latency[w]) = v}
Expected == [v \in 0..Highest |-> Cardinality(PlacedAt(Waiters, v))]

\* Every latency of pub is in the report exactly once, at its place in the layout,
\* negative ones at 0 and those over the maximum at the maximum's, whichever
\* counters it went through: those of the set, which clients share, and those of
\* the client.  In the report of sub, read while callbacks record, none is twice or
\* elsewhere, and only one recorded after the reading began may be missing.
ReportMatchesLayout ==
    /\ Reported => \A v \in 0..Highest :
          sharedReport[v] \in Cardinality(PlacedAt(early, v))..Cardinality(PlacedAt(Recorders, v))
    /\ Reported /\ command # "sub" => sharedReport = Expected
    /\ report # NoReport => report = Expected

\* Every message that sub has recorded is counted exactly once: by its latency, which
\* is the one its digits say, as from a clock that is ahead, or as without a
\* timestamp, even where its digits overflow the word; what pub writes is always
\* read back.
TimestampsRead ==
    /\ command = "sub" =>
          /\ withoutTimestamp = Cardinality({w \in Recorders : ~HasTimestamp(payload[w])})
          /\ withoutTimestamp + negativeLatency + Cardinality(Recorders \cap Measured)
                = Cardinality(Recorders)
          /\ \A w \in Recorders \cap Measured : latency[w] = arrivedAt[w] - Stated(payload[w])
    /\ \A time \in 0..MaxInt : BenchmarkTimestamp(BenchmarkPayloadAt(time)) = time

=============================================================================
