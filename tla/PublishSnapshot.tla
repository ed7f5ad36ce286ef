-------------------------- MODULE PublishSnapshot ---------------------------
(***************************************************************************)
(* What the progress bar, the summary line and the sampler see of the       *)
(* counters while clients publish: sumPublishCounters in counters.go loads  *)
(* one atomic after the other, client by client, and sampleTotal in         *)
(* publish_stats.go and the bar turn successive totals into growth.         *)
(***************************************************************************)
EXTENDS PublishClient, Sequences, SequencesExt

CONSTANT MaxSnapshots  \* bound on the snapshots taken

ASSUME ClientsAssumption      == IsFiniteSet(Clients)
ASSUME MaxSnapshotsAssumption == MaxSnapshots \in Nat

VARIABLES
    loads,     \* loads made of the snapshot being taken, -1 between snapshots
    summary,   \* the sums so far
    before,    \* the true totals when the snapshot began
    previous,  \* the totals of the snapshot before
    growth,    \* everything that was added to a bar or a list of samples
    snapshots  \* snapshots taken

readerVars == <<loads, summary, before, previous, growth, snapshots>>
allVars == <<vars, readerVars>>

Order    == SetToSeq(Clients)
Counters == <<"published", "acked", "failed", "timedOut">>
Names    == {"published", "acked", "failed", "timedOut"}
AllLoads == Len(Order) * Len(Counters)
Zero     == [name \in Names |-> 0]

Counter(c) == [published |-> published[c], acked |-> acked[c],
               failed |-> failed[c], timedOut |-> timedOut[c]]
Totals == [name \in Names |-> SumFunction([c \in Clients |-> Counter(c)[name]])]

SnapshotInit ==
    /\ Init
    /\ loads = -1 /\ summary = Zero /\ before = Zero
    /\ previous = Zero /\ growth = Zero /\ snapshots = 0

BeginSnapshot ==
    /\ loads = -1 /\ snapshots < MaxSnapshots
    /\ loads' = 0 /\ summary' = Zero /\ before' = Totals /\ snapshots' = snapshots + 1
    /\ UNCHANGED <<vars, previous, growth>>

\* The counter whose turn it is.
Loaded == Counters[(loads % 4) + 1]
Owner  == Order[(loads \div 4) + 1]

LoadInto(value) ==
    /\ loads \in 0..AllLoads - 1
    /\ summary' = [summary EXCEPT ![Loaded] = @ + value]
    /\ loads' = loads + 1
    /\ UNCHANGED <<vars, before, previous, growth, snapshots>>

\* Mutant: the acks are guessed from the publishes without a verdict.
LoadGuessed ==
    LoadInto(IF Loaded = "acked" THEN published[Owner] - failed[Owner] - timedOut[Owner]
                                 ELSE Counter(Owner)[Loaded])

\* One atomic load of sumPublishCounters.
LoadCounter == LoadInto(Counter(Owner)[Loaded])

UseSnapshotAnd(total) ==
    /\ loads = AllLoads
    /\ growth' = [name \in Names |-> growth[name] + summary[name] - previous[name]]
    /\ previous' = total
    /\ loads' = -1 /\ summary' = Zero /\ before' = Zero
    /\ UNCHANGED <<vars, snapshots>>

\* Mutant: the total to compare with next time is read again.
UseSnapshotReadAgain == UseSnapshotAnd(Totals)

\* total - previousTotal is appended to the samples, or added to the bar.
UseSnapshot == UseSnapshotAnd(summary)

Reader == BeginSnapshot \/ LoadCounter \/ UseSnapshot

SnapshotNext == (Next /\ UNCHANGED readerVars) \/ Reader

SnapshotSpec == SnapshotInit /\ [][SnapshotNext]_allVars /\ Fairness

-----------------------------------------------------------------------------
(* Properties.                                                             *)

\* A snapshot is torn, but not by more than what happened while it was taken:
\* each total was reached between its beginning and its end, verdicts exceed
\* publishes by no more than was published meanwhile, and a snapshot of a run
\* that is over adds up, which is what the summary and the report rely on.
SnapshotsBetween ==
    loads = AllLoads =>
        /\ \A name \in Names : summary[name] \in before[name]..Totals[name]
        /\ summary.acked + summary.failed + summary.timedOut
              <= summary.published + (Totals.published - before.published)
        /\ AllDone /\ before = Totals =>
              summary.acked + summary.failed + summary.timedOut = summary.published

\* Growth is never negative, and nothing that was counted is missing from the
\* samples or shown twice on a bar: all growth so far is the last total.
GrowthAddsUp ==
    /\ loads = AllLoads => \A name \in Names : summary[name] >= previous[name]
    /\ growth = previous

=============================================================================
