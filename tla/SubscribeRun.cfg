\* Two messages.  Unordered with --count 1 and a bar: the second callback overlaps
\* the first, the end of the run, and the reading of the report.  Ordered with
\* --count 2 and log lines: the recorded times, and resets after silence.
SPECIFICATION Spec
CONSTANTS
    Messages = {m1, m2}
    Settings <- BothDisplays
    ResetAfter = 0
    MaxTime <- ClockIfLogging
INVARIANTS
    ClosedOnce
    StopsForAReason
    FailureIsSilent
    SamplesFinal
    RatesAddUp
PROPERTIES
    ResetInSilence
    EndTimeKept
    OrderedTimes
    CommandReturns
