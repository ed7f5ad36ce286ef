\* One message: it may be the first to arrive after the run has stopped.
SPECIFICATION Spec
CONSTANTS
    Messages = {m1}
    Settings <- EndlessOnly
    ResetAfter = 0
    MaxTime <- LongClock
INVARIANTS
    ElapsedNotNegative
