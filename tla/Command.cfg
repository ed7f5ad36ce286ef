\* Every combination of TLS settings, then a dump whose callbacks overlap when a
\* write fails, with up to three signals at any moment.
SPECIFICATION ProcessSpec
CONSTANTS
    Messages = {m1, m2, m3}
    Ordered = FALSE
    JSON = TRUE
    Invocations <- MCInvocations
    MaxSignals = 3
INVARIANTS
    OneError
    LeavesCleanly
    StatusTruthful
PROPERTIES
    DialsAsAsked
    NothingAfterFailure
    ProcessEnds
