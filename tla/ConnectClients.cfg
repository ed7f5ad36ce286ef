\* Three clients through two places: one is always queued when the first of the
\* other two fails, and one can connect while another gives up.
SPECIFICATION Spec
CONSTANTS
    Clients = {c1, c2, c3}
    Limit = 2
INVARIANTS
    NothingLeftOpen
    SuccessMeansAll
    CauseReported
    FailuresWithinLimit
PROPERTIES
    StopsAfterFailure
