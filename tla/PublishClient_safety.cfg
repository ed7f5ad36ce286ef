\* Two clients, two messages each, one slot: both block on their semaphores
\* while their waiters, the broker and the context race.
SPECIFICATION Spec
CONSTANTS
    Clients = {c1, c2}
    Count = 2
    InFlight = 1
    QoS = 1
    Paced = TRUE
SYMMETRY ClientSymmetry
INVARIANTS
    TypeOK
    EveryPublishSettled
    NoDisconnectUnderLoad
    SlotsAccounted
    VerdictsTruthful
    LatencyPerAck
