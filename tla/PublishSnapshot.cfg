\* Two clients with one message each, and two snapshots: a counter of either
\* client moves between any two loads.
SPECIFICATION SnapshotSpec
CONSTANTS
    Clients = {c1, c2}
    Count = 1
    InFlight = 1
    QoS = 0
    Paced = FALSE
    MaxSnapshots = 2
INVARIANTS
    SnapshotsBetween
    GrowthAddsUp
