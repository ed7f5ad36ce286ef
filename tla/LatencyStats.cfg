\* Three waiters or callbacks that meet in one chunk, in neighbouring ones, at the
\* borders of buckets, below zero and above the maximum; two sub-buckets to the
\* half; words of four bits with two digits to the base of three.
SPECIFICATION StatsSpec
CONSTANTS
    HalfShift = 1
    Highest = 11
    CountsLength = 8
    Waiters = {w1, w2, w3}
    Latencies <- MCLatencies
    None = None
    Base = 3
    MaxDigits = 2
    Width = 4
    SetSize = 2
    Payloads <- MCPayloads
    Arrivals = {5}
SYMMETRY WaiterSymmetry
INVARIANTS
    NothingLost
    ReportMatchesLayout
    TimestampsRead
