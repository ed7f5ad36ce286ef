\* One client with a window wider than one, and the combination in which only
\* the semaphore notices Ctrl-C: QoS 0 and no interval.
SPECIFICATION Spec
CONSTANTS
    Clients = {c1}
    Count = 3
    InFlight = 2
    QoS = 0
    Paced = FALSE
PROPERTIES
    ImplementsLedger
    StopsSending
    RunEnds
