\* Two clients connect at once, and Ctrl-C arrives after one of them has failed.
SPECIFICATION Spec
CONSTANTS
    Clients = {c1, c2}
    Limit = 2
    Count = 1
    InFlight = 1
    QoS = 1
    Paced = TRUE
PROPERTY
    ConnectFailureReported
