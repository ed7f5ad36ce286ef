\* Two clients, one message each: the smallest run in which one client can fail
\* to connect, or finish, while the other is at any other point.
SPECIFICATION Spec
CONSTANTS
    Clients = {c1, c2}
    Limit = 2
    Count = 1
    InFlight = 1
    QoS = 1
    Paced = TRUE
INVARIANTS
    PublishOnlyWhenAllConnected
    CleanExit
    NumbersAgree
    ExitTruthful
    DisplayFollowsRun
PROPERTIES
    CommandReturns
