SPECIFICATION FairSpec
CONSTANTS
    Requests = {r1, r2}
    Backlog = 2
    MaxConnections = 1
    NoRequest = none
INVARIANTS
    OneResponse
    SlotsReturned
    ReceivedIsAnswered
    GracefulExit
PROPERTY
    ShutdownEnds
