SPECIFICATION FairSpec
CONSTANTS
    NumClients = 3
    MaxConnections = 2
    Workers = {w1}
    Messages = 1
    SQSize = 3
    None = none
INVARIANTS
    SlotsConserved
    OwnCompletion
    OneDriver
    ResponseInOrder
    CompletionsAnnounced
PROPERTIES
    RingIsFifo
    ReceivedIsReleased
    ShutdownEnds
CHECK_DEADLOCK FALSE
