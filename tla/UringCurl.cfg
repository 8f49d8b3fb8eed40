SPECIFICATION FairSpec
CONSTANTS
    NumClients = 2
    MaxConnections = 2
    MessageUnits = 2
    DefaultSize = 1
    MaxSize = 2
    None = none
INVARIANTS
    BuffersInBounds
    WritesInOrder
    DataMoves
    StreamConserved
PROPERTIES
    
    ReceivedIsReleased
CHECK_DEADLOCK FALSE
