SPECIFICATION Spec
CONSTANTS
    MaxRetries = 2
    ConnectTimeout = 3
    SendTimeout = 4
    Shl <- MCShl
    MaxLate = 2
    MaxSignals = 1
INVARIANTS
    SendBudget
    NoSpuriousExpiry
    DeadlineHolds
PROPERTY
    Terminates
