SPECIFICATION FairSpec
CONSTANTS
    Requests = {r1, r2}
    Backlog = 1
    MaxRetries = 1
    MaxBrigades = 2
INVARIANTS
    NoSplitOwnership
    HandedOffNotShut
    NoDescriptorLeak
    AnsweredOrHandedOff
PROPERTY
    ImplementsOwnership
    WorkerFreed
