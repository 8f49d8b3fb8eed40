SPECIFICATION Spec
CONSTANTS
    Requests = {r1}
    Backlog = 1
    MaxRetries = 0
    MaxBrigades = 2
INVARIANT
    BodyDiscarded
