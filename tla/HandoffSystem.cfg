SPECIFICATION SystemSpec
CONSTANTS
    Requests = {r1, r2}
    Backlog = 1
    MaxRetries = 0
    MaxBrigades = 1
    MaxConnections = 1
    NoRequest = none
SYMMETRY Symmetry
CONSTRAINT HandoffsOnly
INVARIANT
    ClientAnswered
PROPERTY
    KeepsContract
