SPECIFICATION Spec
CONSTANTS
    GoDaemons = {g}
    UringDaemons = {u}
    FdrecvDaemons = {f}
    NoFile = nofile
INVARIANTS
    ServingReachable
    NoFalseRefusal
