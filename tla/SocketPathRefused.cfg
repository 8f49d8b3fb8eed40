SPECIFICATION Spec
CONSTANTS
    GoDaemons = {}
    UringDaemons = {u1, u2}
    FdrecvDaemons = {}
    NoFile = nofile
PROPERTY
    RefusedLeavesPath
