SPECIFICATION Spec
CONSTANTS
    VHosts = {v1}
    Main = main
    Prefixes = {run, app, rel}
    RunPrefix = run
    BadPrefixes = {rel}
    Dirs = {d1, d2}
    NULL = null
    Numbers <- MCNumbers
    MaxDirectives = 2
INVARIANTS
    ServedInRange
    Inherits
    
CHECK_DEADLOCK FALSE
