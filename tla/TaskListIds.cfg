SPECIFICATION Spec
CONSTANTS
    a1 = a1
    a2 = a2
    none = none
    NoProc <- none
    Procs <- Two
    Kinds = {"create", "delete"}
    Mortal = {}
    Initial = 1
    MaxOps = 2
    MaxId = 3
INVARIANTS IdsFresh
CHECK_DEADLOCK FALSE
