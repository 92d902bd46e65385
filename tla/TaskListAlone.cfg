SPECIFICATION Spec
CONSTANTS
    a1 = a1
    a2 = a2
    none = none
    NoProc <- none
    Procs <- One
    Kinds = {"create", "reset", "hide", "work", "update", "block", "unassign", "delete"}
    Mortal = {}
    Initial = 2
    MaxOps = 3
    MaxId = 5
INVARIANTS ReferencesAgree
CHECK_DEADLOCK FALSE
