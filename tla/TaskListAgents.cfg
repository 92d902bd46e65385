SPECIFICATION FairSpec
CONSTANTS
    a1 = a1
    a2 = a2
    none = none
    NoProc <- none
    Procs <- Two
    Kinds = {"create", "reset", "work", "claimBusy", "update"}
    Mortal = {a1}
    Initial = 2
    MaxOps = 2
    MaxId = 4
INVARIANTS TypeOK LockDiscipline NoLostUpdate ClaimExclusive IdsFresh
PROPERTIES OperationsEnd
CHECK_DEADLOCK FALSE
