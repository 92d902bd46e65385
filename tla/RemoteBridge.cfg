SPECIFICATION FairSpec
CONSTANTS
    History = h
    Result = r
    Sessions <- Small
INVARIANTS TypeOK OneOpen NewestEpoch InOrder
PROPERTIES GateOpens
CHECK_DEADLOCK FALSE
