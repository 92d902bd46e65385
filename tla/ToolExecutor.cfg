SPECIFICATION Spec
CONSTANTS
    MaxBlocks = 3
    MaxAttempts = 1
    Kinds <- CoreKinds
INVARIANTS
    TypeOK
    ExclusiveCalls
    StartInOrder
    ContextInOrder
    BarrierOrder
    AnsweredOnce
\* The turn ends.
CHECK_DEADLOCK FALSE
