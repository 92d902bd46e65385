SPECIFICATION FairSpec
CONSTANTS
    MaxBlocks = 2
    MaxAttempts = 2
    Kinds <- KnownKinds
INVARIANTS
    ErrorHasCulprit
    DrainComplete
PROPERTIES
    NoCallAfterCancel
    TurnEnds
\* The turn ends.
CHECK_DEADLOCK FALSE
