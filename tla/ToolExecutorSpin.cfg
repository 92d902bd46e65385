SPECIFICATION FairSpec
CONSTANTS
    MaxBlocks = 2
    MaxAttempts = 1
    Kinds <- SpinKinds
PROPERTIES
    TurnEnds
\* The turn ends.
CHECK_DEADLOCK FALSE
