SPECIFICATION FairSpec
CONSTANTS
    Workloads <- Sessions
    MaxFaults = 2
INVARIANTS TypeOK ServerInOrder FlushHonest StreamBeforeWrite
PROPERTIES UploaderIsChannel Progress
CHECK_DEADLOCK FALSE
