SPECIFICATION FairSpec
CONSTANTS
    Workloads <- Sessions
    MaxChains = 2
    MaxCancels = 1
INVARIANTS TypeOK NothingLost SentOnce
PROPERTIES TurnsFollow NoCommandStalls
CHECK_DEADLOCK FALSE
