SPECIFICATION FairSpec
CONSTANTS
    Scripts <- Waiting
    Metadata <- MetadataKeys
    Cleared <- ClearedKeys
    MaxFaults = 3
PROPERTIES ServerIsRegister ServerCatchesUp
CHECK_DEADLOCK FALSE
