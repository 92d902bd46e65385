SPECIFICATION FairSpec
CONSTANTS
    Teams <- Small
    MaxSenders = 2
    MaxFaults = 2
INVARIANTS TypeOK NothingLost DeliveredInOrder
PROPERTIES FileIsInbox EventuallyDelivered
CHECK_DEADLOCK FALSE
