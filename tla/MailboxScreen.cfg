SPECIFICATION Spec
CONSTANTS
    Teams <- Screen
    MaxSenders = 2
    MaxFaults = 0
INVARIANTS ReadWasDelivered
CHECK_DEADLOCK FALSE
