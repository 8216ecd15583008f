\* Once the bounded chain and faults are used up the reader waits for a log for ever.
SPECIFICATION FairSpec
CHECK_DEADLOCK FALSE
CONSTANTS
    Base = 4
    Capacity = 1
    SubBuffer = 2
    MaxLogs = 3
    MaxReorgs = 1
    MaxFaults = 2
    MaxCrashes = 1
INVARIANTS
    TypeOK
    HandedOver
PROPERTIES
    FeedSpec
    EveryPushDealt
