CONSTANTS
    m1 = m1
    m2 = m2
    m3 = m3
    Messages <- MCMessages
    WithId <- OnlyM1
    Rejected <- None
    MaxPoll = 3
    BatchSize = 2
    MaxLog = 4
    MaxFaults = 2
    MaxCrashes = 0
CHECK_DEADLOCK FALSE
SPECIFICATION Spec
INVARIANTS
    CommittedStored
