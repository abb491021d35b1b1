CONSTANTS
    m1 = m1
    m2 = m2
    m3 = m3
    Messages <- MCMessages
    WithId <- OnlyM1
    Rejected <- OnlyM3
    MaxPoll = 3
    BatchSize = 2
    MaxLog = 4
    MaxFaults = 2
    MaxCrashes = 1
CHECK_DEADLOCK FALSE
SPECIFICATION FairSpec
INVARIANTS
    RowsSound
    CrashesLoseNothing
PROPERTIES
    TopicDrains
