CONSTANTS
    e1 = e1
    e2 = e2
    e3 = e3
    e4 = e4
    Events <- MCEvents
    Topic <- MCTopic
    WithId <- MCWithId
    Severe <- MCSevere
    Sheddable <- MCSheddable
    Invalid <- MCInvalid
    Poison <- MCPoison
    DlqUp = TRUE
    MaxRetry = 2
    MaxFaults = 1
    MaxCrashes = 1
    MaxStops = 1
CHECK_DEADLOCK FALSE
SPECIFICATION FairSpec
INVARIANTS
    RowsSound
    
PROPERTIES
    TopicConsumed
