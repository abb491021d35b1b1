CONSTANTS
    e1 = e1
    e2 = e2
    NoEvent = NoEvent
    Events <- TwoEvents
    Threats <- OneThreat
    Limit = 1
    Workers = 1
    MaxAttempts = 2
    MaxRuns = 2
    MaxFaults = 1
CHECK_DEADLOCK FALSE
SPECIFICATION Spec
PROPERTIES
    ReaperSparesVerdicts
