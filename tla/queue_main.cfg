CONSTANTS
    p0 = p0
    p1 = p1
    NoEvent = NoEvent
    NoJob = NoJob
    Events <- MCEvents
    Priority <- MCPriority
    P0 <- MCP0
    Agent <- MCAgent
    Ttl <- MCTtl
    MinLife = 3
    Retries = 1
    Batch = 2
    Window = 2
    PurgeWindow = 2
    Limit = 1
    Offers <- MCOffers
    MaxNow = 4
    MaxStarts = 1
    MaxPressure = 1
    MaxFaults = 1
SPECIFICATION FairSpec
INVARIANTS
    
    PostponedKept
PROPERTIES
    QueueDrains
