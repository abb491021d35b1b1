CONSTANTS
    v1 = v1
    v2 = v2
    v3 = v3
    v4 = v4
    Records <- MCRecords
    Accepted = {v1, v2, v3}
    SrcIp <- MCSrcIp
    Digest <- MCDigest
    High = {v2}
    Complete = {v3}
    MaxTopic = 3
    MaxRestarts = 1
    Severities = {"critical", "medium", "info"}
    Nights = {1}
    ColdStart = 2
    MaxAlerts = 2
    StaticLimit = 3
    MaxWindow = 2
    MaxEvents = 7
    MaxIdles = 1
    Chains <- MCChains
    Within <- MCWithin
    Ttl = 6
    EventTypes = {"login", "access", "move", "exfil"}
    MaxPause = 3
    MaxChainEvents = 6
    Partitions = {1, 2}
    Length = 2
    Slack = 1
    ColdWindows = 2
    FloodLimit = 3
    AlertsPerWindow = 2
    Sigmas = 1
    MaxTime = 7
    MaxFlows = 7
    MaxReplays = 1
    Subtasks = {1, 2}
    Hashes = {h1}
    MaxMessages = 3
    MaxTlsRestarts = 1
SPECIFICATION JobsSpec
CHECK_DEADLOCK FALSE
INVARIANTS
    
    
    TlsSound
PROPERTIES
    TopicIsValidated
