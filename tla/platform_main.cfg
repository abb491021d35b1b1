CONSTANTS
    m1 = m1
    m2 = m2
    m3 = m3
    m4 = m4
    r1 = r1
    r2 = r2
    r3 = r3
    r4 = r4
    r5 = r5
    Clients = {c1}
    MaxSubscribers = 1
    HistoryMax = 3
    QueueMax = 3
    ReplayLimit = 2
    MaxSeq = 5
    MaxBoots = 1
    Messages <- MCMessages
    Origin <- MCOrigin
    Key <- MCKey
    SeenMax = 1
    Callers <- MCCallers
    P0 <- MCP0
    Limit = 2
    Reserve = 1
    Entries = {e1, e2, e3}
    Flushers = {f1}
    BufferMax = 2
    MaxTrailFaults = 1
    Calls = {k1, k2, k3, k4}
    Flushes = {g1, g2}
    FallbackMax = 2
    MaxLogFaults = 2
    Events = {v1, v2}
    Clerks = {n1}
    MaxCaseFaults = 1
    Adders = {a1, a2, a3}
    MaxSize = 2
    MaxWindowFaults = 1
    Keys = {q1, q2}
    Configured = {q1}
    Requests = {t1, t2, t3}
    MaxSourceStarts = 1
    Editors = {d1, d2, d3}
    Drafts <- MCDrafts
    MaxVersionFaults = 1
    Processes = {p1, p2}
    Signatures = {s1, s2}
    VerdictTtl = 2
    MemMax = 1
    MaxNow = 4
    MaxAnswers = 2
    FlowKeys = {x1, x2}
    IdleTimeout = 0
    ActiveTimeout = 1
    MaxPackets = 2
    MaxTick = 3
    MaxFlowFaults = 1
    PacketsPerFile = 2
    MaxWritten = 5
    MaxMetaFaults = 1
    Hosts = {h1, h2}
    Patterns = {"scan", "post", "compromise", "leak"}
    Steps <- MCSteps
    MaxGap <- MCMaxGap
    MinMatch <- MCMinMatch
    HubPatterns <- MCHubPatterns
    MaxSession = 4
    MaxMinute = 2
    Entities = {i1}
    Hours = {0, 1}
    MaxAnalyzed = 3
    MaxWrites = 2
    MaxDecays = 2
    MaxLoads = 1
CHECK_DEADLOCK FALSE
SPECIFICATION Spec
INVARIANTS
    
    LimiterSound
    
    
    ShortTermSound
    
    ChainsFound
    CaptureSound
PROPERTIES
    InOrder
    PlatformProgress
