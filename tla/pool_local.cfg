CONSTANTS
    c1 = c1
    c2 = c2
    c3 = c3
    c4 = c4
    c5 = c5
    c6 = c6
    e1 = e1
    e2 = e2
    e3 = e3
    e4 = e4
    e5 = e5
    e6 = e6
    w1 = w1
    w2 = w2
    NoCall = NoCall
    NoWorker = NoWorker
    Calls <- SixCalls
    Events <- DistinctEvents
    EventOf <- SixEventOf
    Priority <- SixPriority
    NeverDrop <- SixCalls
    FromOverflow <- NoneFromOverflow
    Workers <- MCWorkers
    QueueMax = 2
    OverflowMax = 4
    RedisOn = FALSE
    KafkaOn = FALSE
    MaxCancels = 2
CHECK_DEADLOCK FALSE
SPECIFICATION TurnsSpec
SYMMETRY Interchangeable
INVARIANTS
    WorkersSound
    NeverDropKept
    FairTurns
