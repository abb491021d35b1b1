CONSTANTS
    c1 = c1
    c2 = c2
    c3 = c3
    c4 = c4
    c5 = c5
    c6 = c6
    e1 = e1
    e2 = e2
    e3 = e3
    e4 = e4
    e5 = e5
    e6 = e6
    w1 = w1
    w2 = w2
    NoCall = NoCall
    NoWorker = NoWorker
    Calls <- SharedCalls
    Events <- SharedEvents
    EventOf <- SharedEventOf
    Priority <- SharedPriority
    NeverDrop <- SharedNeverDrop
    FromOverflow <- OneFromOverflow
    Workers <- MCWorkers
    QueueMax = 1
    OverflowMax = 1
    RedisOn = TRUE
    KafkaOn = TRUE
    MaxCancels = 1
CHECK_DEADLOCK FALSE
SPECIFICATION FairSpec
INVARIANTS
    PoolSound
    
PROPERTIES
    DeliverySpec
    QueueDrains
