CONSTANTS
    w1 = w1
    w2 = w2
    Workers <- OneWorker
    Slots <- OneSlot
    NumEvents = 2
    PoolMax = 2
    BatchSize = 2
    MaxAttempts = 2
    MaxAge = 1
    MaxCrashes = 1
SPECIFICATION FairSpec
CHECK_DEADLOCK FALSE
PROPERTY DeliveredFromSmallPool
