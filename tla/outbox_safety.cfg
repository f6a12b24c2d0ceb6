CONSTANTS
    w1 = w1
    w2 = w2
    Workers <- TwoWorkers
    Slots <- OneSlot
    NumEvents = 2
    PoolMax = 2
    BatchSize = 1
    MaxAttempts = 2
    MaxAge = 1
    MaxCrashes = 2
SPECIFICATION FairSpec
CHECK_DEADLOCK FALSE
INVARIANTS
    ExclusiveDispatch
    OffersNeedCrashes
    IInv
    ProcessedOnlyAfterCrash
PROPERTIES
    ProcessedIsFinal
    ImplementsDelivery
    EveryEventDelivered
