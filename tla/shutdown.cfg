CONSTANTS
    t1 = t1
    t2 = t2
    t3 = t3
    t4 = t4
    Tasks <- FourTasks
    PoolMax = 3
    MaxSignals = 2
SPECIFICATION FairSpec
CHECK_DEADLOCK FALSE
INVARIANTS
    JobsAreNotInterrupted
    CleanExitLeavesNoDuplicate
    SInv
PROPERTIES
    ShutdownEnds
