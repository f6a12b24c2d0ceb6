CONSTANTS
    w1 = w1
    w2 = w2
    c1 = c1
    c2 = c2
    Workers <- TwoWorkers
    Cancels <- TwoCancels
    MaxAttempts = 2
    MaxStalled = 1
    MaxRuns = 2
    DeadLetter = FALSE
SPECIFICATION Spec
SYMMETRY Symmetry
CHECK_DEADLOCK FALSE
INVARIANTS
    StrandedNeedsFault
    JobAccounted
    OneCancelWins
    StatusLogged
PROPERTIES
    CancelledFromQueued
