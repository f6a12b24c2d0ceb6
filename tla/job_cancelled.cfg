CONSTANTS
    w1 = w1
    w2 = w2
    c1 = c1
    c2 = c2
    Workers <- OneWorker
    Cancels <- OneCancel
    MaxAttempts = 2
    MaxStalled = 1
    MaxRuns = 2
    DeadLetter = TRUE
SPECIFICATION Spec
CHECK_DEADLOCK FALSE
PROPERTIES
    CancelledIsSkipped
