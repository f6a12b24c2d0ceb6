CONSTANTS
    w1 = w1
    w2 = w2
    c1 = c1
    c2 = c2
    Workers <- OneWorker
    Cancels <- NoCancel
    MaxAttempts = 2
    MaxStalled = 1
    MaxRuns = 3
    DeadLetter = TRUE
SPECIFICATION Spec
CHECK_DEADLOCK FALSE
INVARIANTS
    JInv
    DeadLettersExhausted
    GivenUpIsDeadLettered
PROPERTIES
    ImplementsReport
