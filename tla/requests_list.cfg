CONSTANTS
    p1 = p1
    g1 = g1
    g2 = g2
    Posts <- OnePost
    Gets <- OneGet
    Bodies <- SomeBodies
    ConfigRetries = 2
    DelayMax = 1
    MaxSkew = 1
    MaxTime = 3
SPECIFICATION Spec
CHECK_DEADLOCK FALSE
INVARIANTS
    ListIsAnswered
