CONSTANTS
    p1 = p1
    p2 = p2
    p3 = p3
    Processes <- ThreeProcesses
SPECIFICATION FairSpec
CHECK_DEADLOCK FALSE
INVARIANTS
    RecordMatchesSchema
    MInv
PROPERTIES
    SuccessMeansUpToDate
    UpsSucceed
