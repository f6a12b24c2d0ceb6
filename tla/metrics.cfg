CONSTANTS
    s1 = s1
    s2 = s2
    s3 = s3
    s4 = s4
    j1 = j1
    r1 = r1
    r2 = r2
    r3 = r3
    Scrapes <- FourScrapes
    Interval = 2
    Cap = 2
    Jobs <- OneJob
    Runs <- ThreeRuns
    MaxTime = 5
SPECIFICATION Spec
SYMMETRY Symmetry
CHECK_DEADLOCK FALSE
INVARIANTS
    LoadIsBounded
    OneRefreshBehind
    GaugeDriftsUp
    DurationIsOfThisRun
    DInv
PROPERTIES
    RefreshIsReported
    CountsNeverGoBack
