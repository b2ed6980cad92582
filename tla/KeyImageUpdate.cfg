SPECIFICATION ImageSpec
CONSTANTS
    PoolThreads = {p1}
    MainThread = main
    Keys = {k1, k2}
    NormalKeys = {k1}
    Payload = 2
    Sizes = {1, 4, 5}
    FirstPage = 0
    PageMod = 4
    MaxUpdates = 2
    MaxExecutions = 1
    MaxFailures = 0
INVARIANTS
    UpdateIsShown
CHECK_DEADLOCK FALSE
