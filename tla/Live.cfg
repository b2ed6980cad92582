SPECIFICATION MCFairSpec
CONSTANTS
    Main = main
    Pool = {}
    Plugins = {}
    NoPlugin = NoPlugin
    MaxSessions = 10
    MaxCalls = 1
    MaxFaults = 2
    MaxEvents = 1
    MainThread = gtk
    PoolThreads = {d1}
    Keys = {k1, k2}
    NormalKeys = {k1}
    Payload = 2
    Sizes = {1, 4, 5}
    FirstPage = 1
    PageMod = 4
    MaxUpdates = 2
    MaxExecutions = 1
    MaxFailures = 1
INVARIANTS
    ImageTypeOK
    NoTornImage
    QuietFollowsSurface
    ToggleShowsState
PROPERTIES
    LostConnectionRetried
    IdentifiedInTheEnd
    DeviceCatchesUp
CHECK_DEADLOCK FALSE
