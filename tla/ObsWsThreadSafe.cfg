SPECIFICATION Spec
CONSTANTS
    Main = main
    Pool = {t1}
    Plugins = {}
    NoPlugin = NoPlugin
    MaxSessions = 1
    MaxCalls = 2
    MaxFaults = 0
    MaxEvents = 0
INVARIANTS
    NoRequestSentTwice
CHECK_DEADLOCK FALSE
