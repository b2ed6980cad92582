SPECIFICATION Spec
CONSTANTS
    Main = main
    Pool = {}
    Plugins = {p1, p2}
    NoPlugin = NoPlugin
    MaxSessions = 2
    MaxCalls = 0
    MaxFaults = 1
    MaxEvents = 0
SYMMETRY Symmetry
INVARIANTS
    DisconnectedIsShown
CHECK_DEADLOCK FALSE
