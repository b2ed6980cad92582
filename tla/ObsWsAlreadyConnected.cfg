SPECIFICATION Spec
CONSTANTS
    Main = main
    Pool = {}
    Plugins = {p1}
    NoPlugin = NoPlugin
    MaxSessions = 2
    MaxCalls = 0
    MaxFaults = 1
    MaxEvents = 0
PROPERTIES
    AlreadyConnectedIsOpen
CHECK_DEADLOCK FALSE
