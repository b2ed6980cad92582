SPECIFICATION SplitSpec
CONSTANTS
    Main = main
    Pool = {t1}
    Plugins = {p1}
    NoPlugin = NoPlugin
    MaxSessions = 2
    MaxCalls = 2
    MaxFaults = 1
    MaxEvents = 0
INVARIANTS
    TypeOK
    RegisteredBeforeSent
    SocketClosedBetweenSessions
    OpenedSessionIsWithdrawn
    MessagesInOrder
    ResponseToLoneCaller
CHECK_DEADLOCK FALSE
