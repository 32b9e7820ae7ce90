SPECIFICATION FairSpec
CONSTANTS
    MaxClients = 2
    EventCap = 4
    MaxConnections = 2
    Backend = "kqueue"
    MaxFd = 3
    NumConns = 2
    MaxChunks = 1
    OutputCap = 2
    SocketBuffer = 1
    CallErrors = FALSE
    Resets = TRUE
    Interrupts = FALSE
PROPERTIES
    CloseCause
    OutputFlows
    AbandonedClosed
    EndsClean
CHECK_DEADLOCK FALSE
