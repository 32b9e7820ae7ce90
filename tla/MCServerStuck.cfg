SPECIFICATION FairSpec
CONSTANTS
    MaxClients = 1
    EventCap = 4
    MaxConnections = 1
    Backend = "epoll"
    MaxFd = 2
    NumConns = 1
    MaxChunks = 1
    OutputCap = 1
    SocketBuffer = 1
    CallErrors = FALSE
    Resets = TRUE
    Interrupts = FALSE
PROPERTIES
    Ends
CHECK_DEADLOCK FALSE
