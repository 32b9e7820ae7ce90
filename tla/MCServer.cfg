SPECIFICATION Spec
CONSTANTS
    MaxClients = 2
    EventCap = 3
    MaxConnections = 0
    Backend = "epoll"
    MaxFd = 3
    NumConns = 3
    MaxChunks = 1
    OutputCap = 2
    SocketBuffer = 1
    CallErrors = TRUE
    Resets = TRUE
    Interrupts = TRUE
INVARIANTS
    TypeOK
    FdTable
    InterestSound
PROPERTIES
    CloseCause
    ImplementsIo
CHECK_DEADLOCK FALSE
