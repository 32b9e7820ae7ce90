SPECIFICATION FairSpec
CONSTANTS
    MaxFd = 2
    SqEntries = 2
    CqEntries = 4
    SavedCap = 2
    GenMod = 5
    EventCap = 1
    NumRegs = 4
    CloseAny = TRUE
INVARIANTS
    TypeOK
    PollTracked
    SavedFits
    CqRoom
PROPERTIES
    ImplementsIo
    Delivered
    RemoveReturns
CHECK_DEADLOCK FALSE
