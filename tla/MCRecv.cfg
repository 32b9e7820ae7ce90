SPECIFICATION Spec
CONSTANTS
    H2_DEFAULT_MAX_FRAME_SIZE = 12
    H2_MAX_FRAME_SIZE = 20
    MaxSettings = 2
    PathCap = 4
    H2_DEFAULT_WINDOW_SIZE = 4
    INT32_MAX = 5
    Frames <- RecvFrames
    Cuts <- NoCuts
    WriteSizes = {400}
    H2_CONN_MAX_STREAMS = 2
    H2_CONN_INPUT_CAP = 28
    H2_CONN_OUTPUT_CAP = 82
    HeaderBlockCap = 12
INVARIANTS
    RecvAccounting
    RecvWindowOpen
    StreamTable
PROPERTIES
    SlotReuse
