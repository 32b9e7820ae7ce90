SPECIFICATION Spec
CONSTANTS
    H2_DEFAULT_MAX_FRAME_SIZE = 12
    H2_MAX_FRAME_SIZE = 20
    MaxSettings = 2
    PathCap = 12
    H2_DEFAULT_WINDOW_SIZE = 10
    INT32_MAX = 25
    Frames <- PressureFrames
    Cuts <- NoCuts
    WriteSizes = {15, 400}
    H2_CONN_MAX_STREAMS = 2
    H2_CONN_INPUT_CAP = 40
    H2_CONN_OUTPUT_CAP = 89
    HeaderBlockCap = 12
INVARIANTS
    CreditRespected
