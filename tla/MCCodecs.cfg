SPECIFICATION CodecSpec
CONSTANTS
    Base = 128
    MaxWord = 1023
    MaxPos = 2
    PrefixMaxes = {1, 15}
    Values <- AllValues
    Caps = {2, 6}
    StaticTable <- MCStaticTable
    PathName <- MCPathName
    PathCap = 130
    NameCap = 2
    ValueCap = 130
    FieldCap = 2
    Blocks <- ShortBlocks
    Literals <- SomeLiterals
    ByteBase = 64
    SettingsCap = 2
    MaxSettings = 2
    H2_DEFAULT_MAX_FRAME_SIZE = 12
    H2_MAX_FRAME_SIZE = 262143
    Calls <- MCCalls
    Wires <- MCWires
INVARIANTS
    DecodeExact
    RoundTrip
    PathAgrees
    ItemsSuffice
    LiteralRoundTrip
    FrameRoundTrip
    PayloadShared
    FramesAgree
PROPERTIES
    RejectsOnly
    InBounds
CHECK_DEADLOCK FALSE
