SPECIFICATION LinkSpec
CONSTANTS
    Users = {"service", "script"}
    NoUser = NoUser
    Features <- MCFeatures
    GenMax = 2
    RingMax = 5
    BufferMax = 3
    FrameSize = 2
    PollMax = 2
    FifoDepth = 2
    TxSize = 1
    RxSize = 2
    Frames = {1, 2}
    ResponseSize = 2
    FrameMax = 5
    FaultMax = 2
    ReadMax = 3
INVARIANTS NoLateEffect TransfersWhole
PROPERTY RequestsAnswered
CHECK_DEADLOCK FALSE
