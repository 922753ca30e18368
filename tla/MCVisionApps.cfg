SPECIFICATION Spec
CONSTANTS
    SlotCount = 2
    LeaseMax = 2
    MaxFrames = 2
    Owners = {"object", "face"}
    NoOwner = "none"
    Runtimes = {"object", "face"}
    NoRuntime = "none"
    MaxOpens = 2
    EpochBound = 3
INVARIANTS
    FramesIntact
    CameraConsistent
    ResultsCurrent
    NoOrphanModel
CHECK_DEADLOCK FALSE
