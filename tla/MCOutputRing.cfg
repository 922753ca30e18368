CONSTANTS
    Bytes = 2
    Capacity = 1
    MaxStream = 4
    MaxRuns = 2
SPECIFICATION FairRingSpec
INVARIANTS
    NothingSilent
    CopyExact
PROPERTIES
    ReaderCatchesUp
