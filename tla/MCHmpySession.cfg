CONSTANTS
    Names = {n1}
    NoName = NoName
    Data = {a}
    NoFile = NoFile
    MaxSize = 2
    MaxId = 2
    Faults = {}
SPECIFICATION FairSessionSpec
INVARIANTS
    UploadOwned
    AckMeansStored
    NoLeftovers
PROPERTIES
    ReadConsistent
    LeaseEnds
