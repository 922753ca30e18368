CONSTANTS
    Values = {0, 1}
    Zero = 0
    V3Ids = {0}
    NoRecord = NoRecord
    Delay = 2
    MaxSeq = 4
    MaxChanges = 2
    Faults = {"flash", "bits"}
SPECIFICATION FairSpec
INVARIANTS
    CleanIsStored
PROPERTIES
    ImplementsDurable
    ChangeSaved
