SPECIFICATION FairDetectorSpec
CONSTANTS
    Jobs = {tag, script}
    NoJob = nojob
    Detector = tag
    SequenceMax = 3
    MaxJobs = 5
    MaxSessions = 2
INVARIANTS BankStable
PROPERTIES DetectorReclaimed FrameCompletes
