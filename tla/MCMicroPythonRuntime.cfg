SPECIFICATION FairSpec
CONSTANTS
    Jobs = {worker, detect}
    NoJob = nojob
    Worker = worker
    None = none
    MaxJobs = 3
INVARIANTS RunsSeparated ResetOnlyOverdue
PROPERTIES EveryRunEnds
