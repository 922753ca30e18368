SPECIFICATION FairSpec
CONSTANTS
    Clients = {mp, tag}
    Jobs = {j1, j2}
    NoJob = nojob
    NoClient = noclient
    TicketMax = 7
    MaxSubmits = 9
INVARIANTS CompletionSound
PROPERTIES ImplementsSlot JobsComplete
