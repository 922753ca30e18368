SPECIFICATION FairSpec
CONSTANTS
    TicketMax = 2
    MaxCommands = 3
    MaxRuns = 2
    MaxCalls = 3
INVARIANTS SlotExclusive FailedCallRolledBack LeasesReturned
PROPERTIES CallsReturn
