SPECIFICATION FairSpec
CONSTANTS
    bastion = bastion
    api = api
    c1 = c1
    c2 = c2
    nothing = nothing
    Names = {bastion, api}
    Calls = {c1, c2}
    Requests <- MCRequests
    Loads <- MCLoads
    Initial <- MCInitial
    None = nothing
    MaxObjects = 3
CHECK_DEADLOCK FALSE
INVARIANTS
    TypeOK
PROPERTIES
    UpdateInEffect
    UpdateLosesOnlyRefused
    LoadComplete
    WaitReturns
    WatchEnds
    LogsEndOnceWritten
