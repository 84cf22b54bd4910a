SPECIFICATION Spec
CONSTANTS
    Peers = {"m", "q"}
    Master = "m"
    N = 4
    Scenarios <- Runs
    Empty <- SomeEmpty
    CacheSize = 2
    Limits = {1, 2}
    Capacities = {2}
    MaxResults = 2
    MaxFetch = 2
    MaxHeaders = 2
    MaxQueued = 2
    Tolerated = 1
    FullBlocks = 1
INVARIANTS
    PartsOwned
    SlotsInCache
    PivotHasState
PROPERTIES
    ImplementsStream
    CancelReturns
