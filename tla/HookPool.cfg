SPECIFICATION FairSpec
CONSTANTS
    Pools <- MCPools
    Calls = 3
    Arrivals = 2
    MayClose = TRUE
INVARIANTS
    NoStrayWake
    TimeoutIsOwn
    ZeroMeansConnected
PROPERTIES
    ReadyCallReturns
    TimedCallReturns
CHECK_DEADLOCK FALSE
