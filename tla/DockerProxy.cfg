SPECIFICATION FairSpec
CONSTANTS
    None = None
    Clients <- BothClients
    Paths <- BothPaths
    MaxRequests = 2
    MaxData = 1
INVARIANTS
    BindsResolve
    NoLateFlush
    EndsAreTrue
PROPERTIES
    StreamsFlow
    ExchangesEnd
CHECK_DEADLOCK FALSE
