SPECIFICATION FairSpec
CONSTANTS
    c1 = c1
    c2 = c2
    Conns <- OneConn
    MaxBytes = 2
INVARIANTS
    TypeOK
    NothingLeaks
    EndComesLast
PROPERTIES
    CloseEndsAll
    ForwardsTraffic
CHECK_DEADLOCK FALSE
