SPECIFICATION FairSpec
CONSTANTS
    n1 = n1
    n2 = n2
    n3 = n3
    None = None
    Clients <- TwoHosts
    Conns <- ThreeConns
    MaxDatagrams = 3
INVARIANTS
    TypeOK
    TableMatchesLoops
    EntriesOpen
    RepliesGoHome
PROPERTIES
    ConnsReclaimed
CHECK_DEADLOCK FALSE
