SPECIFICATION FairSpec
CONSTANTS
    t1 = t1
    t2 = t2
    d1 = d1
    Threads <- TwoThreads
    Boot = t1
    Distros <- OneDistro
    Retries = 1
    MaxCalls = 1
    Faults <- AllFaults
    MaxFaults = 0
PROPERTIES
    CallsReturn
CHECK_DEADLOCK FALSE
