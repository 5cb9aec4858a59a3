SPECIFICATION Spec
CONSTANTS
    t1 = t1
    t2 = t2
    d1 = d1
    Threads <- OneThread
    Boot = t1
    Distros <- OneDistro
    Retries = 1
    MaxCalls = 2
    Faults <- StepFaults
    MaxFaults = 0
INVARIANTS
    DisabledMeansNoProxy
CHECK_DEADLOCK FALSE
