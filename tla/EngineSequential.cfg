SPECIFICATION FairSpec
CONSTANTS
    t1 = t1
    t2 = t2
    d1 = d1
    Threads <- OneThread
    Boot = t1
    Distros <- OneDistro
    Retries = 1
    MaxCalls = 2
    Faults <- StepFaults
    MaxFaults = 1
INVARIANTS
    RunningMeansUp
PROPERTIES
    CleanStop
    StartSurvivesFaults
    LoopsEnd
CHECK_DEADLOCK FALSE
