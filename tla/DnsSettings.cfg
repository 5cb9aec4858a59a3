SPECIFICATION Spec
CONSTANTS
    Modes <- TwoModes
    Others <- TwoOthers
    Defaults <- NewSettings
    job = job
    Jobs <- OneJob
    Missing <- WslOnly
    MaxConfigurators = 2
    MaxEdits = 2
INVARIANTS
    NothingUnsaved
    DnsServed
    SavedModeApplies
CHECK_DEADLOCK FALSE
