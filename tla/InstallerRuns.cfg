\* Three runs of two versions of the installer, one of which fails or is killed.
CONSTANTS
    Versions = {"v1", "v2"}
    Selections <- MCSelections
    MaxRuns = 3
    Faults <- MCFaults
    MaxFaults = 1
SPECIFICATION Spec
\* The user may have no installer left to start.
CHECK_DEADLOCK FALSE
INVARIANTS TypeOK SucceededMeansInstalled UpdatedIsCurrent PlatformFirst UninstallRemoves
PROPERTY DataSurvives
