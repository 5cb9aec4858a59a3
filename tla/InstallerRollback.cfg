\* A first installation that fails once.
CONSTANTS
    Versions = {"v1"}
    Selections <- MCSelections
    MaxRuns = 1
    Faults = {"set"}
    MaxFaults = 1
SPECIFICATION Spec
CHECK_DEADLOCK FALSE
INVARIANT RollbackUndoes
