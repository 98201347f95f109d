SPECIFICATION Spec
CONSTANTS
    MaxSuspend = 2
    MaxBatch = 2
    SendOutcomes = {"ok", "error"}
INVARIANTS
    ReportMatchesState
CHECK_DEADLOCK FALSE
