SPECIFICATION FairSpec
CONSTANTS
    MaxSuspend = 2
    MaxBatch = 2
    SendOutcomes = {"ok", "error"}
INVARIANTS
    PipelineNeverAborts
    TerminalReleases
    SuspendForwarded
    OrphanIsTornDown
PROPERTIES
    TerminalIsFinal
    TerminalReported
CHECK_DEADLOCK FALSE
