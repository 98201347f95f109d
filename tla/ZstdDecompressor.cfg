SPECIFICATION FairSpec
CONSTANTS
    MaxSuspend = 3
    MaxStack = 2
    NestedResume = FALSE
    FrameUnits = 3
    Expand = 2
    SegCap = 2
    MaxPending = 2
    MaxOutput = 4
INVARIANTS
    OneTerminal
    BackpressureBalanced
PROPERTIES
    ImplementsStage
    EndIsReported
CHECK_DEADLOCK FALSE
