SPECIFICATION FairSpec
CONSTANTS
    MaxSuspend = 2
    MaxStack = 2
    NestedResume = FALSE
    MaxBody = 3
    MaxPending = 2
    MaxBuffered = 2
PROPERTIES
    ImplementsStage
    EndIsReported
CHECK_DEADLOCK FALSE
