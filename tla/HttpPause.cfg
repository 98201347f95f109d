SPECIFICATION FairSpec
CONSTANTS
    MaxSuspend = 1
    MaxStack = 2
    NestedResume = FALSE
    MaxBody = 2
    MaxPending = 2
    MaxBuffered = 1
CHECK_DEADLOCK FALSE
INVARIANTS
    ConsumesOnlyParsed
