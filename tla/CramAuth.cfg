SPECIFICATION Spec
CONSTANTS
    MaxSuspend = 1
    MaxStack = 2
    NestedResume = FALSE
    MaxLine = 1
    MaxPending = 2
    MaxChunk = 2
    MaxInput = 6
    FailingLines = {"auth", "subscription", "start_session"}
    LateSubscribe = FALSE
INVARIANTS
    WireOrder
    RequestsHonoured
PROPERTIES
    BinaryIntact
CHECK_DEADLOCK FALSE
