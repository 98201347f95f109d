SPECIFICATION FairSpec
CONSTANTS
    MaxSuspend = 1
    MaxStack = 2
    NestedResume = FALSE
    Hs = 2
    Records = 3
    Batch = 2
    MaxRbio = 3
    MaxRead = 2
    MaxWrite = 2
    MaxWrites = 2
INVARIANTS
    WritesInOrder
PROPERTIES
    ImplementsStage
    HandshakeCompletes
CHECK_DEADLOCK FALSE
