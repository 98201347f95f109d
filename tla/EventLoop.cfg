SPECIFICATION MCSpec
CONSTANTS
    Callbacks = {a, b, c}
    Nested = {c}
    Timers = {t, u}
    Delays = {1}
    MaxEvents = 2
    Drivers = {"Run", "Poll"}
    None = none
    MaxStarts = 3
    MaxRx = 2
    MaxRoom = 2
    MaxWrites = 3
    MaxSuspend = 2
INVARIANTS
    RunsInOrder
    WritesInOrder
PROPERTIES
    CallbacksRun
    StopExits
    
    NoDataWhileSuspended
    SocketProgress
CHECK_DEADLOCK FALSE
