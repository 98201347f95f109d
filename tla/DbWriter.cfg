SPECIFICATION MCSpec
CONSTANTS
    MaxBatches = 4
    HighWater = 1
    LowWaters = {0, 1}
    Writers = {w1, w2}
    MaxRows = 2
    MaxQueries = 1
INVARIANTS
    NoUseAfterFree
    DrainWritesAll
    BackpressureBalanced
    StatsMatchTarget
    FreedUseConfined
    ConnectionUsable
    CopyAtomic
PROPERTIES
    NobodyWaitsForever
CHECK_DEADLOCK FALSE
