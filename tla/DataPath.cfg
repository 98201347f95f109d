SPECIFICATION MCSpec
CONSTANTS
    DbnHeaderSize = 2
    RecordHeaderSize = 3
    MaxRecordSize = 4
    MaxMetadataSize = 1
    FrameSizes = {0, 1, 2}
    Versions = {0, 1, 2, 3, 4}
    RecordSizes = {2, 3, 4, 5}
    RTypes = {"InstrumentDef", "Statistics", "System", "Mbo"}
    MaxRecords = 2
    Chains = {1, 2}
    Recycling = {1}
    Segments = {1, 2, 3}
    SegmentSize = 2
    MaxPool = 1
    MaxBytes = 5
    MaxHeld = 1
    Market <- MCMarket
    Dates = {0, 1, 2, 3, 4}
    MaxMappings = 3
    MaxIntervals = 3
INVARIANTS
    StreamDecides
    ReadsStable
    
PROPERTIES
    ImplementsQueue
CHECK_DEADLOCK FALSE
