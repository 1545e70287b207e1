SPECIFICATION GpuSpec
CONSTANTS
    MaxTicks = 11
    Window = 3
    Chunk = 3
    Batch = 2
    RawKept = 6
    HourlyKept = 8
    MaxGap = 2
    MaxFill = 1
    Legacy = 5
    Careless = TRUE
CHECK_DEADLOCK FALSE
PROPERTIES
    PruneIsVerified
