SPECIFICATION GbpSpec
CONSTANTS
    GbpValues <- MCGbpValues
    ColumnarMin = 2
    RleMin = 1
    ParallelOver = 3
    ChunkSize = 2
INVARIANTS AllRoundTrip
CHECK_DEADLOCK FALSE
