SPECIFICATION ColSpec
CONSTANTS
    ByteBits = 2  WordBytes = 2
    ColTypes = {"int8"}
    RowsPerBlock = 2  BlocksPerSst = 1  Workers = 1
    QuietFlush = FALSE
    MaxClock = 4  MaxSstId = 3
INVARIANT PointReadFindsRow
CHECK_DEADLOCK FALSE
