SPECIFICATION PressureSpec
CONSTANTS
    f1 = f1  b1 = b1  a1 = a1  a2 = a2  k1 = k1
    w1 = w1  w2 = w2  w3 = w3  w4 = w4
    Flushes = {f1}
    Backgrounds = {b1}
    Adjusts = {a1, a2}
    Calibrations = {k1}
    Bytes = 10
    Bandwidths = {20}
    TicksPerSecond = 1
    MaxIdle = 3
    Writes = {w1, w2, w3, w4}
    SoftLimit = 2
    HardLimit = 3
    MaxDelay = 10
    L0Trigger = 2
    SstSize = 2
    FlushAt = 1
    MemPuts = {1, 2, 3, 4}
    KeyOf <- KeyOfPut
    EntrySize = 1
    SealThreshold = 2
    Limit = 3
    p1 = p1  t1 = t1
    Puts = {p1}
    Ckpts = {k1}
    Truncs = {t1}
    NSlots = 4
    Chunk = 1
    MaxLosses = 1
    MaxKills = 1
    MaxErrors = 1
INVARIANT AdjustmentsAgreeUnlessCalibrating
INVARIANT RowsAndPermitsKeptUnlessSkipped
 
CHECK_DEADLOCK FALSE
