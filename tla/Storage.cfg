SPECIFICATION StorageSpec
CONSTANTS
    m1 = m1  m2 = m2  m3 = m3  m4 = m4  m5 = m5
    x = x  y = y  z = z
    h1 = h1  h2 = h2  v1 = v1  v2 = v2  i1 = i1  i2 = i2
    BlobWrites = {m1, m2, m3}
    BlobValues = {x, y, z}
    LruKeys = {m1, m2, m3, m4}
    Blocks = {m1, m2, m3, m4, m5}
    Queues = 1
    MaxGcs = 1
    LruCapacity = 3
    HotCapacity = 1
    ScanCapacity = 2
    MaxAccesses = 5
    MaxTicks = 1
    LsmKeys = {1, 2}
    BottomLevel = 2
    L0Threshold = 2
    SizeRatio = 2
    SstRows = 2
    MaxVersions = 5
    Handlers = {h1, h2}
    Recoveries = {v1, v2}
    MaxFaults = 2
    Recorders = {i1, i2}
    Latencies = {10, 16}
    Baseline = 10
    MaxWindows = 4
    LastByte = 5
    ArtKeys <- IndexKeys
    Cap4 = 2  Cap16 = 3  Cap48 = 4
    Ssts = {1}
    Txns = {m1, m2, m3}
    Keys = {x}
SYMMETRY StorageSymmetry
INVARIANT HeldReadableUnlessOrphaned
INVARIANT ReserveBehindWritesUnlessOverlap
INVARIANT ThrottleJustified
INVARIANT ArtIsMapUnlessNul
INVARIANT LocksHaveOwner
INVARIANT NoFalseNegativeUnlessRaced
PROPERTY LruRefines
 
 
CHECK_DEADLOCK FALSE
