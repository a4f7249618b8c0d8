SPECIFICATION ModeSpec
CONSTANTS
    c1 = c1  c2 = c2  c3 = c3  k1 = k1  t1 = t1
    Puts = {c1, c2, c3}
    Ckpts = {k1}
    Truncs = {t1}
    NSlots = 4
    Chunk = 2
    MaxLosses = 2
    MaxKills = 0
    MaxErrors = 0
    WriteCalls = {c1, c2, c3}
    NKeys = 2
    Kinds = {"put", "del", "batch"}
    Trigger = 1
    OneWriterPerKey = TRUE
    ExclusiveFlush = TRUE
    MaxFlushes = 3
    MaxCompactions = 2
    MaxCrashes = 2
    MaxPins = 2
    MaxIoErrors = 1
SYMMETRY CallSymmetry
INVARIANT DurableOnReturn
INVARIANT ReadsLatest
PROPERTY CompactionKeepsPins
