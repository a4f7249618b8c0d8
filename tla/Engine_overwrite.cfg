SPECIFICATION EngSpec
CONSTANTS
    WriteCalls = {c1, c2}
    c1 = c1
    c2 = c2
    NKeys = 1
    Kinds = {"put"}
    Trigger = 2
    OneWriterPerKey = TRUE
    ExclusiveFlush = TRUE
    MaxFlushes = 2
    MaxCompactions = 0
    MaxCrashes = 1
    MaxPins = 0
    MaxIoErrors = 0
INVARIANT ScanLatest
