SPECIFICATION EngSpec
CONSTANTS
    WriteCalls = {c1}
    c1 = c1
    NKeys = 1
    Kinds = {"batch"}
    Trigger = 2
    OneWriterPerKey = TRUE
    ExclusiveFlush = TRUE
    MaxFlushes = 0
    MaxCompactions = 0
    MaxCrashes = 1
    MaxPins = 0
    MaxIoErrors = 0
INVARIANT ScanLatest
