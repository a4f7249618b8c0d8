SPECIFICATION ModeSpec
CONSTANTS
    t1 = t1  t2 = t2  Tab = Tab  n1 = n1  n2 = n2
    Txns = {t1, t2}
    Table = Tab
    NRows = 2
    Keys = {1, 2, Tab}
    Isolation = {TRUE, FALSE}
    Names = {n1, n2}
    MaxSavepoints = 2
    MaxErrors = 1
    MaxDrops = 1
SYMMETRY TxSymmetry
INVARIANT OnlyCertifiedPersist
 
INVARIANT AtomicUnlessMixed
INVARIANT NoWriteSkewUnlessMixed
