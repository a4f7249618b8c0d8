SPECIFICATION TxSpec
CONSTANTS
    t1 = t1
    t2 = t2
    Tab = Tab
    Txns = {t1, t2}
    Table = Tab
    NRows = 1
    Keys = {1, Tab}
    Isolation = {FALSE}
    Names = {}
    MaxSavepoints = 0
    MaxErrors = 0
    MaxDrops = 0
INVARIANT SecondWriterAborted
