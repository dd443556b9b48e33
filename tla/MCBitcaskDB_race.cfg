\* Two threads doing plain Put and Delete: does the index agree with the log?
CONSTANTS
    Keys = {k1, k2}
    Values = {v1, v2}
    Threads = {t1, t2}
    Batchers = {}
    NoValue = NoValue
    NoPos = NoPos
    TxnFinKey = TxnFinKey
    None = None
    NoOp = NoOp
    MaxFileId = 1
    MaxDataFileSize = 2
    MaxSeq = 2
    SyncWrite = TRUE
    BytePerSync = 0
    BatchSyncWrites = FALSE
    MaxBatchNum = 2
SPECIFICATION MCSpec
INVARIANT IndexMatchesLog
