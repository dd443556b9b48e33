\* One thread with a write batch: can Open always replay what was written?
CONSTANTS
    Keys = {k1, k2}
    Values = {v1}
    Threads = {t1}
    Batchers = {t1}
    NoValue = NoValue
    NoPos = NoPos
    TxnFinKey = TxnFinKey
    None = None
    NoOp = NoOp
    MaxFileId = 1
    MaxDataFileSize = 2
    MaxSeq = 2
    SyncWrite = TRUE
    BytePerSync = 0
    BatchSyncWrites = FALSE
    MaxBatchNum = 2
SPECIFICATION MCSpec
INVARIANT RecoveryNeverPanics
