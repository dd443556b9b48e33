\* One thread writes and merges; the restart after the merge finished.
CONSTANTS
    Keys = {k1, k2}
    Values = {v1}
    Threads = {t1}
    Batchers = {t1}
    Mergers = {t1}
    NoValue = NoValue
    NoPos = NoPos
    TxnFinKey = TxnFinKey
    None = None
    NoOp = NoOp
    MaxFileId = 2
    MaxDataFileSize = 2
    MaxSeq = 2
    SyncWrite = TRUE
    BytePerSync = 0
    BatchSyncWrites = FALSE
    MaxBatchNum = 2
SPECIFICATION MCMergeSpec
INVARIANT OpenAfterMergeSucceeds
