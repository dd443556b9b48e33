\* The B+tree index with SyncWrite on (so bolt runs with NoSync) under
\* power loss: two threads, one of them with a write batch, two keys,
\* two values.
CONSTANTS
    Keys = {k1, k2}
    Values = {v1, v2}
    Threads = {t1, t2}
    Batchers = {t1}
    NoValue = NoValue
    NoPos = NoPos
    TxnFinKey = TxnFinKey
    None = None
    NoOp = NoOp
    MaxFileId = 1
    MaxDataFileSize = 2
    MaxSeq = 2
    SyncWrite = TRUE
    BytePerSync = 0
    BatchSyncWrites = FALSE
    MaxBatchNum = 2
    PowerLoss = TRUE
    MMapAtStartup = FALSE
SPECIFICATION BPTSpec
SYMMETRY Symmetry
INVARIANT BPTTypeOK
INVARIANT IndexPointsToLiveRecord
