\* The B+tree index with the default MMapAtStartup = TRUE, SyncWrite on and
\* process crashes only: after the first restart the active data file is
\* still memory-mapped when the clients write to it.
CONSTANTS
    Keys = {k1}
    Values = {v1}
    Threads = {t1}
    Batchers = {}
    NoValue = NoValue
    NoPos = NoPos
    TxnFinKey = TxnFinKey
    None = None
    NoOp = NoOp
    MaxFileId = 1
    MaxDataFileSize = 2
    MaxSeq = 1
    SyncWrite = TRUE
    BytePerSync = 0
    BatchSyncWrites = FALSE
    MaxBatchNum = 2
    PowerLoss = FALSE
    MMapAtStartup = TRUE
SPECIFICATION BPTSpec
INVARIANT IndexPointsToLiveRecord
