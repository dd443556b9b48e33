\* The B+tree index with the default SyncWrite = FALSE: bolt fsyncs every
\* index change while the data file is not synced; then a power loss.
CONSTANTS
    Keys = {k1, k2}
    Values = {v1, v2}
    Threads = {t1}
    Batchers = {}
    NoValue = NoValue
    NoPos = NoPos
    TxnFinKey = TxnFinKey
    None = None
    NoOp = NoOp
    MaxFileId = 1
    MaxDataFileSize = 2
    MaxSeq = 2
    SyncWrite = FALSE
    BytePerSync = 0
    BatchSyncWrites = FALSE
    MaxBatchNum = 2
    PowerLoss = TRUE
    MMapAtStartup = FALSE
SPECIFICATION BPTSpec
INVARIANT IndexPointsToLiveRecord
