\* SyncWrite off, a sync after every second record (BytePerSync = 1):
\* a crash may lose the unsynced tail.  One thread commits batches while
\* the other puts and deletes.  Checked against CrashConsistentKV, and,
\* with the steps inside an operation weakly fair, for every operation
\* finishing.
CONSTANTS
    Keys = {k1, k2}
    Values = {v1}
    Threads = {t1, t2}
    Batchers = {t1}
    NoValue = NoValue
    NoPos = NoPos
    TxnFinKey = TxnFinKey
    None = None
    NoOp = NoOp
    MaxFileId = 1
    MaxDataFileSize = 2
    MaxSeq = 2
    SyncWrite = FALSE
    BytePerSync = 1
    BatchSyncWrites = FALSE
    MaxBatchNum = 2
SPECIFICATION MCLiveSpec
INVARIANT CrashLossBounded
PROPERTY KVSpec
INVARIANT TypeOK
INVARIANT IndexPointsToLiveRecord
INVARIANT SeqNumCoversLog
INVARIANT ReclaimableIsDead
PROPERTY OperationsComplete
