\* One thread writes, commits batches and merges with SyncWrite off and a
\* sync after every second record: a crash at any step of a merge, or of
\* the Open that meets its result, is checked against CrashConsistentKV.
CONSTANTS
    Keys = {k1}
    Values = {v1, v2}
    Threads = {t1}
    Batchers = {t1}
    Mergers = {t1}
    NoValue = NoValue
    NoPos = NoPos
    TxnFinKey = TxnFinKey
    None = None
    NoOp = NoOp
    MaxFileId = 2
    MaxDataFileSize = 2
    MaxSeq = 1
    SyncWrite = FALSE
    BytePerSync = 1
    BatchSyncWrites = FALSE
    MaxBatchNum = 2
SPECIFICATION MCMergeSpec
PROPERTY KVSpec
INVARIANT MergeTypeOK
INVARIANT MergePreservesStore
INVARIANT IndexMatchesLog
