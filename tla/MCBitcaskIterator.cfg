\* One writer using Put, Delete and a write batch; one reader iterating and
\* listing keys, with every seek target, direction and prefix setting.
CONSTANTS
    k1 = k1
    k2 = k2
    k3 = k3
    Keys = {k1, k3}
    Values = {v1}
    Threads = {t1}
    Batchers = {t1}
    Readers = {r1}
    KeyOrder <- MCKeyOrder
    PrefixKeys = {k3}
    NoKey = NoKey
    NoValue = NoValue
    NoPos = NoPos
    TxnFinKey = TxnFinKey
    None = None
    NoOp = NoOp
    MaxFileId = 0
    MaxDataFileSize = 3
    MaxSeq = 1
    SyncWrite = TRUE
    BytePerSync = 0
    BatchSyncWrites = FALSE
    MaxBatchNum = 2
SPECIFICATION MCIterSpec
INVARIANT IteratorTypeOK
INVARIANT IteratorFollowsReference
INVARIANT FoldIsCommittedState
