\* Every log of two files of up to two records over two keys, one value
\* and sequence numbers 0..2,
\* each log also encoded to bytes and read back.
CONSTANTS
    k1 = k1
    k2 = k2
    v1 = v1
    Keys <- MCKeys
    Values <- MCValues
    NoValue = NoValue
    NoPos = NoPos
    TxnFinKey = TxnFinKey
    MaxFileId = 1
    MaxDataFileSize = 2
    MaxSeq = 2
SPECIFICATION Spec
INVARIANT ReplayMatchesReference
INVARIANT LogReadsBack
