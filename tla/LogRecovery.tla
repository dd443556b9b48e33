----------------------------- MODULE LogRecovery -----------------------------
(***************************************************************************)
(* Log records, their positions, and the replay that rebuilds the          *)
(* in-memory index when the database is opened.                            *)
(*                                                                         *)
(*   data/log_record.go   LogRecord, LogRecordPos, the three record types  *)
(*   batch.go             logRecordKeyWithSeqNum / parseLogRecordKey: the  *)
(*                        sequence number prefixed to every key            *)
(*   db.go                loadIndexFromDataFiles, updateIndex              *)
(*                                                                         *)
(* A record is kept as its decoded fields.  The key prefix encoding is     *)
(* lossless (a uvarint followed by the key), so the pair <<key, seq>> is   *)
(* what parseLogRecordKey recovers from it.  Every record occupies         *)
(* RecordSize units of file space: offsets are counted in records.         *)
(***************************************************************************)
EXTENDS Naturals, Sequences, SequencesExt

CONSTANTS
    Keys,           \* user keys (non-empty byte strings)
    Values,         \* user values
    NoValue,        \* the absent value of a tombstone or a TxnFinished record
    NoPos,          \* "no entry" in the index (a nil *LogRecordPos)
    TxnFinKey,      \* txnFinKey = "fin", the key of a transaction marker
    MaxFileId,      \* bound: highest data file id the model creates
    MaxDataFileSize,\* options.MaxDataFileSize, in records
    MaxSeq          \* bound: highest transaction sequence number

ASSUME NoValue \notin Values /\ TxnFinKey \notin Keys
ASSUME MaxFileId \in Nat /\ MaxDataFileSize \in Nat \ {0} /\ MaxSeq \in Nat

(* data/log_record.go: LogRecordNormal, LogRecordDeleted, LogRecordTxnFinished *)
LogRecordNormal      == "Normal"
LogRecordDeleted     == "Deleted"
LogRecordTxnFinished == "TxnFinished"

(* batch.go: sequence number 0 marks a write outside any transaction *)
NonTransactionSeqNum == 0

RecordSize == 1

Records ==
    [type: {LogRecordNormal}, key: Keys, val: Values, seq: 0..MaxSeq]
    \cup [type: {LogRecordDeleted}, key: Keys, val: {NoValue}, seq: 0..MaxSeq]
    \cup [type: {LogRecordTxnFinished}, key: {TxnFinKey}, val: {NoValue},
          seq: 1..MaxSeq]

(* LogRecordPos without its size: every record has size RecordSize *)
Positions == [fid: 0..MaxFileId, off: 0..(MaxDataFileSize - 1)]

(***************************************************************************)
(* The records of the data files, each with its position, in the order     *)
(* loadIndexFromDataFiles reads them: ascending file id, ascending offset. *)
(***************************************************************************)
LogEntries(files) ==
    FlattenSeq([i \in 1..(MaxFileId + 1) |->
        IF i - 1 \in DOMAIN files
        THEN [j \in 1..Len(files[i - 1]) |->
                [rec |-> files[i - 1][j], pos |-> [fid |-> i - 1, off |-> j - 1]]]
        ELSE << >>])

RecordAt(files, pos) == files[pos.fid][pos.off + 1]

(***************************************************************************)
(* The replay state: the index being rebuilt, the per-sequence lists of    *)
(* records of unfinished transactions (txns), the highest sequence number  *)
(* seen (curSeqNum), db.reclaimSize, and whether updateIndex dereferenced  *)
(* a nil old position (a Go runtime panic that aborts Open).               *)
(***************************************************************************)
EmptyIndex == [k \in Keys |-> NoPos]

InitReplay ==
    [index    |-> EmptyIndex,
     txns     |-> [s \in 1..MaxSeq |-> << >>],
     seqNum   |-> NonTransactionSeqNum,
     reclaim  |-> 0,
     panicked |-> FALSE]

(* index/btree.go BTree.Put: ReplaceOrInsert, which returns the old item, idx[k] *)
BTreePut(idx, k, pos) == [idx EXCEPT ![k] = pos]

(* BTree.Delete: the item removed, idx[k], if any, and ok = true either way *)
BTreeDelete(idx, k) == [idx EXCEPT ![k] = NoPos]

SizeOf(pos) == IF pos = NoPos THEN 0 ELSE RecordSize

(***************************************************************************)
(* db.updateIndex.  A Normal record is index.Put and adds the replaced     *)
(* position's size to reclaimSize.  A tombstone adds its own size, then    *)
(* index.Delete, then adds oldPos.Size: when the key is not in the index   *)
(* oldPos is nil and that read panics.  The replay continues past it here  *)
(* only so that later definitions stay total; panicked records it.         *)
(***************************************************************************)
UpdateIndex(st, key, type, pos) ==
    LET old == st.index[key] IN
    IF type = LogRecordNormal
    THEN [st EXCEPT !.index = BTreePut(@, key, pos), !.reclaim = @ + SizeOf(old)]
    ELSE [st EXCEPT !.index = BTreeDelete(@, key),
                    !.reclaim = @ + RecordSize + SizeOf(old),
                    !.panicked = @ \/ old = NoPos]

RECURSIVE ApplyTxn(_, _)
ApplyTxn(st, entries) ==
    IF entries = << >> THEN st
    ELSE ApplyTxn(UpdateIndex(st, Head(entries).rec.key, Head(entries).rec.type,
                              Head(entries).pos),
                  Tail(entries))

(* Mutant: curSeqNum advanced only when a TxnFinished record is read *)
ReplayRecordSeqAtFin(st, e) ==
    LET r   == e.rec
        st1 == CASE r.seq = NonTransactionSeqNum ->
                        UpdateIndex(st, r.key, r.type, e.pos)
                 [] r.type = LogRecordTxnFinished ->
                        [ApplyTxn(st, st.txns[r.seq]) EXCEPT !.txns[r.seq] = << >>]
                 [] OTHER ->
                        [st EXCEPT !.txns[r.seq] = Append(@, e)]
    IN  [st1 EXCEPT !.seqNum = IF r.type = LogRecordTxnFinished /\ r.seq > @
                               THEN r.seq ELSE @]

(* Mutant: the records of a finished transaction kept after they are applied *)
ReplayRecordKeepTxn(st, e) ==
    LET r   == e.rec
        st1 == CASE r.seq = NonTransactionSeqNum ->
                        UpdateIndex(st, r.key, r.type, e.pos)
                 [] r.type = LogRecordTxnFinished ->
                        ApplyTxn(st, st.txns[r.seq])
                 [] OTHER ->
                        [st EXCEPT !.txns[r.seq] = Append(@, e)]
    IN  [st1 EXCEPT !.seqNum = IF r.seq > @ THEN r.seq ELSE @]

(***************************************************************************)
(* One iteration of the loop of loadIndexFromDataFiles: a record with      *)
(* sequence 0 updates the index at once; a TxnFinished record applies and  *)
(* drops the records held for its sequence; any other record is held.      *)
(* curSeqNum = max(curSeqNum, seqNum) follows for every record.            *)
(***************************************************************************)
ReplayRecord(st, e) ==
    LET r   == e.rec
        st1 == CASE r.seq = NonTransactionSeqNum ->
                        UpdateIndex(st, r.key, r.type, e.pos)
                 [] r.type = LogRecordTxnFinished ->
                        [ApplyTxn(st, st.txns[r.seq]) EXCEPT !.txns[r.seq] = << >>]
                 [] OTHER ->
                        [st EXCEPT !.txns[r.seq] = Append(@, e)]
    IN  [st1 EXCEPT !.seqNum = IF r.seq > @ THEN r.seq ELSE @]

RECURSIVE Replay(_, _)
Replay(st, entries) ==
    IF entries = << >> THEN st
    ELSE Replay(ReplayRecord(st, Head(entries)), Tail(entries))

(* loadIndexFromDataFiles over all data files of the directory *)
LoadIndexFromDataFiles(files) == Replay(InitReplay, LogEntries(files))

(* The user-visible store an index describes over the given files *)
StoreOf(files, idx) ==
    [k \in Keys |-> IF idx[k] = NoPos THEN NoValue ELSE RecordAt(files, idx[k]).val]
=============================================================================
