------------------------------ MODULE BitcaskDB ------------------------------
(***************************************************************************)
(* The storage engine of db.go, put.go, get.go, delete.go and batch.go     *)
(* with the B-tree index backend, shared by several client threads.        *)
(*                                                                         *)
(* A thread's Put, Delete and Commit are split at the points where the     *)
(* code releases or takes db.mu: appendLogRecordWithLock holds the lock    *)
(* only for the append, and the index is updated after it is released;    *)
(* Commit holds the lock from the sequence number to its last index        *)
(* update and appends its records one per step.  A crash may come between *)
(* any two steps; it keeps of each data file a prefix at least as long as  *)
(* what was synced, and the process then runs Open on what is left.        *)
(***************************************************************************)
EXTENDS LogRecovery, FiniteSets, Functions, TLC

CONSTANTS
    Threads,         \* client goroutines sharing the *DB
    Batchers,        \* the threads that also use a WriteBatch
    SyncWrite,       \* options.SyncWrite
    BytePerSync,     \* options.BytePerSync, in records
    BatchSyncWrites, \* WriteBatchOptions.SyncWrites
    MaxBatchNum,     \* WriteBatchOptions.MaxBatchNum
    None,            \* db.mu not held
    NoOp             \* no write buffered for a key in a batch

ASSUME SyncWrite \in BOOLEAN /\ BatchSyncWrites \in BOOLEAN
ASSUME BytePerSync \in Nat /\ MaxBatchNum \in Nat \ {0}
ASSUME Batchers \subseteq Threads

VARIABLES
    files,       \* fid -> the records of data file fid, as reads see them
    durable,     \* fid -> length of the prefix of the file on stable storage
    active,      \* db.activeFile.FileID; the others are db.olderFiles
    ioType,      \* the kind of db.activeFile.IOManager
    bytesWrite,  \* db.bytesWrite
    index,       \* db.index: key -> position, or NoPos
    seqNum,      \* db.seqNum
    reclaimSize, \* db.reclaimSize
    mu,          \* the thread holding db.mu for writing, or None
    pc,          \* where each thread is in its current operation
    tkey,        \* the key of a thread's Put or Delete
    tpos,        \* the position its append returned
    torder,      \* Commit: the buffered keys not yet appended, in map order
    tposs,       \* Commit: the positions of the records appended so far
    pending,     \* pending[t][k]: the write batch of thread t
    broken       \* Open panicked while replaying the log

vars == <<files, durable, active, ioType, bytesWrite, index, seqNum, reclaimSize, mu,
          pc, tkey, tpos, torder, tposs, pending, broken>>

BatchOps == [type: {LogRecordNormal}, val: Values]
            \cup [type: {LogRecordDeleted}, val: {NoValue}]
NoBatch  == [k \in Keys |-> NoOp]
NoPoss   == [k \in Keys |-> NoPos]

Idle == "Idle"

PendingKeys(t) == {k \in Keys : pending[t][k] # NoOp}

(***************************************************************************)
(* Model bound on the file ids: an operation starts only when the files    *)
(* up to MaxFileId have room for its appends and for those the operations  *)
(* in flight still owe (a Delete its tombstone, a Commit its remaining     *)
(* records and its marker), so that no operation is cut off midway by the  *)
(* bound rather than by anything the code does.                            *)
(***************************************************************************)
FreeSlots == ((MaxFileId - active) * MaxDataFileSize + MaxDataFileSize - Len(files[active]))
             \div RecordSize

Owed == Cardinality({t \in Threads : pc[t] = "DeleteAppend"})
        + SumFunction([t \in Threads |-> IF pc[t] = "CommitWrite" THEN Len(torder[t]) + 1 ELSE 0])

Fits(n) == FreeSlots - Owed >= n

-----------------------------------------------------------------------------
(***************************************************************************)
(* put.go appendLogRecord (the caller holds db.mu).  If the record does    *)
(* not fit, the active file is synced, kept as an older file, and a file   *)
(* with the next id becomes active (setActiveDataFile).  The record is     *)
(* written at the write offset; bytesWrite grows by its size and the file  *)
(* is synced when SyncWrite is set or bytesWrite exceeds BytePerSync,      *)
(* which then restarts the count.  WritePos is the position returned.      *)
(***************************************************************************)
(* Mutant: the size of the record being written left out of the check *)
NeedRotateNoSize == Len(files[active]) > MaxDataFileSize

NeedRotate == Len(files[active]) + RecordSize > MaxDataFileSize

WriteFid == IF NeedRotate THEN active + 1 ELSE active

(* Mutant: the offset after the write returned instead of the one before *)
WritePosAfter == [fid |-> WriteFid,
                  off |-> IF NeedRotate THEN RecordSize ELSE Len(files[active]) + RecordSize]

WritePos == [fid |-> WriteFid, off |-> IF NeedRotate THEN 0 ELSE Len(files[active])]

(* fio/io_manager.go FileIOType *)
StandardFIO == "StandardFIO"
MemoryMapIO == "MemoryMapIO"

(***************************************************************************)
(* DataFile.Write adds to WriteOffset what the IOManager wrote: MMap.Write *)
(* writes nothing and returns 0, and MMap.Sync does nothing.  A file made  *)
(* by setActiveDataFile always has the standard file IO.                  *)
(***************************************************************************)
WriteLands == NeedRotate \/ ioType = StandardFIO

(* Mutant: setActiveDataFile without syncing the file it retires *)
AppendThenSyncNoRotateSync(rec, extraSync) ==
    LET files1   == IF NeedRotate THEN (WriteFid :> << >>) @@ files ELSE files
        durable1 == IF NeedRotate THEN (WriteFid :> 0) @@ durable ELSE durable
        written  == bytesWrite + RecordSize
        needSync == SyncWrite \/ (BytePerSync > 0 /\ written > BytePerSync)
    IN  /\ WriteFid <= MaxFileId
        /\ active' = WriteFid
        /\ ioType' = IF NeedRotate THEN StandardFIO ELSE ioType
        /\ files' = IF WriteLands THEN [files1 EXCEPT ![WriteFid] = Append(@, rec)] ELSE files1
        /\ durable' = IF (needSync \/ extraSync) /\ WriteLands
                      THEN [durable1 EXCEPT ![WriteFid] = Len(files1[WriteFid]) + 1]
                      ELSE durable1
        /\ bytesWrite' = IF needSync THEN 0 ELSE written

(* extraSync: the caller syncs the active file right after the append *)
AppendThenSync(rec, extraSync) ==
    LET files1   == IF NeedRotate THEN (WriteFid :> << >>) @@ files ELSE files
        durable1 == IF NeedRotate
                    THEN [(WriteFid :> 0) @@ durable EXCEPT ![active] = Len(files[active])]
                    ELSE durable
        written  == bytesWrite + RecordSize
        needSync == SyncWrite \/ (BytePerSync > 0 /\ written > BytePerSync)
    IN  /\ WriteFid <= MaxFileId
        /\ active' = WriteFid
        /\ ioType' = IF NeedRotate THEN StandardFIO ELSE ioType
        /\ files' = IF WriteLands THEN [files1 EXCEPT ![WriteFid] = Append(@, rec)] ELSE files1
        /\ durable' = IF (needSync \/ extraSync) /\ WriteLands
                      THEN [durable1 EXCEPT ![WriteFid] = Len(files1[WriteFid]) + 1]
                      ELSE durable1
        /\ bytesWrite' = IF needSync THEN 0 ELSE written

AppendLogRecord(rec) == AppendThenSync(rec, FALSE)

-----------------------------------------------------------------------------
(***************************************************************************)
(* get.go Get and GetValueByPosition, as a reader holding db.mu sees them: *)
(* a key absent from the index is ErrKeyNotFound, a file id neither active *)
(* nor older is ErrDataFileNotFound, a tombstone reads as a nil value.     *)
(***************************************************************************)
ErrKeyNotFound      == "ErrKeyNotFound"
ErrDataFileNotFound == "ErrDataFileNotFound"

GetValueByPosition(pos) ==
    IF pos.fid \notin DOMAIN files THEN ErrDataFileNotFound
    ELSE IF RecordAt(files, pos).type = LogRecordDeleted THEN NoValue
    ELSE RecordAt(files, pos).val

Get(k) == IF index[k] = NoPos THEN ErrKeyNotFound ELSE GetValueByPosition(index[k])

(* db.go Size: index.Size(), the number of keys in the index *)
KeyCount == Cardinality({k \in Keys : index[k] # NoPos})

(***************************************************************************)
(* db.go Stat, as a caller holding db.mu.RLock sees it.  DiskSize is       *)
(* DirSize of the whole directory; the data files are the part of it the   *)
(* model has, so diskSize here is a lower bound of the code's.             *)
(***************************************************************************)
Stat ==
    [keyNum          |-> KeyCount,
     dataFileNum     |-> Cardinality(DOMAIN files),
     reclaimableSize |-> reclaimSize,
     diskSize        |-> SumFunction([f \in DOMAIN files |-> Len(files[f])]) * RecordSize]

-----------------------------------------------------------------------------
(* A new process: db.mu is free (Open's new(sync.RWMutex)), and no
   goroutine is inside an operation or holds a write batch *)
FreshThreads ==
    /\ mu' = None
    /\ pc' = [t \in Threads |-> Idle]
    /\ tkey' = [t \in Threads |-> TxnFinKey]
    /\ tpos' = [t \in Threads |-> NoPos]
    /\ torder' = [t \in Threads |-> << >>]
    /\ tposs' = [t \in Threads |-> NoPoss]
    /\ pending' = [t \in Threads |-> NoBatch]

(***************************************************************************)
(* db.go Open (and, after a crash, the restart that runs it): the data     *)
(* files that survived are loaded, the highest id becomes the active file  *)
(* with its write offset at the end of the replayed records, and the index *)
(* and sequence number come from loadIndexFromDataFiles.  If the replay    *)
(* panics the database does not open.  Everything in memory starts over.  *)
(***************************************************************************)
Open(fs) ==
    LET st == LoadIndexFromDataFiles(fs) IN
    /\ files' = fs
    /\ durable' = [f \in DOMAIN fs |-> Len(fs[f])]
    /\ active' = Max(DOMAIN fs)
    /\ ioType' = StandardFIO
    /\ bytesWrite' = 0
    /\ index' = st.index
    /\ seqNum' = st.seqNum
    /\ reclaimSize' = st.reclaim
    /\ broken' = st.panicked
    /\ FreshThreads

(* Open on a new directory: loadDataFiles creates the empty file 0 *)
Init ==
    /\ files = (0 :> << >>)
    /\ durable = (0 :> 0)
    /\ active = 0
    /\ ioType = StandardFIO
    /\ bytesWrite = 0
    /\ index = EmptyIndex
    /\ seqNum = NonTransactionSeqNum
    /\ reclaimSize = 0
    /\ broken = FALSE
    /\ mu = None
    /\ pc = [t \in Threads |-> Idle]
    /\ tkey = [t \in Threads |-> TxnFinKey]
    /\ tpos = [t \in Threads |-> NoPos]
    /\ torder = [t \in Threads |-> << >>]
    /\ tposs = [t \in Threads |-> NoPoss]
    /\ pending = [t \in Threads |-> NoBatch]

-----------------------------------------------------------------------------
(* put.go Put: the record is appended under db.mu ...                      *)
Put(t, k, v) ==
    /\ ~broken
    /\ pc[t] = Idle
    /\ mu = None
    /\ Fits(1)
    /\ AppendLogRecord([type |-> LogRecordNormal, key |-> k, val |-> v,
                        seq |-> NonTransactionSeqNum])
    /\ pc' = [pc EXCEPT ![t] = "PutIndex"]
    /\ tkey' = [tkey EXCEPT ![t] = k]
    /\ tpos' = [tpos EXCEPT ![t] = WritePos]
    /\ UNCHANGED <<index, seqNum, reclaimSize, mu, torder, tposs, pending, broken>>

(* Mutant: the size of the record just written added instead of the old one *)
PutIndexNewSize(t) ==
    /\ pc[t] = "PutIndex"
    /\ index' = [index EXCEPT ![tkey[t]] = tpos[t]]
    /\ reclaimSize' = reclaimSize + SizeOf(tpos[t])
    /\ pc' = [pc EXCEPT ![t] = Idle]
    /\ tkey' = [tkey EXCEPT ![t] = TxnFinKey]
    /\ tpos' = [tpos EXCEPT ![t] = NoPos]
    /\ UNCHANGED <<files, durable, active, ioType, bytesWrite, seqNum, mu, torder, tposs,
                   pending, broken>>

(* ... and the index is updated after the lock is released *)
PutIndex(t) ==
    /\ pc[t] = "PutIndex"
    /\ index' = BTreePut(index, tkey[t], tpos[t])
    /\ reclaimSize' = reclaimSize + SizeOf(index[tkey[t]])
    /\ pc' = [pc EXCEPT ![t] = Idle]
    /\ tkey' = [tkey EXCEPT ![t] = TxnFinKey]
    /\ tpos' = [tpos EXCEPT ![t] = NoPos]
    /\ UNCHANGED <<files, durable, active, ioType, bytesWrite, seqNum, mu, torder, tposs,
                   pending, broken>>

(* Mutant: Delete holds db.mu around the call to appendLogRecordWithLock,
   which locks it again; sync.Mutex is not reentrant *)
DeleteLockHeld(t, k) ==
    /\ ~broken
    /\ pc[t] = Idle
    /\ index[k] # NoPos
    /\ Fits(1)
    /\ mu = None
    /\ mu' = t
    /\ pc' = [pc EXCEPT ![t] = "DeleteAppend"]
    /\ tkey' = [tkey EXCEPT ![t] = k]
    /\ UNCHANGED <<files, durable, active, ioType, bytesWrite, index, seqNum, reclaimSize,
                   tpos, torder, tposs, pending, broken>>

(* delete.go Delete: the index is looked up without db.mu; absent keys return *)
Delete(t, k) ==
    /\ ~broken
    /\ pc[t] = Idle
    /\ index[k] # NoPos
    /\ Fits(1)
    /\ pc' = [pc EXCEPT ![t] = "DeleteAppend"]
    /\ tkey' = [tkey EXCEPT ![t] = k]
    /\ UNCHANGED <<files, durable, active, ioType, bytesWrite, index, seqNum, reclaimSize,
                   mu, tpos, torder, tposs, pending, broken>>

DeleteAppend(t) ==
    /\ pc[t] = "DeleteAppend"
    /\ mu = None
    /\ AppendLogRecord([type |-> LogRecordDeleted, key |-> tkey[t], val |-> NoValue,
                        seq |-> NonTransactionSeqNum])
    /\ pc' = [pc EXCEPT ![t] = "DeleteIndex"]
    /\ tpos' = [tpos EXCEPT ![t] = WritePos]
    /\ UNCHANGED <<index, seqNum, reclaimSize, mu, tkey, torder, tposs, pending,
                   broken>>

(* reclaimSize += tombstone size; index.Delete; reclaimSize += old size *)
DeleteIndex(t) ==
    /\ pc[t] = "DeleteIndex"
    /\ index' = BTreeDelete(index, tkey[t])
    /\ reclaimSize' = reclaimSize + RecordSize + SizeOf(index[tkey[t]])
    /\ pc' = [pc EXCEPT ![t] = Idle]
    /\ tkey' = [tkey EXCEPT ![t] = TxnFinKey]
    /\ tpos' = [tpos EXCEPT ![t] = NoPos]
    /\ UNCHANGED <<files, durable, active, ioType, bytesWrite, seqNum, mu, torder, tposs,
                   pending, broken>>
-----------------------------------------------------------------------------
(* batch.go WriteBatch.Put: buffer the write, replacing any for the key *)
BatchPut(t, k, v) ==
    /\ ~broken
    /\ pc[t] = Idle
    /\ pending' = [pending EXCEPT ![t][k] = [type |-> LogRecordNormal, val |-> v]]
    /\ UNCHANGED <<files, durable, active, ioType, bytesWrite, index, seqNum, reclaimSize,
                   mu, pc, tkey, tpos, torder, tposs, broken>>

(* WriteBatch.Delete: a key absent from the index drops its buffered write *)
BatchDelete(t, k) ==
    /\ ~broken
    /\ pc[t] = Idle
    /\ pending' = [pending EXCEPT ![t][k] =
                      IF index[k] = NoPos THEN NoOp
                      ELSE [type |-> LogRecordDeleted, val |-> NoValue]]
    /\ UNCHANGED <<files, durable, active, ioType, bytesWrite, index, seqNum, reclaimSize,
                   mu, pc, tkey, tpos, torder, tposs, broken>>

(***************************************************************************)
(* WriteBatch.Commit: with a non-empty batch of at most MaxBatchNum        *)
(* writes, take db.mu, take the next sequence number, and visit the        *)
(* buffered writes in Go map order (any order).                            *)
(***************************************************************************)
Commit(t) ==
    /\ ~broken
    /\ pc[t] = Idle
    /\ PendingKeys(t) # {}
    /\ Cardinality(PendingKeys(t)) <= MaxBatchNum
    /\ mu = None
    /\ seqNum < MaxSeq
    /\ Fits(Cardinality(PendingKeys(t)) + 1)
    /\ mu' = t
    /\ seqNum' = seqNum + 1
    /\ \E order \in SetToSeqs(PendingKeys(t)) : torder' = [torder EXCEPT ![t] = order]
    /\ tposs' = [tposs EXCEPT ![t] = NoPoss]
    /\ pc' = [pc EXCEPT ![t] = "CommitWrite"]
    /\ UNCHANGED <<files, durable, active, ioType, bytesWrite, index, reclaimSize, tkey, tpos,
                   pending, broken>>

(* Mutant: the key written without logRecordKeyWithSeqNum's prefix (seq 0) *)
CommitWriteNoSeq(t) ==
    LET k == Head(torder[t]) IN
    /\ pc[t] = "CommitWrite"
    /\ torder[t] # << >>
    /\ AppendLogRecord([type |-> pending[t][k].type, key |-> k,
                        val |-> pending[t][k].val, seq |-> NonTransactionSeqNum])
    /\ tposs' = [tposs EXCEPT ![t][k] = WritePos]
    /\ torder' = [torder EXCEPT ![t] = Tail(@)]
    /\ UNCHANGED <<index, seqNum, reclaimSize, mu, pc, tkey, tpos, pending, broken>>

(* Commit: append the next buffered write with the batch's sequence number *)
CommitWrite(t) ==
    LET k == Head(torder[t]) IN
    /\ pc[t] = "CommitWrite"
    /\ torder[t] # << >>
    /\ AppendLogRecord([type |-> pending[t][k].type, key |-> k,
                        val |-> pending[t][k].val, seq |-> seqNum])
    /\ tposs' = [tposs EXCEPT ![t][k] = WritePos]
    /\ torder' = [torder EXCEPT ![t] = Tail(@)]
    /\ UNCHANGED <<index, seqNum, reclaimSize, mu, pc, tkey, tpos, pending, broken>>

(* Mutant: Commit without the index.Delete of a buffered delete *)
BatchIndexKeepDeleted(t, k) ==
    IF pending[t][k].type = LogRecordNormal THEN tposs[t][k] ELSE index[k]

(* The index entry of a buffered key: index.Put of a write, index.Delete of a delete *)
BatchIndex(t, k) ==
    IF pending[t][k].type = LogRecordNormal THEN tposs[t][k] ELSE NoPos

(***************************************************************************)
(* Commit: append the TxnFinished marker and sync if the batch asks for    *)
(* it; then range over pendingWrites again (a new map order) to update the *)
(* index, still holding db.mu.                                             *)
(***************************************************************************)
CommitFinish(t) ==
    /\ pc[t] = "CommitWrite"
    /\ torder[t] = << >>
    /\ AppendThenSync([type |-> LogRecordTxnFinished, key |-> TxnFinKey,
                       val |-> NoValue, seq |-> seqNum], BatchSyncWrites)
    /\ \E order \in SetToSeqs(PendingKeys(t)) : torder' = [torder EXCEPT ![t] = order]
    /\ pc' = [pc EXCEPT ![t] = "CommitIndex"]
    /\ UNCHANGED <<index, seqNum, reclaimSize, mu, tkey, tpos, tposs, pending, broken>>

(* One index update of the loop; a replaced position's size goes to reclaimSize *)
CommitIndex(t) ==
    LET k == Head(torder[t]) IN
    /\ pc[t] = "CommitIndex"
    /\ torder[t] # << >>
    /\ index' = [index EXCEPT ![k] = BatchIndex(t, k)]
    /\ reclaimSize' = reclaimSize + SizeOf(index[k])
    /\ torder' = [torder EXCEPT ![t] = Tail(@)]
    /\ UNCHANGED <<files, durable, active, ioType, bytesWrite, seqNum, mu, pc, tkey, tpos,
                   tposs, pending, broken>>

(* The loop is over: the batch is cleared and db.mu released *)
CommitDone(t) ==
    /\ pc[t] = "CommitIndex"
    /\ torder[t] = << >>
    /\ pending' = [pending EXCEPT ![t] = NoBatch]
    /\ mu' = None
    /\ pc' = [pc EXCEPT ![t] = Idle]
    /\ tposs' = [tposs EXCEPT ![t] = NoPoss]
    /\ UNCHANGED <<files, durable, active, ioType, bytesWrite, index, seqNum, reclaimSize,
                   tkey, tpos, torder, broken>>

(* db.go Sync: the active file is synced; bytesWrite is left as it is *)
Sync ==
    /\ ~broken
    /\ durable[active] < Len(files[active])
    /\ durable' = [durable EXCEPT ![active] = Len(files[active])]
    /\ UNCHANGED <<files, active, ioType, bytesWrite, index, seqNum, reclaimSize, mu, pc,
                   tkey, tpos, torder, tposs, pending, broken>>

(***************************************************************************)
(* The process dies at any point.  Each file keeps a prefix no shorter     *)
(* than what was synced (file creation is taken to be durable), and the    *)
(* process restarts with Open.                                             *)
(***************************************************************************)
SurvivingFiles ==
    {[f \in DOMAIN files |-> SubSeq(files[f], 1, cut[f])] :
        cut \in {c \in [DOMAIN files -> 0..MaxDataFileSize] :
                    \A f \in DOMAIN files : durable[f] <= c[f] /\ c[f] <= Len(files[f])}}

Crash ==
    /\ ~broken
    /\ \E fs \in SurvivingFiles : Open(fs)

(***************************************************************************)
(* db.go Close with no operation in flight, then Open: every file is       *)
(* synced (the older ones already were when they were retired).  The       *)
(* sequence-number file Close writes is read back only by the B+tree       *)
(* index, so it plays no part here.                                        *)
(***************************************************************************)
CloseAndReopen ==
    /\ ~broken
    /\ mu = None
    /\ \A t \in Threads : pc[t] = Idle
    /\ Open(files)

(* Once the log makes Open panic, every later Open panics the same way *)
ReopenPanics ==
    /\ broken
    /\ UNCHANGED vars

(* The steps of client calls; everything but the process restarting *)
ClientNext ==
    \/ \E t \in Threads :
          \/ \E k \in Keys, v \in Values : Put(t, k, v)
          \/ \E k \in Keys : Delete(t, k)
          \/ PutIndex(t) \/ DeleteAppend(t) \/ DeleteIndex(t)
    \/ \E t \in Batchers :
          \/ \E k \in Keys, v \in Values : BatchPut(t, k, v)
          \/ \E k \in Keys : BatchDelete(t, k)
          \/ Commit(t) \/ CommitWrite(t) \/ CommitFinish(t)
          \/ CommitIndex(t) \/ CommitDone(t)
    \/ Sync

Next ==
    \/ ClientNext
    \/ Crash
    \/ CloseAndReopen
    \/ ReopenPanics

Spec == Init /\ [][Next]_vars

(***************************************************************************)
(* A goroutine inside an operation keeps being scheduled, and Go's         *)
(* sync.Mutex hands the lock to a waiter that has waited too long          *)
(* (starvation mode): every step that continues an operation is weakly     *)
(* fair.  Starting an operation, Sync, Close and a crash are the client's  *)
(* or the environment's choice and are not.                                *)
(***************************************************************************)
ThreadFairness ==
    /\ \A t \in Threads : WF_vars(PutIndex(t)) /\ WF_vars(DeleteAppend(t))
                         /\ WF_vars(DeleteIndex(t))
    /\ \A t \in Batchers : WF_vars(CommitWrite(t)) /\ WF_vars(CommitFinish(t))
                          /\ WF_vars(CommitIndex(t)) /\ WF_vars(CommitDone(t))

-----------------------------------------------------------------------------
(* Properties *)

(* The type of the engine's state, given where a thread may be *)
EngineTypeOK(pcs, holders) ==
    /\ DOMAIN files \subseteq 0..MaxFileId
    /\ \A f \in DOMAIN files : files[f] \in Seq(Records)
                               /\ Len(files[f]) <= MaxDataFileSize
    /\ DOMAIN durable = DOMAIN files
    /\ active = Max(DOMAIN files)
    /\ ioType \in {StandardFIO, MemoryMapIO}
    /\ index \in [Keys -> Positions \cup {NoPos}]
    /\ seqNum \in 0..MaxSeq
    /\ reclaimSize \in Nat
    /\ mu \in holders \cup {None}
    /\ pc \in [Threads -> pcs]
    /\ pending \in [Threads -> [Keys -> BatchOps \cup {NoOp}]]
    /\ broken \in BOOLEAN

TypeOK == EngineTypeOK({Idle, "PutIndex", "DeleteAppend", "DeleteIndex", "CommitWrite",
                        "CommitIndex"}, Threads)

Quiescent == mu = None /\ \A t \in Threads : pc[t] = Idle

(* The store a restart would recover from the files as they are now *)
RecoveredStore == StoreOf(files, LoadIndexFromDataFiles(files).index)
(***************************************************************************)
(* Every index entry leads to a record of that key that is not a           *)
(* tombstone, in a file that exists.  Put and Delete update the index      *)
(* after releasing db.mu, batches apply theirs after the commit marker,    *)
(* and a restart rebuilds it from what survived: whatever the order, a     *)
(* reader never reaches get.go's "record.Type == LogRecordDeleted" branch  *)
(* nor ErrDataFileNotFound.                                                *)
(***************************************************************************)
IndexPointsToLiveRecord ==
    ~broken =>
        \A k \in Keys : index[k] # NoPos =>
            /\ index[k].fid \in DOMAIN files
            /\ index[k].off < Len(files[index[k].fid])
            /\ RecordAt(files, index[k]).key = k
            /\ RecordAt(files, index[k]).type = LogRecordNormal

(***************************************************************************)
(* db.seqNum is at least every sequence number in the log, including those *)
(* of batches a crash cut off before their TxnFinished marker.  Otherwise  *)
(* Commit would reuse such a number and the replay, which collects records *)
(* by sequence number, would apply the aborted batch's writes when the new *)
(* batch's marker is read.                                                 *)
(***************************************************************************)
SeqNumCoversLog ==
    ~broken => \A e \in Range(LogEntries(files)) : e.rec.seq <= seqNum

(***************************************************************************)
(* A crash loses at most BytePerSync records (none with SyncWrite), and    *)
(* only from the active file: appendLogRecord's bytesWrite count, never    *)
(* reset by rotation or by db.Sync, bounds what is not on stable storage.  *)
(***************************************************************************)
UnsyncedBound == IF SyncWrite THEN 0 ELSE BytePerSync

CrashLossBounded ==
    /\ \A f \in DOMAIN files \ {active} : durable[f] = Len(files[f])
    /\ Len(files[active]) - durable[active] <= UnsyncedBound

(***************************************************************************)
(* With no operation in flight, Get returns for every key what it would    *)
(* return after a restart: the in-memory index agrees with the log.        *)
(***************************************************************************)
RecoveredGet(k) ==
    LET idx == LoadIndexFromDataFiles(files).index IN
    IF idx[k] = NoPos THEN ErrKeyNotFound ELSE RecordAt(files, idx[k]).val

IndexMatchesLog ==
    (~broken /\ Quiescent) => \A k \in Keys : Get(k) = RecoveredGet(k)

(***************************************************************************)
(* Stat's ReclaimableSize never exceeds the bytes of the data files no key *)
(* points to.  reclaimSize is added to in five places: Put's and a batch   *)
(* write's replaced position, Delete's tombstone and the position it       *)
(* removes (the double count the spec asks about), and the replay at Open, *)
(* which recomputes it; index updates run after db.mu is released and may *)
(* land in either order.  Each addition must be a record that just left    *)
(* the index, or a tombstone, and none may be counted twice, or Merge's    *)
(* ratio check would rewrite files for space that is not there.           *)
(***************************************************************************)
ReclaimableIsDead ==
    Stat.reclaimableSize <= Stat.diskSize - Stat.keyNum * RecordSize

(***************************************************************************)
(* Open can always replay the log the engine wrote: updateIndex never      *)
(* meets a tombstone for a key that is not in the index.                   *)
(***************************************************************************)
RecoveryNeverPanics == ~LoadIndexFromDataFiles(files).panicked

(***************************************************************************)
(* Refinement: the store a restart would recover, taken after every prefix *)
(* of the log, is the history of CrashConsistentKV.  Puts and deletes      *)
(* change one key each, a batch changes the store only at its marker and   *)
(* then by exactly its buffered writes, and a crash or restart goes back   *)
(* to a state of that history no older than what was synced.              *)
(***************************************************************************)
RECURSIVE StoresAfter(_, _, _)
StoresAfter(fs, st, entries) ==
    IF entries = << >> THEN << StoreOf(fs, st.index) >>
    ELSE << StoreOf(fs, st.index) >>
         \o StoresAfter(fs, ReplayRecord(st, Head(entries)), Tail(entries))

(* The recovered store after each prefix of the log of files fs *)
KVHistOf(fs) == StoresAfter(fs, InitReplay, LogEntries(fs))

KVDur == SumFunction(durable) + 1

(* A batch whose marker is written is committed, though its index loop
   still holds db.mu and pendingWrites is cleared only after it *)
KVPending ==
    [t \in Threads |-> [k \in Keys |->
        IF pending[t][k] = NoOp \/ pc[t] = "CommitIndex" THEN NoOp
        ELSE pending[t][k].val]]

(* The client committing a batch: db.mu's holder while it appends the
   batch, up to its marker; not once it is past it, nor a merge *)
KVCommitting ==
    IF mu \in DOMAIN pc /\ pc[mu] = "CommitWrite" THEN mu ELSE None

(***************************************************************************)
(* Every Put, Delete and Commit that has begun returns, or is ended by a   *)
(* crash: no step of one waits forever on db.mu, which Commit and the      *)
(* appends of the others take and must release.                            *)
(***************************************************************************)
OperationsComplete == \A t \in Threads : (pc[t] # Idle) ~> (pc[t] = Idle)
=============================================================================
