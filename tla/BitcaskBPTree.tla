----------------------------- MODULE BitcaskBPTree -----------------------------
(***************************************************************************)
(* The engine with options.IndexType = BPTree.  The index is a bbolt file  *)
(* (index/bptree.go) that outlives the process, so Open does not replay    *)
(* the log (db.go Open); instead it trusts the bolt index and puts the     *)
(* active file's write offset at the file's size.  Sequence numbers, which *)
(* the replay would have recovered, are kept in a seq-num file that Close  *)
(* writes and loadSeqNum reads and removes.  NewWriteBatch refuses to run  *)
(* (panics) when the last restart did not read such a file.               *)
(*                                                                         *)
(* Every client step is the engine's (BitcaskDB); each index change is one *)
(* bolt Update transaction.  bolt is opened with NoSync = SyncWrite         *)
(* (bptree.go:86): it fsyncs each transaction only when SyncWrite is       *)
(* FALSE.  boltSince holds the index states bolt has committed since its   *)
(* last fsync; a power loss leaves the bolt file in one of them.           *)
(***************************************************************************)
EXTENDS BitcaskDB

CONSTANTS
    PowerLoss,     \* a crash may lose what was not fsynced (else: process crash only)
    MMapAtStartup  \* options.MMapAtStartup

ASSUME PowerLoss \in BOOLEAN /\ MMapAtStartup \in BOOLEAN

VARIABLES
    boltSince,        \* index states bolt has committed since its last fsync
    seqFile,          \* the seqNums written to the seq-num file, oldest first
    seqNumFileExists, \* db.seqNumFileExists
    isInitial         \* db.isInitial

bptVars == <<vars, boltSince, seqFile, seqNumFileExists, isInitial>>

(* bptree.go NewBPlusTree: opts.NoSync = syncWrite *)
BoltNoSync == SyncWrite

(* BPlusTree Put / Delete: one bolt Update; fsynced unless NoSync *)
BoltUpdate ==
    boltSince' = IF index' = index THEN boltSince
                 ELSE IF BoltNoSync THEN boltSince \cup {index'} ELSE {index'}

(* batch.go NewWriteBatch: panics for BPTree unless the seq-num file was
   read at Open or the database directory was new *)
BatchAllowed == seqNumFileExists \/ isInitial

(* A thread starts filling a write batch only after NewWriteBatch returned *)
NewWriteBatchReturned ==
    \A t \in Batchers : pending[t] = NoBatch /\ pending'[t] # NoBatch => BatchAllowed

(* db.go loadSeqNum: the last record of the seq-num file, if it exists;
   then the file is removed *)
LoadSeqNum(sf) ==
    /\ seqNum' = IF sf = << >> THEN NonTransactionSeqNum ELSE Last(sf)
    /\ seqNumFileExists' = (sf # << >>)
    /\ seqFile' = << >>

(***************************************************************************)
(* db.go Open for BPTree, on the data files fs, the bolt index idx and the *)
(* seq-num file sf as the restart finds them: no replay; the active        *)
(* file's WriteOffset is its size; loadSeqNum takes the last record of the *)
(* seq-num file, if the file exists, and removes the file.  The directory  *)
(* is not empty any more, so isInitial is FALSE.  loadDataFiles opens the  *)
(* files with MemoryMapIO when MMapAtStartup, and only the replay branch,  *)
(* which BPTree skips, calls resetIOType.                                  *)
(***************************************************************************)
Reopen(fs, idx, sf) ==
    /\ files' = fs
    /\ durable' = [f \in DOMAIN fs |-> Len(fs[f])]
    /\ active' = Max(DOMAIN fs)
    /\ ioType' = IF MMapAtStartup THEN MemoryMapIO ELSE StandardFIO
    /\ bytesWrite' = 0
    /\ index' = idx
    /\ LoadSeqNum(sf)
    /\ reclaimSize' = 0
    /\ broken' = FALSE
    /\ FreshThreads
    /\ boltSince' = {idx}
    /\ isInitial' = FALSE

(* Open on a new directory *)
BPTInit ==
    /\ Init
    /\ boltSince = {index}
    /\ seqFile = << >>
    /\ seqNumFileExists = FALSE
    /\ isInitial = TRUE

(* A step of a client call, the bolt transaction of its index change included *)
BPTClientStep ==
    /\ ClientNext
    /\ NewWriteBatchReturned
    /\ BoltUpdate
    /\ UNCHANGED <<seqFile, seqNumFileExists, isInitial>>

(* NewWriteBatch panics and the process dies; it restarts on what it left *)
NewWriteBatchPanics(t) ==
    /\ pc[t] = Idle
    /\ pending[t] = NoBatch
    /\ ~BatchAllowed
    /\ Reopen(files, index, seqFile)

(***************************************************************************)
(* The process dies at any point.  After a power loss each data file keeps *)
(* a prefix no shorter than what was synced, and bolt one of its states    *)
(* since its last fsync; the seq-num file, synced by Close, is kept.       *)
(* After a process crash the operating system keeps everything written.   *)
(***************************************************************************)
CrashStates ==
    IF PowerLoss THEN SurvivingFiles \X boltSince ELSE {<< files, index >>}

BPTCrash == \E s \in CrashStates : Reopen(s[1], s[2], seqFile)

(***************************************************************************)
(* db.go Close with no operation in flight, then Open: bolt is closed      *)
(* (without an fsync of its own), the seqNum is appended to the seq-num    *)
(* file and synced, the active file is synced.                            *)
(***************************************************************************)
BPTCloseAndReopen ==
    /\ mu = None
    /\ \A t \in Threads : pc[t] = Idle
    /\ Reopen(files, index, Append(seqFile, seqNum))

BPTNext ==
    \/ BPTClientStep
    \/ \E t \in Batchers : NewWriteBatchPanics(t)
    \/ BPTCrash
    \/ BPTCloseAndReopen

BPTSpec == BPTInit /\ [][BPTNext]_bptVars

-----------------------------------------------------------------------------
(* Properties; IndexPointsToLiveRecord and TypeOK come from BitcaskDB *)

(* The engine's type, and bolt's state is one it committed since its last fsync *)
BPTTypeOK ==
    /\ TypeOK
    /\ boltSince \subseteq [Keys -> Positions \cup {NoPos}]
    /\ index \in boltSince
    /\ seqFile \in Seq(0..MaxSeq)
    /\ seqNumFileExists \in BOOLEAN
    /\ isInitial \in BOOLEAN

(***************************************************************************)
(* Whenever NewWriteBatch would return a batch, db.seqNum is at least     *)
(* every sequence number in the log, so the next Commit writes a number   *)
(* the log has never seen.  Without the replay only the seq-num file of a *)
(* Close can restore seqNum; a restart that reads none leaves it 0, which *)
(* is what the panic of NewWriteBatch guards.  A reused number would make *)
(* the replay (of the directory opened with another index type) apply a   *)
(* crashed batch's records.  No run checks it: TLC finds it violated when *)
(* a Close follows a restart that found no seq-num file (README).         *)
(***************************************************************************)
BatchSeqFresh ==
    BatchAllowed => \A e \in Range(LogEntries(files)) : e.rec.seq <= seqNum
=============================================================================
