----------------------------- MODULE BitcaskMerge -----------------------------
(***************************************************************************)
(* merge.go composed with the engine of BitcaskDB.  Merge holds db.mu from  *)
(* its checks to its return: it syncs and retires the active file, visits  *)
(* every record of the files below the new one in file and offset order,   *)
(* rewrites those the index still points at into a nested engine in the    *)
(* <dir>-merge directory, with a hint record for each, and finally writes  *)
(* the hint-finished marker holding the boundary (nonMergeFileID).  The    *)
(* next Open runs loadMergeFiles before anything else.                     *)
(*                                                                         *)
(* The nested engine runs with SyncWrite off and syncs its files, the hint *)
(* file and the marker before the marker exists; an Open discards a merge  *)
(* directory without the marker.  So what a crash leaves of the merge      *)
(* directory is the whole of it or nothing that matters, and its files     *)
(* carry no synced length here.                                            *)
(***************************************************************************)
EXTENDS BitcaskDB

CONSTANTS Mergers   \* the threads that call db.Merge

ASSUME Mergers \subseteq Threads

VARIABLES
    mergeDir,   \* the <dir>-merge directory exists
    mfiles,     \* the nested engine's data files there: fid -> records
    hint,       \* the hint-index file: a sequence of [key, pos]
    mergeFin,   \* the boundary in the hint-finished file, or NoMerge
    mcur,       \* Merge: the candidate records not yet visited, with positions
    mbound,     \* Merge: nonMergeFileID
    openFailed  \* the last Open returned an error, so no handle exists

mergeVars == <<mergeDir, mfiles, hint, mergeFin, mcur, mbound, openFailed>>
allVars   == <<vars, mergeVars>>

(* File ids start at 0, so the boundary of a real merge is at least 1 *)
NoMerge == 0

(* Open on the empty merge directory creates its data file 0 *)
NoMergeFiles == (0 :> << >>)

MActive == Max(DOMAIN mfiles)

TotalSize == SumFunction([f \in DOMAIN files |-> Len(files[f])])

(***************************************************************************)
(* The ratio check compares DataFileMergeRatio with reclaimSize/DirSize in *)
(* float32.  Record sizes are abstract here, so with something reclaimable *)
(* either outcome is possible; with nothing reclaimable in a non-empty     *)
(* directory the ratio is 0 and the merge is refused; in an empty one it   *)
(* is 0/0 = NaN, the comparison is false, and the merge goes ahead.        *)
(***************************************************************************)
MergeRatioReached == reclaimSize > 0 \/ TotalSize = 0

(***************************************************************************)
(* Merge up to its loop.  A refused merge changes nothing and is left out; *)
(* isMerging is only ever set while db.mu is held, so ErrMergeIsProcessing *)
(* cannot be returned.  The retired files are all files below the new one. *)
(***************************************************************************)
(* Mutant: the candidates collected from olderFiles before the active file joins them *)
MergeBeginOlderOnly(t) ==
    /\ ~broken
    /\ pc[t] = Idle
    /\ mu = None
    /\ MergeRatioReached
    /\ active + 1 <= MaxFileId
    /\ mu' = t
    /\ pc' = [pc EXCEPT ![t] = "Merging"]
    /\ durable' = [(active + 1 :> 0) @@ durable EXCEPT ![active] = Len(files[active])]
    /\ files' = (active + 1 :> << >>) @@ files
    /\ active' = active + 1
    /\ ioType' = StandardFIO
    /\ mbound' = active + 1
    /\ mcur' = LogEntries([f \in DOMAIN files \ {active} |-> files[f]])
    /\ mergeDir' = TRUE
    /\ mfiles' = NoMergeFiles
    /\ hint' = << >>
    /\ mergeFin' = NoMerge
    /\ UNCHANGED <<bytesWrite, index, seqNum, reclaimSize, tkey, tpos, torder, tposs,
                   pending, broken, openFailed>>

(* Mutant: the active file retired without db.Sync *)
MergeBeginNoSync(t) ==
    /\ ~broken
    /\ pc[t] = Idle
    /\ mu = None
    /\ MergeRatioReached
    /\ active + 1 <= MaxFileId
    /\ mu' = t
    /\ pc' = [pc EXCEPT ![t] = "Merging"]
    /\ durable' = (active + 1 :> 0) @@ durable
    /\ files' = (active + 1 :> << >>) @@ files
    /\ active' = active + 1
    /\ ioType' = StandardFIO
    /\ mbound' = active + 1
    /\ mcur' = LogEntries(files)
    /\ mergeDir' = TRUE
    /\ mfiles' = NoMergeFiles
    /\ hint' = << >>
    /\ mergeFin' = NoMerge
    /\ UNCHANGED <<bytesWrite, index, seqNum, reclaimSize, tkey, tpos, torder, tposs,
                   pending, broken, openFailed>>

MergeBegin(t) ==
    /\ ~broken
    /\ pc[t] = Idle
    /\ mu = None
    /\ MergeRatioReached
    /\ active + 1 <= MaxFileId
    /\ mu' = t
    /\ pc' = [pc EXCEPT ![t] = "Merging"]
    /\ durable' = [(active + 1 :> 0) @@ durable EXCEPT ![active] = Len(files[active])]
    /\ files' = (active + 1 :> << >>) @@ files
    /\ active' = active + 1
    /\ ioType' = StandardFIO
    /\ mbound' = active + 1
    /\ mcur' = LogEntries(files)
    /\ mergeDir' = TRUE
    /\ mfiles' = NoMergeFiles
    /\ hint' = << >>
    /\ mergeFin' = NoMerge
    /\ UNCHANGED <<bytesWrite, index, seqNum, reclaimSize, tkey, tpos, torder, tposs,
                   pending, broken, openFailed>>

(* Mutant: the hint gets rec.Key, already re-encoded with its sequence
   prefix, instead of the parsed key *)
MergeAppendEncodedKey(rec) ==
    LET rotate == Len(mfiles[MActive]) + RecordSize > MaxDataFileSize
        fid    == IF rotate THEN MActive + 1 ELSE MActive
        mf1    == IF rotate THEN (fid :> << >>) @@ mfiles ELSE mfiles
    IN  /\ fid <= MaxFileId
        /\ mfiles' = [mf1 EXCEPT ![fid] = Append(@, rec)]
        /\ hint' = Append(hint, [key |-> << rec.seq, rec.key >>,
                                 pos |-> [fid |-> fid, off |-> Len(mf1[fid])]])

(* mergeDB.appendLogRecord, then hintFile.WriteHintRecord(key, pos) *)
MergeAppend(rec) ==
    LET rotate == Len(mfiles[MActive]) + RecordSize > MaxDataFileSize
        fid    == IF rotate THEN MActive + 1 ELSE MActive
        mf1    == IF rotate THEN (fid :> << >>) @@ mfiles ELSE mfiles
    IN  /\ fid <= MaxFileId
        /\ mfiles' = [mf1 EXCEPT ![fid] = Append(@, rec)]
        /\ hint' = Append(hint, [key |-> rec.key, pos |-> [fid |-> fid, off |-> Len(mf1[fid])]])

(***************************************************************************)
(* One record of the loop: it is rewritten, without its sequence number,   *)
(* when db.index (read now, without waiting for index updates other        *)
(* threads have still to make) holds exactly its position.                 *)
(***************************************************************************)
MergeRewrite(t) ==
    LET e    == Head(mcur)
        live == e.rec.key \in Keys /\ index[e.rec.key] = e.pos
    IN  /\ pc[t] = "Merging"
        /\ mcur # << >>
        /\ IF live
           THEN MergeAppend([e.rec EXCEPT !.seq = NonTransactionSeqNum])
           ELSE UNCHANGED <<mfiles, hint>>
        /\ mcur' = Tail(mcur)
        /\ UNCHANGED <<vars, mergeDir, mergeFin, mbound, openFailed>>

(* Sync the hint file and the nested engine, write the marker, unlock *)
MergeFinish(t) ==
    /\ pc[t] = "Merging"
    /\ mcur = << >>
    /\ mergeFin' = mbound
    /\ mu' = None
    /\ pc' = [pc EXCEPT ![t] = Idle]
    /\ UNCHANGED <<files, durable, active, ioType, bytesWrite, index, seqNum, reclaimSize,
                   tkey, tpos, torder, tposs, pending, broken,
                   mergeDir, mfiles, hint, mcur, mbound, openFailed>>

(***************************************************************************)
(* Open with loadMergeFiles first.  A merge directory without the marker   *)
(* is removed.  With the marker, the files below the boundary are deleted  *)
(* from the merge directory itself (GetDataFileName(mergePath, fileID)),   *)
(* which always includes the nested engine's 000000000.data; renaming that *)
(* file, the first of the remaining names, then fails, Open returns the    *)
(* error, and the deferred RemoveAll drops the merge directory.  The data  *)
(* directory is untouched either way.                                      *)
(***************************************************************************)
Restart(fs) ==
    /\ Open(fs)
    /\ openFailed' = (mergeDir /\ mergeFin # NoMerge)
    /\ mergeDir' = FALSE
    /\ mfiles' = NoMergeFiles
    /\ hint' = << >>
    /\ mergeFin' = NoMerge
    /\ mcur' = << >>
    /\ mbound' = NoMerge

(* The failed Open keeps its file lock; a new process opens the directory *)
RetryOpen ==
    /\ openFailed
    /\ Open(files)
    /\ openFailed' = FALSE
    /\ UNCHANGED <<mergeDir, mfiles, hint, mergeFin, mcur, mbound>>

MergeInit ==
    /\ Init
    /\ mergeDir = FALSE
    /\ mfiles = NoMergeFiles
    /\ hint = << >>
    /\ mergeFin = NoMerge
    /\ mcur = << >>
    /\ mbound = NoMerge
    /\ openFailed = FALSE

MergeNext ==
    \/ ~openFailed /\ ClientNext /\ UNCHANGED mergeVars
    \/ \E t \in Mergers : ~openFailed /\ (MergeBegin(t) \/ MergeRewrite(t) \/ MergeFinish(t))
    \/ ~broken /\ ~openFailed /\ \E fs \in SurvivingFiles : Restart(fs)
    \/ ~broken /\ ~openFailed /\ Quiescent /\ Restart(files)
    \/ RetryOpen
    \/ ~openFailed /\ ReopenPanics /\ UNCHANGED mergeVars

MergeSpec == MergeInit /\ [][MergeNext]_allVars

-----------------------------------------------------------------------------
(* Properties *)

MergeTypeOK ==
    /\ EngineTypeOK({Idle, "PutIndex", "DeleteAppend", "DeleteIndex", "CommitWrite",
                     "CommitIndex", "Merging"}, Threads)
    /\ mergeDir \in BOOLEAN
    /\ DOMAIN mfiles \subseteq 0..MaxFileId
    /\ \A f \in DOMAIN mfiles : mfiles[f] \in Seq(Records)
                                /\ Len(mfiles[f]) <= MaxDataFileSize
    /\ hint \in Seq([key: Keys, pos: Positions])
    /\ mergeFin \in 0..MaxFileId
    /\ openFailed \in BOOLEAN

(***************************************************************************)
(* The data directory the finished merge stands for: the merged files take *)
(* the place of every file below the boundary, the others stay.            *)
(***************************************************************************)
AdoptedFiles ==
    [f \in {g \in DOMAIN mfiles : g < mergeFin} \cup {g \in DOMAIN files : g >= mergeFin} |->
        IF f < mergeFin THEN mfiles[f] ELSE files[f]]

(***************************************************************************)
(* Once hint-finished is written, the merged files in place of the files   *)
(* below the boundary give the same store, key by key, as the data         *)
(* directory does, and replay them without a panic it would not meet      *)
(* anyway: adopting the merge loses no live record and resurrects no      *)
(* deleted key.  This is about Merge's test of db.index against each       *)
(* record's position (merge.go:112) after the writes, deletes and batches *)
(* of one thread, and crashes between them: the stale-index case with a   *)
(* second thread is not checked here (see the hazard at merge.go:112).   *)
(***************************************************************************)
MergePreservesStore ==
    (mergeFin # NoMerge /\ ~openFailed) =>
        LET adopted == LoadIndexFromDataFiles(AdoptedFiles)
            current == LoadIndexFromDataFiles(files)
        IN  /\ DOMAIN mfiles \subseteq 0..(mergeFin - 1)
            /\ StoreOf(AdoptedFiles, adopted.index) = StoreOf(files, current.index)
            /\ adopted.panicked => current.panicked

(***************************************************************************)
(* A restart after a merge finished opens the database: loadMergeFiles     *)
(* adopts the merge rather than failing Open.                              *)
(***************************************************************************)
OpenAfterMergeSucceeds == ~openFailed
=============================================================================
