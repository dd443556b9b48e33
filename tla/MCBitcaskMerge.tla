---------------------------- MODULE MCBitcaskMerge ----------------------------
(***************************************************************************)
(* Model-checking instances of BitcaskMerge.  kvHist is the history        *)
(* variable of MCBitcaskDB: the store recovered after each prefix of the   *)
(* data directory's log, a function of files.                              *)
(***************************************************************************)
EXTENDS BitcaskMerge

VARIABLE kvHist

MCMergeInit == MergeInit /\ kvHist = KVHistOf(files)

MCMergeNext == MergeNext /\ kvHist' = KVHistOf(files')

MCMergeSpec == MCMergeInit /\ [][MCMergeNext]_<<allVars, kvHist>>

(***************************************************************************)
(* Refinement: with merges running and being adopted or discarded at       *)
(* restarts, the store a restart recovers from the data directory still    *)
(* follows CrashConsistentKV.  A merge holds db.mu without committing a    *)
(* batch, so it is no client's commit (KVCommitting).                      *)
(***************************************************************************)
KV == INSTANCE CrashConsistentKV
        WITH hist <- kvHist, dur <- KVDur, pending <- KVPending,
             committing <- KVCommitting, Clients <- Threads, NoClient <- None

KVSpec == KV!Spec

Symmetry == Permutations(Keys) \cup Permutations(Values)
=============================================================================
