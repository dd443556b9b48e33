----------------------------- MODULE MCBitcaskDB -----------------------------
(***************************************************************************)
(* Model-checking instances of BitcaskDB; the constants are set in the     *)
(* cfgs.  kvHist is a history variable: it holds KVHistOf(files), the      *)
(* store recovered after each prefix of the log, so that the refinement    *)
(* mapping is computed once per state.  It is a function of files, so it   *)
(* adds no states.                                                         *)
(***************************************************************************)
EXTENDS BitcaskDB

VARIABLE kvHist

MCInit == Init /\ kvHist = KVHistOf(files)

MCNext == Next /\ kvHist' = KVHistOf(files')

MCSpec == MCInit /\ [][MCNext]_<<vars, kvHist>>

(* The same behaviours, with the fairness of the goroutines in an operation *)
MCLiveSpec == MCSpec /\ ThreadFairness

(***************************************************************************)
(* Refinement: the store a restart would recover, taken after every prefix *)
(* of the log, is the history of CrashConsistentKV.  A Put or a Delete     *)
(* changes one key, a batch changes the store only at its TxnFinished     *)
(* marker and then by exactly its buffered writes, and a crash or restart  *)
(* goes back to a state of that history no older than what was synced.     *)
(***************************************************************************)
KV == INSTANCE CrashConsistentKV
        WITH hist <- kvHist, dur <- KVDur, pending <- KVPending,
             committing <- KVCommitting, Clients <- Threads, NoClient <- None

KVSpec == KV!Spec

(* Threads, keys and values are interchangeable: nothing in the engine    *)
(* orders or compares them except for equality.  Used only by the runs    *)
(* that check invariants.                                                 *)
Symmetry == Permutations(Threads) \cup Permutations(Keys) \cup Permutations(Values)
=============================================================================
