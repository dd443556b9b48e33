--------------------------- MODULE MCBitcaskIterator ---------------------------
(***************************************************************************)
(* Model-checking instances of BitcaskIterator.  The keys are model values *)
(* k1 < k2 < k3 in bytes.Compare order; k2 is only a seek target between   *)
(* the two keys the writers use.  kvHist is the history variable of        *)
(* MCBitcaskDB: the store recovered after each prefix of the log.          *)
(***************************************************************************)
EXTENDS BitcaskIterator

CONSTANTS k1, k2, k3

VARIABLE kvHist

MCKeyOrder == << k1, k2, k3 >>

MCIterInit == IterInit /\ kvHist = KVHistOf(files)

MCIterNext == IterSpecNext /\ kvHist' = KVHistOf(files')

MCIterSpec == MCIterInit /\ [][MCIterNext]_<<iterVars, kvHist>>

(***************************************************************************)
(* With one writer, an iterator's snapshot is the store after some prefix  *)
(* of the log: a whole number of Puts and Deletes, and every batch either  *)
(* wholly or not at all, as WriteBatch.Commit promises.  NewIterator takes *)
(* no db.mu, so it may copy the index while Commit's update loop (which    *)
(* holds db.mu) has applied only part of a batch.                          *)
(***************************************************************************)
SnapshotIsCommittedState ==
    \A r \in Readers : iters[r].open => iterRef[r].store \in Range(kvHist)

(***************************************************************************)
(* Fold, unlike NewIterator, takes db.mu (for reading), and Commit holds   *)
(* db.mu for writing through its index loop: whenever Fold can take the   *)
(* lock, the keys and values it visits, in ascending order, are the store  *)
(* after some prefix of the log, never part of a batch.  Put's and         *)
(* Delete's index updates, made after they release db.mu, still land       *)
(* around it.                                                              *)
(***************************************************************************)
FoldIsCommittedState ==
    FoldCanRun =>
        \E h \in Range(kvHist) :
            LET ks == SortSeq(SetToSeq({k \in Keys : h[k] # NoValue}), KeyLess) IN
            FoldVisit = [i \in DOMAIN ks |-> [key |-> ks[i], val |-> h[ks[i]]]]
====
