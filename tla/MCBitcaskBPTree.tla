---------------------------- MODULE MCBitcaskBPTree ----------------------------
(***************************************************************************)
(* Model-checking instance of BitcaskBPTree; the constants are set in the  *)
(* cfgs.                                                                   *)
(***************************************************************************)
EXTENDS BitcaskBPTree

(* Threads, keys and values are interchangeable, as in MCBitcaskDB *)
Symmetry == Permutations(Threads) \cup Permutations(Keys) \cup Permutations(Values)
=============================================================================
