------------------------------ MODULE MCJournal ------------------------------
(* The main thread's flush_sync and the control command, a channel of two, *)
(* and a second process that starts earlier, in the same second or later.  *)
EXTENDS Journal, TLC
CONSTANTS api, main
Symmetry == Permutations(Flushers)
=============================================================================
