--------------------------- MODULE MCGridStorage ---------------------------
(***************************************************************************)
(* Instances of GridStorage for TLC.  Bodies are interchangeable in the runs  *)
(* that check invariants and let either all tasks or none yield.            *)
(***************************************************************************)
EXTENDS GridStorage, TLC

TaskSymmetry == Permutations(Bodies)
=============================================================================
