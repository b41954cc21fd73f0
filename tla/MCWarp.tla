------------------------------- MODULE MCWarp -------------------------------
(***************************************************************************)
(* Instances of Warp for TLC: the constants are given in the .cfg files.    *)
(***************************************************************************)
EXTENDS Warp
=============================================================================
