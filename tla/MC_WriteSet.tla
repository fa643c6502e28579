---------------------------- MODULE MC_WriteSet ----------------------------
(* Small instances of WriteSet for TLC. *)
EXTENDS WriteSet, TLC

CONSTANTS k1, k2, k3, k4

KeySymmetry == Permutations(Keys)
=============================================================================
