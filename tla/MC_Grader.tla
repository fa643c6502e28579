------------------------------ MODULE MC_Grader ------------------------------
(* A small instance of Grader for TLC. *)
EXTENDS Grader

CONSTANTS w1, w2, w3
=============================================================================
