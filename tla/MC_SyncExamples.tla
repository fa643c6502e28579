--------------------------- MODULE MC_SyncExamples ---------------------------
(* A small instance of the example programs for TLC. *)
EXTENDS SyncExamples

CONSTANTS t1, t2, t3
=============================================================================
