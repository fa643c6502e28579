------------------------------ MODULE MC_RefTM ------------------------------
(* A small instance of RefTM for TLC. *)
EXTENDS RefTM, TLC

CONSTANTS t1, t2, w1, s1, s2, s3, zero, one

\* Threads are interchangeable, and so are the addresses of segments.
TwoSymmetries == Permutations(Threads) \cup Permutations(Segments)
=============================================================================
