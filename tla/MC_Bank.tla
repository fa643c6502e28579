------------------------------- MODULE MC_Bank -------------------------------
(* Small instances of Bank for TLC. *)
EXTENDS Bank

CONSTANTS t1, t2

\* Workers are interchangeable.
WorkerSymmetry == Permutations(Workers)
=============================================================================
