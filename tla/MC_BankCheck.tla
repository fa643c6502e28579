---------------------------- MODULE MC_BankCheck ----------------------------
(* Small instances of BankCheck for TLC. *)
EXTENDS BankCheck

CONSTANTS t0, t1, t2
=============================================================================
