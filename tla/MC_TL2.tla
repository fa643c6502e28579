------------------------------- MODULE MC_TL2 -------------------------------
(* Small instances of TL2 for TLC. *)
EXTENDS TL2Properties, TLC

CONSTANTS t1, t2, x, y, s1, s2, k

\* One lock per address.
LockPerAddr == [a \in Addr |-> a]

\* hash_pointer sends every address to the same slot.
LockShared == [a \in Addr |-> k]

\* Transactions begun by each thread, retries included.
OneEach == [t \in Threads |-> 1]
OneAndTwo == [t \in Threads |-> IF t = t1 THEN 1 ELSE 2]

\* Bound of the longest run: the two transactions of t2 write one word each.
OneWrite == Cardinality(write_set[t2]) <= 1

\* Bound of the run with allocations: one word is read by each transaction.
OneRead == \A t \in Threads : Cardinality(read_set[t]) <= 1

\* Bounds on failing list nodes: none for the first segment; one at all.
FirstListed == FirstSeg \notin unlisted
OneFailure == Cardinality(unlisted) <= 1

\* The two words play the same role: each has its own lock, or both share one.
WordSymmetry == Permutations(Words)

FullSymmetry == WordSymmetry \cup Permutations(Threads)

\* Likewise the two segments.
SegSymmetry == Permutations(Segs)
=============================================================================
