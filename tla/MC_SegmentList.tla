--------------------------- MODULE MC_SegmentList ---------------------------
(* Small instances of SegmentList for TLC. *)
EXTENDS SegmentListProperties, TLC

CONSTANTS t1, t2, n1, n2, n3, d1, d2, d3

\* Nodes are interchangeable addresses.
NodeSymmetry == Permutations(Nodes)

FullSymmetry == NodeSymmetry \cup Permutations(Data) \cup Permutations(Threads)
=============================================================================
