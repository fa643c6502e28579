----------------------- MODULE SegmentListProperties -----------------------
(***************************************************************************)
(* What the lists of module SegmentList promise.                           *)
(***************************************************************************)
EXTENDS SegmentList

Unlocked == {"idle", "append", "concat", "commit"}

\* The spin lock of ll.c works: it is 1 exactly while one thread, and only
\* one, is between lock_acquire and lock_release.
LockExclusive ==
    /\ lk = 1 <=> \E t \in Threads : pc[t] \notin Unlocked
    /\ \A t, u \in Threads :
         (pc[t] \notin Unlocked /\ pc[u] \notin Unlocked) => t = u

\* Thread t has linked its list to Region and not cleared it yet.
Moving(t) == pc[t] \in {"concat_tail", "concat_size", "concat_clear"}

\* head, tail, size and the chain of next agree.
Intact(l) ==
    LET s == NodeSeq(l) IN
    /\ size[l] = Len(s)
    /\ tail[l] = IF s = <<>> THEN Null ELSE s[Len(s)]
    /\ s # <<>> => next[tail[l]] = Null

\* Whoever takes the lock finds Region whole, and every private list is whole
\* except while it is being moved: no interleaving of appends and
\* concatenations leaves a tail that is not the last node.
ListsIntact ==
    /\ lk = 0 => Intact(Region)
    /\ \A t \in Threads : ~ Moving(t) => Intact(t)

\* The segments the nodes point to.
Held == {data[n] : n \in nodes}

\* Each allocated node is in one list only, or is the node of an append that
\* is going on, and no list reaches a freed node: a transaction that kept its
\* nodes after ll_concat_safe would free nodes of the region.  Each allocated
\* segment is held by a node, is about to be, or is one for which malloc gave
\* no node; the last are in no list, and are all that tm_destroy leaves behind.
NodesAccounted ==
    /\ \A l, m \in Lists :
         (l # m /\ ~ \E t \in {l, m} \ {Region} : Moving(t))
             => NodesOf(l) \cap NodesOf(m) = {}
    /\ UNION {NodesOf(l) : l \in Lists} \subseteq nodes
    /\ \A n \in nodes : \/ \E l \in Lists : n \in NodesOf(l)
                        \/ \E t \in Threads : new_node[t] = n
    /\ segs = Held \cup lost \cup ({arg[t] : t \in Threads} \ {Null})
    /\ Held \cap lost = {}
    /\ ~ up => nodes = {} /\ segs = lost

\* The sequence of segments each list stands for.  A concatenation takes
\* effect when the second list is linked to the end of the first.
content == [l \in Lists |->
    IF l \in Threads /\ Moving(l) THEN <<>>
    ELSE [i \in 1..Len(NodeSeq(l)) |-> data[NodeSeq(l)[i]]]]

Abstract == INSTANCE SegmentSeq

\* The lists of ll.c implement sequences with atomic calls: the concurrent
\* concatenations of committers lose, duplicate and reorder nothing.
ImplementsSequences == Abstract!Spec
=============================================================================
