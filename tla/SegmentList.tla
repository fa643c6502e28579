---------------------------- MODULE SegmentList ----------------------------
(***************************************************************************)
(* The linked list of 415640/ll.c at the level of its pointers.            *)
(*                                                                         *)
(* One list, Region, is shared: threads append to it and concatenate their *)
(* own list to it under its spin lock.  Each thread has a private list     *)
(* (the alloc_set of its transaction) that it uses without a lock.  One    *)
(* step is one access to the shared list; a call on a private list is one  *)
(* step.  Data values are the segments the nodes point to.                 *)
(***************************************************************************)
EXTENDS VersionLock, Sequences, FiniteSets

CONSTANTS
    Threads,
    Region,    \* the list of the shared region
    Nodes,     \* addresses malloc may return for a node
    Data,      \* segments
    Null,
    MaxCalls   \* bound: calls each thread makes

Lists == Threads \cup {Region}

ASSUME ListConstantsOk ==
    /\ Region \notin Threads
    /\ Null \notin Nodes \cup Data
    /\ IsFiniteSet(Nodes)
    /\ MaxCalls \in Nat

VARIABLES
    head, tail, size,  \* the fields of each list
    lk,                \* the lock of Region
    data, next,        \* the fields of each node
    nodes,             \* the nodes that are allocated
    segs,              \* the segments that are allocated
    lost,              \* history: those for which there was no node
    arg,               \* the segment a thread gave to ll_append_safe
    up,                \* Region has not been destroyed
    pc, new_node,      \* where each thread is in a call, and its local node
    calls

lists == <<head, tail, size, data, next, nodes>>
vars  == <<lists, lk, segs, lost, arg, up, pc, new_node, calls>>

\* The nodes met from address h on; more than there are only in a cycle.
Path(h, nx) ==
    LET at[i \in 1..(Cardinality(Nodes) + 1)] ==
          IF i = 1 THEN h
          ELSE IF at[i - 1] = Null THEN Null ELSE nx[at[i - 1]]
        met == {i \in 1..(Cardinality(Nodes) + 1) : at[i] # Null}
    IN  [i \in 1..Cardinality(met) |-> at[i]]

\* ... from the head of list l on.
NodeSeq(l) == Path(head[l], next)

NodesOf(l) == {NodeSeq(l)[i] : i \in 1..Len(NodeSeq(l))}

-----------------------------------------------------------------------------
(* Creation and destruction *)

\* ll_init of every list.
Init ==
    /\ head = [l \in Lists |-> Null]
    /\ tail = [l \in Lists |-> Null]
    /\ size = [l \in Lists |-> 0]
    /\ lk = 0
    /\ data = [n \in Nodes |-> Null]
    /\ next = [n \in Nodes |-> Null]
    /\ nodes = {}
    /\ segs = {}
    /\ lost = {}
    /\ arg = [t \in Threads |-> Null]
    /\ up = TRUE
    /\ pc = [t \in Threads |-> "idle"]
    /\ new_node = [t \in Threads |-> Null]
    /\ calls = [t \in Threads |-> 0]

\* Fields of a list after a destructor.
Emptied(l) ==
    /\ head' = [head EXCEPT ![l] = Null]
    /\ tail' = [tail EXCEPT ![l] = Null]
    /\ size' = [size EXCEPT ![l] = 0]
    /\ UNCHANGED <<data, next>>

\* ll_destroy frees the nodes of a list.
ll_destroy(l) == Emptied(l) /\ nodes' = nodes \ NodesOf(l)

\* ll_destroy_nested frees their segments too.
ll_destroy_nested(l) ==
    /\ ll_destroy(l)
    /\ segs' = segs \ {data[n] : n \in NodesOf(l)}
    /\ UNCHANGED lost

\* A thread starts a call.
Enter(t) ==
    /\ up
    /\ pc[t] = "idle"
    /\ calls[t] < MaxCalls
    /\ calls' = [calls EXCEPT ![t] = @ + 1]

Goto(t, p) == pc' = [pc EXCEPT ![t] = p]

-----------------------------------------------------------------------------
(* Private lists *)

\* Node n, not linked yet, holds segment d.
NewNode(d, n) ==
    /\ n \notin nodes
    /\ nodes' = nodes \cup {n}
    /\ data' = [data EXCEPT ![n] = d]
    /\ UNCHANGED lost

\* malloc gives no node for segment d.
NoNode(d) == lost' = lost \cup {d} /\ UNCHANGED lists

(***************************************************************************)
(* tm_alloc obtains a segment and calls ll_append: the new node becomes    *)
(* the tail, and the head of an empty list.  When malloc fails ll_append   *)
(* returns false, which tm_alloc does not look at.                         *)
(***************************************************************************)
ll_append(t, d, n) ==
    /\ Enter(t)
    /\ d \notin segs
    /\ segs' = segs \cup {d}
    /\ \/ /\ NewNode(d, n)
          /\ next' = IF head[t] = Null THEN [next EXCEPT ![n] = Null]
                     ELSE [next EXCEPT ![n] = Null, ![tail[t]] = n]
          /\ head' = [head EXCEPT ![t] = IF @ = Null THEN n ELSE @]
          /\ tail' = [tail EXCEPT ![t] = n]
          /\ size' = [size EXCEPT ![t] = @ + 1]
       \/ NoNode(d)
    /\ UNCHANGED <<arg, lk, up, pc, new_node>>

\* Faulty variant: removing the last node leaves the tail on it.
NewTail_Kept(t, i) == tail[t]

\* The tail moves back when the last node, the i-th, is removed.
NewTail(t, i) ==
    IF NodeSeq(t)[i] # tail[t] THEN tail[t]
    ELSE IF i = 1 THEN Null ELSE NodeSeq(t)[i - 1]

(***************************************************************************)
(* ll_remove (and ll_remove_cmp, which finds the node by a comparator):    *)
(* unlink the first node with the data.  The caller frees the segment.     *)
(***************************************************************************)
ll_remove(t, i) ==
    LET s == NodeSeq(t) IN
    /\ Enter(t)
    /\ i \in 1..Len(s)
    /\ \A j \in 1..(i - 1) : data[s[j]] # data[s[i]]
    /\ head' = [head EXCEPT ![t] = IF i = 1 THEN next[s[1]] ELSE @]
    /\ next' = IF i = 1 THEN next ELSE [next EXCEPT ![s[i - 1]] = next[s[i]]]
    /\ tail' = [tail EXCEPT ![t] = NewTail(t, i)]
    /\ size' = [size EXCEPT ![t] = @ - 1]
    /\ nodes' = nodes \ {s[i]}
    /\ segs' = segs \ {data[s[i]]}
    /\ UNCHANGED <<lost, arg, lk, data, up, pc, new_node>>

\* tx_destroy of a transaction that did not commit.
tx_destroy(t) ==
    /\ pc[t] = "idle"
    /\ head[t] # Null
    /\ ll_destroy_nested(t)
    /\ UNCHANGED <<arg, lk, up, pc, new_node, calls>>

-----------------------------------------------------------------------------
(* The shared list *)

\* Faulty variant: the exchange does not look at the value.
AcquireOk_Any(v) == TRUE

\* lock_acquire spins until the exchange of 0 by 1 succeeds.
AcquireOk(v) == v = 0

lock_acquire(t, from, to) ==
    /\ pc[t] = from
    /\ AcquireOk(lk)
    /\ lk' = 1
    /\ Goto(t, to)
    /\ UNCHANGED <<lists, segs, lost, arg, up, new_node, calls>>

unlock(t, to) ==
    /\ lk' = lock_release(lk)
    /\ Goto(t, to)
    /\ new_node' = [new_node EXCEPT ![t] = Null]
    /\ UNCHANGED <<lists, segs, lost, arg, up, calls>>

\* ll_append_safe(Region, d): the caller has obtained segment d.
ll_append_safe(t, d) ==
    /\ Enter(t)
    /\ d \notin segs
    /\ segs' = segs \cup {d}
    /\ arg' = [arg EXCEPT ![t] = d]
    /\ Goto(t, "append")
    /\ UNCHANGED <<lists, lk, lost, up, new_node>>

\* A new node; when malloc fails the lock is released, and the caller's
\* segment is in no list.
append_node(t, n) ==
    /\ pc[t] = "append_node"
    /\ arg' = [arg EXCEPT ![t] = Null]
    /\ \/ /\ NewNode(arg[t], n)
          /\ next' = [next EXCEPT ![n] = Null]
          /\ new_node' = [new_node EXCEPT ![t] = n]
          /\ Goto(t, "append_link")
          /\ UNCHANGED <<head, tail, size>>
       \/ /\ NoNode(arg[t])
          /\ Goto(t, "append_unlock")
          /\ UNCHANGED new_node
    /\ UNCHANGED <<segs, lk, up, calls>>

\* Head of an empty list, or next of the tail.
Linked(l, n) ==
    IF head[l] = Null THEN head' = [head EXCEPT ![l] = n] /\ UNCHANGED next
    ELSE next' = [next EXCEPT ![tail[l]] = n] /\ UNCHANGED head

append_link(t) ==
    /\ pc[t] = "append_link"
    /\ Linked(Region, new_node[t])
    /\ Goto(t, "append_tail")
    /\ UNCHANGED <<tail, size, data, nodes, lk, segs, lost, arg, up, new_node, calls>>

append_tail(t) ==
    /\ pc[t] = "append_tail"
    /\ tail' = [tail EXCEPT ![Region] = new_node[t]]
    /\ Goto(t, "append_size")
    /\ UNCHANGED <<head, size, data, next, nodes, lk, segs, lost, arg, up, new_node, calls>>

append_size(t) ==
    /\ pc[t] = "append_size"
    /\ size' = [size EXCEPT ![Region] = @ + 1]
    /\ Goto(t, "append_unlock")
    /\ UNCHANGED <<head, tail, data, next, nodes, lk, segs, lost, arg, up, new_node, calls>>

append_unlock(t) == pc[t] = "append_unlock" /\ unlock(t, "idle")

\* ll_concat_safe(Region, t's list), called by tm_end.
ll_concat_safe(t) ==
    /\ Enter(t)
    /\ Goto(t, "concat")
    /\ UNCHANGED <<lists, lk, segs, lost, arg, up, new_node>>

\* Faulty variant: the early return forgets the lock.
EarlyReturn_Locked == "commit"

\* An empty second list: release the lock and return.
EarlyReturn == "concat_unlock"

concat_link(t) ==
    /\ pc[t] = "concat_link"
    /\ \/ /\ head[t] = Null
          /\ Goto(t, EarlyReturn)
          /\ UNCHANGED <<head, next>>
       \/ /\ head[t] # Null
          /\ Linked(Region, head[t])
          /\ Goto(t, "concat_tail")
    /\ UNCHANGED <<tail, size, data, nodes, lk, segs, lost, arg, up, new_node, calls>>

concat_tail(t) ==
    /\ pc[t] = "concat_tail"
    /\ tail' = [tail EXCEPT ![Region] = tail[t]]
    /\ Goto(t, "concat_size")
    /\ UNCHANGED <<head, size, data, next, nodes, lk, segs, lost, arg, up, new_node, calls>>

\* The size of an empty Region is 0: replacing it and adding are the same.
concat_size(t) ==
    /\ pc[t] = "concat_size"
    /\ size' = [size EXCEPT ![Region] = @ + size[t]]
    /\ Goto(t, "concat_clear")
    /\ UNCHANGED <<head, tail, data, next, nodes, lk, segs, lost, arg, up, new_node, calls>>

\* Faulty variant: the second list keeps its nodes.
ClearedHead_Kept(t) == head[t]

ClearedHead(t) == Null

concat_clear(t) ==
    /\ pc[t] = "concat_clear"
    /\ head' = [head EXCEPT ![t] = ClearedHead(t)]
    /\ tail' = [tail EXCEPT ![t] = ClearedHead(t)]
    /\ size' = [size EXCEPT ![t] = 0]
    /\ Goto(t, "concat_unlock")
    /\ UNCHANGED <<data, next, nodes, lk, segs, lost, arg, up, new_node, calls>>

concat_unlock(t) == pc[t] = "concat_unlock" /\ unlock(t, "commit")

\* tx_destroy of the committed transaction: only nodes are freed, and after
\* the concatenation there should be none.
commit(t) ==
    /\ pc[t] = "commit"
    /\ ll_destroy(t)
    /\ Goto(t, "idle")
    /\ UNCHANGED <<lk, segs, lost, arg, up, new_node, calls>>

-----------------------------------------------------------------------------
(* The specification *)

\* ll_destroy_nested of Region by tm_destroy: all threads have finished,
\* their last transactions too.
tm_destroy ==
    /\ up
    /\ \A t \in Threads : pc[t] = "idle" /\ head[t] = Null
    /\ up' = FALSE
    /\ ll_destroy_nested(Region)
    /\ UNCHANGED <<arg, lk, pc, new_node, calls>>

Step(t) ==
    \/ lock_acquire(t, "append", "append_node")
    \/ lock_acquire(t, "concat", "concat_link")
    \/ \E n \in Nodes : append_node(t, n)
    \/ append_link(t) \/ append_tail(t) \/ append_size(t) \/ append_unlock(t)
    \/ concat_link(t) \/ concat_tail(t) \/ concat_size(t) \/ concat_clear(t)
    \/ concat_unlock(t)
    \/ commit(t)

Call(t) ==
    \/ \E d \in Data, n \in Nodes : ll_append(t, d, n)
    \/ \E i \in 1..Cardinality(Nodes) : ll_remove(t, i)
    \/ tx_destroy(t)
    \/ \E d \in Data : ll_append_safe(t, d)
    \/ ll_concat_safe(t)

Done == ~ up /\ UNCHANGED vars

Next ==
    \/ \E t \in Threads : Call(t) \/ Step(t)
    \/ tm_destroy
    \/ Done

Spec == Init /\ [][Next]_vars

FairSpec == Spec /\ \A t \in Threads : WF_vars(Step(t))
=============================================================================
