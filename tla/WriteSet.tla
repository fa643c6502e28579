------------------------------ MODULE WriteSet ------------------------------
(***************************************************************************)
(* The write set of one transaction: a dictionary from words to buffers on *)
(* the heap (tm_write in 415640/tm.c, the write-back and the destructor in *)
(* utils.c).  Each call of malloc is one new buffer; a buffer stands for   *)
(* the value copied into it.                                               *)
(***************************************************************************)
EXTENDS Dict, FiniteSets

CONSTANTS
    Keys,       \* the words
    Hashes,     \* bound: values of hash_pointer
    MaxWrites   \* bound: calls of tm_write

ASSUME WriteSetConstantsOk ==
    Hashes \subseteq Nat /\ MaxWrites \in Nat /\ NoKey \notin Keys

VARIABLES
    hash,     \* Keys -> Hashes, fixed by where the words happen to be
    dic,      \* the dictionary
    value,    \* the value field of each key's node, 0 for NULL
    heap,     \* buffers that are allocated
    writes,   \* buffers allocated so far
    phase,    \* "run", "commit", "destroy", "done"
    todo,     \* the nodes a pass of dic_forEach has still to visit
    mem,      \* the shared words, as the buffer last copied to them
    last      \* history: the buffer last written by the client to each word

vars == <<hash, dic, value, heap, writes, phase, todo, mem, last>>

NULL == 0

\* dic_new by tm_begin.
Init ==
    /\ hash \in [Keys -> Hashes]
    /\ dic = dic_new
    /\ value = [k \in Keys |-> NULL]
    /\ heap = {}
    /\ writes = 0
    /\ phase = "run"
    /\ todo = <<>>
    /\ mem = [k \in Keys |-> NULL]
    /\ last = [k \in Keys |-> NULL]

\* One word of tm_write: the buffer is stored through dic->value.
tm_write(k) ==
    /\ phase = "run"
    /\ writes < MaxWrites
    /\ writes' = writes + 1
    /\ heap' = heap \cup {writes + 1}
    /\ dic' = dic_add(dic, hash, k)
    /\ value' = [value EXCEPT ![dic'.at] = writes + 1]
    /\ last' = [last EXCEPT ![k] = writes + 1]
    /\ UNCHANGED <<hash, phase, todo, mem>>

\* tm_read of a word in the write set moves dic->value.
tm_read(k) ==
    /\ phase = "run"
    /\ dic_find(dic, hash, k)
    /\ dic' = Pointing(dic, k)
    /\ UNCHANGED <<hash, value, heap, writes, phase, todo, mem, last>>

\* tm_end starts to write back.
tm_end ==
    /\ phase = "run"
    /\ phase' = "commit"
    /\ todo' = dic_forEach(dic)
    /\ UNCHANGED <<hash, dic, value, heap, writes, mem, last>>

write_writing_set ==
    /\ phase = "commit"
    /\ todo # <<>>
    /\ mem' = [mem EXCEPT ![Head(todo)] = value[Head(todo)]]
    /\ todo' = Tail(todo)
    /\ UNCHANGED <<hash, dic, value, heap, writes, phase, last>>

\* tx_destroy: after the write-back, or at once when the transaction aborts.
tx_destroy ==
    /\ phase = "run" \/ (phase = "commit" /\ todo = <<>>)
    /\ phase' = "destroy"
    /\ todo' = dic_forEach(dic)
    /\ UNCHANGED <<hash, dic, value, heap, writes, mem, last>>

nested_free_value_dict ==
    /\ phase = "destroy"
    /\ todo # <<>>
    /\ heap' = heap \ {value[Head(todo)]}
    /\ todo' = Tail(todo)
    /\ UNCHANGED <<hash, dic, value, writes, phase, mem, last>>

\* dic_delete, then the transaction itself is freed.
dic_delete ==
    /\ phase = "destroy"
    /\ todo = <<>>
    /\ phase' = "done"
    /\ dic' = dic_new
    /\ UNCHANGED <<hash, value, heap, writes, todo, mem, last>>

Done == phase = "done" /\ UNCHANGED vars

Next ==
    \/ \E k \in Keys : tm_write(k) \/ tm_read(k)
    \/ tm_end
    \/ write_writing_set
    \/ tx_destroy
    \/ nested_free_value_dict
    \/ dic_delete
    \/ Done

Spec == Init /\ [][Next]_vars
-----------------------------------------------------------------------------
(* Properties *)

Written == {k \in Keys : last[k] # NULL}

\* A transaction reads its own last write of a word, before and after any
\* number of resizes: tm_read finds exactly the words written, and the node
\* holds the last buffer although tm_write stores through dic->value.
ReadsOwnWrites ==
    phase = "run" => \A k \in Keys :
        /\ dic_find(dic, hash, k) <=> k \in Written
        /\ value[k] = last[k]

\* dic_forEach meets every written word once: a lock would be taken twice, or
\* a word not be written back, otherwise.
VisitsOnce ==
    phase = "run" =>
        /\ ToSet(dic_forEach(dic)) = Written
        /\ Len(dic_forEach(dic)) = Cardinality(Written)
        /\ dic.count = Cardinality(Written)

\* Write-back is complete when tx_destroy starts after it, and an aborted
\* transaction has written nothing.
AllOrNothing ==
    phase \in {"destroy", "done"} =>
        (mem = last \/ \A k \in Keys : mem[k] = NULL)

\* A transaction that has ended leaves no buffer on the heap.
NoLeak == phase = "done" => heap = {}
=============================================================================
