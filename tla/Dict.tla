-------------------------------- MODULE Dict --------------------------------
(***************************************************************************)
(* The hash table of 415640/dict.c: buckets of chained nodes, a node per   *)
(* key, newest node first.  A dictionary is a record; `at' is the key of   *)
(* the node whose value field dic->value points at.  What a node stores    *)
(* there is left to the modules that use the dictionary.                   *)
(***************************************************************************)
EXTENDS Integers, SequencesExt

CONSTANTS
    InitialLength,  \* 1024 in dic_new(0)
    GrowthFactor,   \* 20 in dic_new
    NoKey           \* no node

ASSUME DictConstantsOk == InitialLength \in Nat \ {0} /\ GrowthFactor \in Nat \ {0, 1}

Empty(n) == [b \in 0..(n - 1) |-> <<>>]

\* dic->value is not initialised; nobody follows it before a node is added.
dic_new ==
    [length |-> InitialLength, count |-> 0, table |-> Empty(InitialLength), at |-> NoKey]

\* hash_pointer(key) % dic->length; hash is what hash_pointer returns.
Bucket(dic, hash, k) == hash[k] % dic.length

Chain(dic, hash, k) == dic.table[Bucket(dic, hash, k)]

\* Faulty variant: only the first node of each chain is visited.
dic_forEach_First(dic) ==
    FlattenSeq([b \in 1..dic.length |->
                  IF dic.table[b - 1] = <<>> THEN <<>> ELSE <<dic.table[b - 1][1]>>])

\* dic_forEach: buckets in order, each chain from its first node on.
dic_forEach(dic) ==
    FlattenSeq([b \in 1..dic.length |-> dic.table[b - 1]])

\* dic_find's answer.
dic_find(dic, hash, k) ==
    \E i \in 1..Len(Chain(dic, hash, k)) : Chain(dic, hash, k)[i] = k

\* dic->value points into the node of k.
Pointing(dic, k) == [dic EXCEPT !.at = k]

\* A node goes in front of the chain of bucket b.
Put(dic, b, k) == Pointing([dic EXCEPT !.table[b] = <<k>> \o @], k)

\* Faulty variant: a node keeps the bucket number it had.
dic_reinsert_SameBucket(dic, hash, k) == Put(dic, hash[k] % InitialLength, k)

\* dic_reinsert_when_resizing.
dic_reinsert(dic, hash, k) == Put(dic, Bucket(dic, hash, k), k)

\* dic_resize moves the nodes in the order of iteration.
dic_resize(dic, hash, newsize) ==
    LET nodes == dic_forEach(dic)
        moved[n \in 0 .. Len(nodes)] ==
            IF n = 0 THEN [dic EXCEPT !.length = newsize, !.table = Empty(newsize)]
                     ELSE dic_reinsert(moved[n - 1], hash, nodes[n])
    IN  moved[Len(nodes)]

\* growth_treshold is 0.5.
Crowded(dic) == 2 * dic.count > dic.length

Present(dic, hash, k) == dic_find(dic, hash, k)

(***************************************************************************)
(* The resizes of dic_add.  The table grows only when the bucket is empty, *)
(* and then again as long as that is so: keys added to full buckets never  *)
(* make it grow, so one insertion may resize several times.  As many       *)
(* resizes as there are nodes are always enough.                           *)
(***************************************************************************)
Grown(dic, hash, k) ==
    LET grown[n \in 0 .. dic.count] ==
            IF n = 0 THEN dic
            ELSE IF Chain(grown[n - 1], hash, k) = <<>> /\ Crowded(grown[n - 1])
            THEN dic_resize(grown[n - 1], hash, grown[n - 1].length * GrowthFactor)
            ELSE grown[n - 1]
    IN  grown[dic.count]

\* Faulty variant: dic->value moves only when a node is made.
Added_StalePointer(dic, hash, k) ==
    IF Present(dic, hash, k) THEN dic
    ELSE [Put(dic, Bucket(dic, hash, k), k) EXCEPT !.count = @ + 1]

\* dic_add once the table is large enough.
Added(dic, hash, k) ==
    IF Present(dic, hash, k) THEN Pointing(dic, k)
    ELSE [Put(dic, Bucket(dic, hash, k), k) EXCEPT !.count = @ + 1]

dic_add(dic, hash, k) == Added(Grown(dic, hash, k), hash, k)
=============================================================================
