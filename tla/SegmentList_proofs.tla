------------------------- MODULE SegmentList_proofs -------------------------
(***************************************************************************)
(* Proofs about the lists of 415640/ll.c, for any number of threads, nodes *)
(* and segments: the spin lock protects the shared list; no interleaving   *)
(* breaks a list, loses a node or frees one that is in use; the lists      *)
(* implement sequences with atomic calls.                                  *)
(***************************************************************************)
EXTENDS SegmentListProperties, SequenceTheorems, FiniteSetTheorems,
        WellFoundedInduction, TLAPS

-----------------------------------------------------------------------------
(* The lock *)

PcValues == Unlocked \cup
    {"append_node", "append_link", "append_tail", "append_size", "append_unlock",
     "concat_link", "concat_tail", "concat_size", "concat_clear", "concat_unlock"}

\* LockExclusive with the types it needs: it is inductive.
LInv ==
    /\ pc \in [Threads -> PcValues]
    /\ lk \in {0, 1}
    /\ LockExclusive

\* ll_init leaves the lock free and nobody inside.
LEMMA LInit == Init => LInv
BY DEF Init, LInv, LockExclusive, PcValues, Unlocked

\* A step that stays outside, or stays inside, the critical section.
LEMMA SameSide ==
    ASSUME LInv, NEW t \in Threads, NEW p \in PcValues,
           pc' = [pc EXCEPT ![t] = p], UNCHANGED lk,
           p \in Unlocked <=> pc[t] \in Unlocked
    PROVE  LInv'
BY DEF LInv, LockExclusive

\* Leaving the critical section with lock_release.
LEMMA Leave ==
    ASSUME LInv, NEW t \in Threads, NEW p \in Unlocked, pc[t] \notin Unlocked,
           unlock(t, p)
    PROVE  LInv'
<1>1. lk = 1 /\ lk' = 0
  BY DEF LInv, LockExclusive, unlock, lock_release
<1>2. pc' = [pc EXCEPT ![t] = p]
  BY DEF unlock, Goto
<1>. QED
  BY <1>1, <1>2 DEF LInv, LockExclusive, PcValues

\* Entering it with lock_acquire, which needs the value 0.
LEMMA Acquire ==
    ASSUME LInv, NEW t \in Threads, NEW from, NEW p \in PcValues \ Unlocked,
           lock_acquire(t, from, p)
    PROVE  LInv'
<1>1. lk = 0 /\ lk' = 1 /\ pc' = [pc EXCEPT ![t] = p]
  BY DEF lock_acquire, AcquireOk, Goto
<1>2. \A u \in Threads : pc[u] \in Unlocked
  BY <1>1 DEF LInv, LockExclusive
<1>. QED
  BY <1>1, <1>2 DEF LInv, LockExclusive

\* Every step keeps the invariant.
LEMMA LNext == LInv /\ [Next]_vars => LInv'
<1>. SUFFICES ASSUME LInv, [Next]_vars PROVE LInv'
  OBVIOUS
<1>1. ASSUME NEW t \in Threads, Step(t)
      PROVE  LInv'
  <2>1. ASSUME NEW from \in {"append", "concat"}, NEW p \in {"append_node", "concat_link"},
               lock_acquire(t, from, p)
        PROVE  LInv'
    BY <2>1, Acquire DEF PcValues, Unlocked
  <2>2. ASSUME NEW n \in Nodes, append_node(t, n)
        PROVE  LInv'
    <3>1. PICK p \in {"append_link", "append_unlock"} : pc' = [pc EXCEPT ![t] = p]
      BY <2>2 DEF append_node, Goto
    <3>. QED
      BY <2>2, <3>1, SameSide DEF append_node, PcValues, Unlocked
  <2>3. CASE append_link(t)
    BY <2>3, SameSide DEF append_link, Goto, PcValues, Unlocked
  <2>4. CASE append_tail(t)
    BY <2>4, SameSide DEF append_tail, Goto, PcValues, Unlocked
  <2>5. CASE append_size(t)
    BY <2>5, SameSide DEF append_size, Goto, PcValues, Unlocked
  <2>6. CASE append_unlock(t)
    BY <2>6, Leave DEF append_unlock, Unlocked
  <2>7. CASE concat_link(t)
    <3>1. PICK p \in {"concat_unlock", "concat_tail"} : pc' = [pc EXCEPT ![t] = p]
      BY <2>7 DEF concat_link, Goto, EarlyReturn
    <3>. QED
      BY <2>7, <3>1, SameSide DEF concat_link, PcValues, Unlocked
  <2>8. CASE concat_tail(t)
    BY <2>8, SameSide DEF concat_tail, Goto, PcValues, Unlocked
  <2>9. CASE concat_size(t)
    BY <2>9, SameSide DEF concat_size, Goto, PcValues, Unlocked
  <2>10. CASE concat_clear(t)
    BY <2>10, SameSide DEF concat_clear, Goto, PcValues, Unlocked
  <2>11. CASE concat_unlock(t)
    BY <2>11, Leave DEF concat_unlock, Unlocked
  <2>12. CASE commit(t)
    BY <2>12, SameSide DEF commit, Goto, PcValues, Unlocked
  <2>. QED
    BY <1>1, <2>1, <2>2, <2>3, <2>4, <2>5, <2>6, <2>7, <2>8, <2>9, <2>10,
       <2>11, <2>12 DEF Step
<1>2. ASSUME NEW t \in Threads, Call(t)
      PROVE  LInv'
  <2>1. \/ UNCHANGED <<pc, lk>>
        \/ \E d \in Data : ll_append_safe(t, d)
        \/ ll_concat_safe(t)
    BY <1>2 DEF Call, ll_append, ll_remove, tx_destroy
  <2>2. CASE \E d \in Data : ll_append_safe(t, d)
    BY <2>2, SameSide DEF ll_append_safe, Enter, Goto, PcValues, Unlocked
  <2>3. CASE ll_concat_safe(t)
    BY <2>3, SameSide DEF ll_concat_safe, Enter, Goto, PcValues, Unlocked
  <2>4. CASE UNCHANGED <<pc, lk>>
    BY <2>4 DEF LInv, LockExclusive
  <2>. QED
    BY <2>1, <2>2, <2>3, <2>4
<1>3. CASE tm_destroy \/ Done \/ UNCHANGED vars
  BY <1>3 DEF tm_destroy, Done, vars, LInv, LockExclusive
<1>. QED
  BY <1>1, <1>2, <1>3 DEF Next

\* The lock of the region's list is held by one thread at a time, and its
\* value says so: what is between lock_acquire and lock_release in
\* ll_append_safe and ll_concat_safe runs alone.
THEOREM ListLockExclusive == Spec => []LockExclusive
<1>1. LInv => LockExclusive
  BY DEF LInv
<1>. QED
  BY <1>1, LInit, LNext, PTL DEF Spec

-----------------------------------------------------------------------------
(* Induction over data, and sequences *)

\* Every nonempty set of naturals has a least element.
LEMMA Least ==
    ASSUME NEW T \in SUBSET Nat, T # {}
    PROVE  \E x \in T : \A y \in T : x <= y
<1>. DEFINE R == OpToRel(<, Nat)
<1>1. \A x, y \in Nat : y < x => <<y, x>> \in R
  BY DEF OpToRel
<1>2. IsWellFoundedOn(R, Nat)
  BY NatLessThanWellFounded
<1>. HIDE DEF R
<1>3. PICK x \in T : \A y \in T : ~ (<<y, x>> \in R)
  BY <1>2, WFMin
<1>4. \A y \in T : ~ (y < x)
  BY <1>1, <1>3
<1>. QED
  BY <1>4

\* Induction, over a set of naturals instead of a predicate.
LEMMA Induct ==
    ASSUME NEW S \in SUBSET Nat, 0 \in S, \A n \in Nat : n \in S => n + 1 \in S
    PROVE  S = Nat
<1>1. SUFFICES ASSUME Nat \ S # {} PROVE FALSE
  OBVIOUS
<1>2. PICK x \in Nat \ S : \A y \in Nat \ S : x <= y
  BY <1>1, Least
<1>3. x # 0 /\ x - 1 \in Nat /\ x - 1 \in S
  BY <1>2
<1>. QED
  BY <1>2, <1>3

\* The nodes of s, in this order, are linked by nx from address h on.
Chain(h, nx, s) ==
    /\ s \in Seq(Nodes)
    /\ \A i, j \in 1..Len(s) : s[i] = s[j] => i = j
    /\ h = IF Len(s) = 0 THEN Null ELSE s[1]
    /\ \A i \in 1..Len(s) : nx[s[i]] = IF i = Len(s) THEN Null ELSE s[i + 1]

\* The size of an interval.
LEMMA CountTo == \A n \in Nat : Cardinality(1..n) = n
<1>1. TAKE n \in Nat
<1>2. Cardinality(1..n) = IF 1 > n THEN 0 ELSE n - 1 + 1
  <2>1. 1 \in Int /\ n \in Int
    OBVIOUS
  <2>. QED
    BY <2>1, FS_Interval, Zenon
<1>. QED
  BY <1>2

\* A chain has no more nodes than there are.
LEMMA ChainLength ==
    ASSUME NEW h, NEW nx, NEW s, Chain(h, nx, s)
    PROVE  Len(s) \in Nat /\ Len(s) <= Cardinality(Nodes) /\ Cardinality(Nodes) \in Nat
<1>1. s \in [1..Len(s) -> Nodes] /\ Len(s) \in Nat
  BY LenProperties DEF Chain
<1>2. s \in Injection(1..Len(s), Nodes)
  BY <1>1 DEF Chain, Injection, IsInjective
<1>3. Cardinality(1..Len(s)) <= Cardinality(Nodes)
  BY <1>2, FS_Injection, ListConstantsOk
<1>4. Cardinality(1..Len(s)) = Len(s)
  BY <1>1, CountTo
<1>. QED
  BY <1>1, <1>3, <1>4, FS_CardinalityType, ListConstantsOk

\* Following next from the head meets exactly the chain.
LEMMA PathOfChain ==
    ASSUME NEW h, NEW nx, NEW s, Chain(h, nx, s)
    PROVE  Path(h, nx) = s
<1>. DEFINE N == Cardinality(Nodes)
            L == Len(s)
            at[i \in 1..(Cardinality(Nodes) + 1)] ==
                IF i = 1 THEN h
                ELSE IF at[i - 1] = Null THEN Null ELSE nx[at[i - 1]]
            g == [i \in 1..(N + 1) |-> IF i <= L THEN s[i] ELSE Null]
            met == {i \in 1..(N + 1) : at[i] # Null}
<1>1. L \in Nat /\ N \in Nat /\ L <= N
  BY ChainLength
<1>2. \A i \in 1..L : s[i] \in Nodes /\ s[i] # Null
  BY ElementOfSeq, ListConstantsOk DEF Chain
<1>3. at = CHOOSE f : f = [i \in 1..(N + 1) |->
                             IF i = 1 THEN h ELSE IF f[i - 1] = Null THEN Null ELSE nx[f[i - 1]]]
  OBVIOUS
<1>4. Path(h, nx) = [i \in 1..Cardinality(met) |-> at[i]]
  BY DEF Path
<1>5. g = [i \in 1..(N + 1) |->
             IF i = 1 THEN h ELSE IF g[i - 1] = Null THEN Null ELSE nx[g[i - 1]]]
  <2>1. \A i \in 1..(N + 1) :
           g[i] = IF i = 1 THEN h ELSE IF g[i - 1] = Null THEN Null ELSE nx[g[i - 1]]
    <3>1. TAKE i \in 1..(N + 1)
    <3>2. CASE i = 1
      BY <1>1, <3>2 DEF Chain
    <3>3. CASE i # 1 /\ i - 1 <= L
      BY <1>1, <1>2, <3>3 DEF Chain
    <3>4. CASE i # 1 /\ L < i - 1
      BY <1>1, <3>4
    <3>. QED
      BY <1>1, <3>2, <3>3, <3>4
  <2>. QED
    BY <2>1
<1>. HIDE DEF at
<1>6. at = [i \in 1..(N + 1) |->
              IF i = 1 THEN h ELSE IF at[i - 1] = Null THEN Null ELSE nx[at[i - 1]]]
  BY <1>3, <1>5
<1>7. \A i \in 1..(N + 1) : at[i] = g[i]
  <2>. DEFINE B == {n \in Nat : n + 1 \in 1..(N + 1) => at[n + 1] = g[n + 1]}
  <2>1. 0 \in B
    <3>1. 1 \in 1..(N + 1)
      BY <1>1
    <3>2. at[1] = h
      BY <1>6, <3>1
    <3>3. g[1] = h
      BY <1>5, <3>1
    <3>. QED
      BY <3>2, <3>3
  <2>2. ASSUME NEW n \in Nat, n \in B PROVE n + 1 \in B
    <3>1. SUFFICES ASSUME n + 2 \in 1..(N + 1) PROVE at[n + 2] = g[n + 2]
      OBVIOUS
    <3>2. at[n + 1] = g[n + 1]
      BY <1>1, <2>2, <3>1
    <3>3. at[n + 2] = IF at[n + 1] = Null THEN Null ELSE nx[at[n + 1]]
      BY <1>1, <1>6, <3>1
    <3>. HIDE DEF g
    <3>4. g[n + 2] = IF g[n + 1] = Null THEN Null ELSE nx[g[n + 1]]
      BY <1>1, <1>5, <3>1
    <3>. QED
      BY <3>2, <3>3, <3>4
  <2>3. B = Nat
    <3>. HIDE DEF B
    <3>1. B \in SUBSET Nat
      BY DEF B
    <3>. QED
      BY <2>1, <2>2, <3>1, Induct
  <2>4. ASSUME NEW i \in 1..(N + 1) PROVE at[i] = g[i]
    <3>1. i - 1 \in Nat /\ i - 1 + 1 = i
      BY <1>1
    <3>2. i - 1 \in B
      BY <2>3, <3>1
    <3>. QED
      BY <3>1, <3>2
  <2>. QED
    BY <2>4
<1>8. met = 1..L
  <2>1. \A i \in 1..(N + 1) : at[i] # Null <=> i <= L
    BY <1>1, <1>2, <1>7
  <2>. QED
    BY <1>1, <2>1
<1>9. Cardinality(met) = L
  BY <1>1, <1>8, CountTo
<1>10. \A i \in 1..L : at[i] = s[i]
  BY <1>1, <1>7
<1>11. Path(h, nx) = [i \in 1..L |-> s[i]]
  BY <1>4, <1>9, <1>10
<1>. QED
  BY <1>11, LenProperties DEF Chain

\* The sequence without its i-th element.
Without(s, i) == [j \in 1..(Len(s) - 1) |-> IF j < i THEN s[j] ELSE s[j + 1]]

\* ... is what is before it followed by what is after it.
LEMMA SubSeqsWithout ==
    ASSUME NEW S, NEW s \in Seq(S), NEW i \in 1..Len(s)
    PROVE  /\ SubSeq(s, 1, i - 1) \o SubSeq(s, i + 1, Len(s)) = Without(s, i)
           /\ Without(s, i) \in Seq(S)
<1>. DEFINE a == SubSeq(s, 1, i - 1)
            b == SubSeq(s, i + 1, Len(s))
<1>1. Len(s) \in Nat /\ \A j \in 1..Len(s) : s[j] \in S
  BY LenProperties
<1>2. /\ a \in Seq(S)
      /\ Len(a) = i - 1
      /\ \A j \in 1..(i - 1) : a[j] = s[j]
  <2>1. \A j \in 1..(i - 1) : s[j] \in S
    BY <1>1
  <2>2. /\ a \in Seq(S)
        /\ Len(a) = IF 1 <= i - 1 THEN i - 1 - 1 + 1 ELSE 0
        /\ \A j \in 1..(i - 1 - 1 + 1) : a[j] = s[1 + j - 1]
    BY <1>1, <2>1, SubSeqProperties
  <2>. QED
    BY <1>1, <2>2
<1>3. /\ b \in Seq(S)
      /\ Len(b) = Len(s) - i
      /\ \A j \in 1..(Len(s) - i) : b[j] = s[i + j]
  <2>1. \A j \in (i + 1)..Len(s) : s[j] \in S
    BY <1>1
  <2>2. /\ b \in Seq(S)
        /\ Len(b) = IF i + 1 <= Len(s) THEN Len(s) - (i + 1) + 1 ELSE 0
        /\ \A j \in 1..(Len(s) - (i + 1) + 1) : b[j] = s[i + 1 + j - 1]
    BY <1>1, <2>1, SubSeqProperties
  <2>. QED
    BY <1>1, <2>2
<1>. HIDE DEF a, b
<1>4. /\ a \o b \in Seq(S)
      /\ Len(a \o b) = Len(a) + Len(b)
      /\ \A j \in 1..(Len(a) + Len(b)) :
            (a \o b)[j] = IF j <= Len(a) THEN a[j] ELSE b[j - Len(a)]
  BY <1>2, <1>3, ConcatProperties
<1>5. Len(a \o b) = Len(s) - 1
  BY <1>1, <1>2, <1>3, <1>4
<1>6. \A j \in 1..(Len(s) - 1) : (a \o b)[j] = IF j < i THEN s[j] ELSE s[j + 1]
  <2>1. TAKE j \in 1..(Len(s) - 1)
  <2>2. CASE j < i
    BY <1>1, <1>2, <1>3, <1>4, <2>2
  <2>3. CASE i <= j
    <3>1. (a \o b)[j] = b[j - (i - 1)]
      BY <1>1, <1>2, <1>3, <1>4, <2>3
    <3>2. b[j - (i - 1)] = s[i + (j - (i - 1))]
      BY <1>1, <1>3, <2>3
    <3>. QED
      BY <1>1, <2>3, <3>1, <3>2
  <2>4. j < i \/ i <= j
    BY <1>1
  <2>. QED
    BY <2>2, <2>3, <2>4
<1>7. a \o b = [j \in 1..Len(a \o b) |-> (a \o b)[j]]
  BY <1>4, LenProperties
<1>8. a \o b = Without(s, i)
  BY <1>1, <1>5, <1>6, <1>7 DEF Without
<1>. QED
  BY <1>4, <1>8 DEF a, b

-----------------------------------------------------------------------------
(* Chains *)

Elems(s) == {s[i] : i \in 1..Len(s)}

\* What a chain says, with its types.
LEMMA ChainFacts ==
    ASSUME NEW h, NEW nx, NEW s, Chain(h, nx, s)
    PROVE  /\ Len(s) \in Nat
           /\ \A i \in 1..Len(s) : s[i] \in Nodes /\ s[i] # Null
           /\ h = Null <=> Len(s) = 0
           /\ Elems(s) \subseteq Nodes
BY LenProperties, ElementOfSeq, ListConstantsOk DEF Chain, Elems

\* The empty chain, and that of one node.
LEMMA ChainEmpty == \A nx : Chain(Null, nx, <<>>)
BY EmptySeq DEF Chain

\* A node that is linked to none is a chain.
LEMMA ChainOne ==
    ASSUME NEW n \in Nodes, NEW nx, nx[n] = Null
    PROVE  Chain(n, nx, <<n>>)
BY DEF Chain

\* A chain does not depend on next of other nodes.
LEMMA ChainFrame ==
    ASSUME NEW h, NEW nx, NEW mx, NEW s, Chain(h, nx, s),
           \A n \in Elems(s) : mx[n] = nx[n]
    PROVE  Chain(h, mx, s)
BY DEF Chain, Elems

\* A concatenation has the elements of both.
LEMMA ElemsConcat ==
    ASSUME NEW S, NEW s \in Seq(S), NEW r \in Seq(S)
    PROVE  Elems(s \o r) = Elems(s) \cup Elems(r)
<1>1. /\ Len(s) \in Nat /\ Len(r) \in Nat
      /\ Len(s \o r) = Len(s) + Len(r)
      /\ \A i \in 1..(Len(s) + Len(r)) :
            (s \o r)[i] = IF i <= Len(s) THEN s[i] ELSE r[i - Len(s)]
  BY LenProperties, ConcatProperties
<1>2. ASSUME NEW x \in Elems(s \o r) PROVE x \in Elems(s) \cup Elems(r)
  BY <1>1 DEF Elems
<1>3. ASSUME NEW i \in 1..Len(s) PROVE s[i] \in Elems(s \o r)
  BY <1>1 DEF Elems
<1>4. ASSUME NEW i \in 1..Len(r) PROVE r[i] \in Elems(s \o r)
  <2>1. (s \o r)[Len(s) + i] = r[i]
    BY <1>1
  <2>. QED
    BY <1>1, <2>1 DEF Elems
<1>. QED
  BY <1>2, <1>3, <1>4 DEF Elems

\* Address k is linked to the end of chain s, as Linked does: g and mx are the
\* new head and the new links.
Joined(h, nx, s, k, g, mx) ==
    /\ nx \in [Nodes -> Nodes \cup {Null}]
    /\ k # Null
    /\ g = IF h = Null THEN k ELSE h
    /\ mx = IF h = Null THEN nx ELSE [nx EXCEPT ![s[Len(s)]] = k]

\* The chain from k becomes the end of the chain from h.
LEMMA Linking ==
    ASSUME NEW h, NEW k, NEW nx, NEW s, NEW r, NEW g, NEW mx,
           Chain(h, nx, s), Chain(k, nx, r), Joined(h, nx, s, k, g, mx),
           Elems(s) \cap Elems(r) = {}
    PROVE  Chain(g, mx, s \o r) /\ Chain(k, mx, r)
<1>0. /\ nx \in [Nodes -> Nodes \cup {Null}]
      /\ k # Null
      /\ g = IF h = Null THEN k ELSE h
      /\ mx = IF h = Null THEN nx ELSE [nx EXCEPT ![s[Len(s)]] = k]
  BY DEF Joined
<1>1. /\ Len(s) \in Nat /\ Len(r) \in Nat /\ Len(r) # 0
      /\ s \in Seq(Nodes) /\ r \in Seq(Nodes)
      /\ \A i \in 1..Len(s) : s[i] \in Nodes
      /\ h = Null <=> Len(s) = 0
  BY <1>0, ChainFacts DEF Chain
<1>2. /\ s \o r \in Seq(Nodes)
      /\ Len(s \o r) = Len(s) + Len(r)
      /\ \A i \in 1..(Len(s) + Len(r)) :
            (s \o r)[i] = IF i <= Len(s) THEN s[i] ELSE r[i - Len(s)]
  BY <1>0, <1>1, ConcatProperties
<1>3. \A i \in 1..Len(s), j \in 1..Len(r) : s[i] # r[j]
  BY DEF Elems
<1>4. \A n \in Elems(r) : mx[n] = nx[n]
  <2>1. CASE h = Null
    BY <1>0, <2>1
  <2>2. CASE h # Null
    <3>1. Len(s) \in 1..Len(s)
      BY <1>0, <1>1, <2>2
    <3>. QED
      BY <1>0, <1>1, <1>3, <2>2, <3>1, ChainFacts DEF Elems
  <2>. QED
    BY <2>1, <2>2
<1>5. Chain(k, mx, r)
  BY <1>0, <1>4, ChainFrame
<1>6. CASE h = Null
  <2>1. s = <<>>
    BY <1>0, <1>1, <1>6, EmptySeq
  <2>2. s \o r = r
    BY <1>0, <1>1, <2>1, ConcatEmptySeq
  <2>. QED
    BY <1>0, <1>5, <1>6, <2>2
<1>7. CASE h # Null
  <2>1. \A i \in 1..(Len(s) - 1) : mx[s[i]] = s[i + 1]
    <3>1. TAKE i \in 1..(Len(s) - 1)
    <3>2. i \in 1..Len(s) /\ Len(s) \in 1..Len(s) /\ i # Len(s)
      BY <1>0, <1>1
    <3>3. s[i] # s[Len(s)] /\ nx[s[i]] = s[i + 1]
      BY <3>2 DEF Chain
    <3>. QED
      BY <1>0, <1>1, <1>7, <3>2, <3>3
  <2>2. mx[s[Len(s)]] = r[1] /\ h = s[1]
    <3>1. Len(s) \in 1..Len(s)
      BY <1>0, <1>1, <1>7
    <3>. QED
      BY <1>0, <1>1, <1>7, <3>1 DEF Chain
  <2>3. \A i \in 1..Len(r) : mx[r[i]] = IF i = Len(r) THEN Null ELSE r[i + 1]
    BY <1>0, <1>5 DEF Chain
  <2>. DEFINE q == s \o r
  <2>4. \A i, j \in 1..Len(q) : q[i] = q[j] => i = j
    <3>1. ASSUME NEW i \in 1..Len(q), NEW j \in 1..Len(q), q[i] = q[j]
          PROVE  i = j
      <4>1. CASE i <= Len(s) /\ j <= Len(s)
        BY <1>1, <1>2, <3>1, <4>1 DEF Chain
      <4>2. CASE i > Len(s) /\ j > Len(s)
        <5>1. i - Len(s) \in 1..Len(r) /\ j - Len(s) \in 1..Len(r)
          BY <1>1, <1>2, <4>2
        <5>2. r[i - Len(s)] = r[j - Len(s)]
          BY <1>1, <1>2, <3>1, <4>2
        <5>3. i - Len(s) = j - Len(s)
          BY <5>1, <5>2 DEF Chain
        <5>. QED
          BY <1>0, <1>1, <5>3
      <4>3. CASE i <= Len(s) /\ j > Len(s)
        BY <1>1, <1>2, <1>3, <3>1, <4>3
      <4>4. CASE i > Len(s) /\ j <= Len(s)
        BY <1>1, <1>2, <1>3, <3>1, <4>4
      <4>. QED
        BY <1>1, <1>2, <4>1, <4>2, <4>3, <4>4
    <3>. QED
      BY <3>1
  <2>5. ASSUME NEW i \in 1..Len(q)
        PROVE  mx[q[i]] = IF i = Len(q) THEN Null ELSE q[i + 1]
    <3>1. CASE i < Len(s)
      <4>1. q[i] = s[i] /\ q[i + 1] = s[i + 1] /\ i # Len(q)
        BY <1>1, <1>2, <3>1
      <4>. QED
        BY <1>0, <1>1, <2>1, <3>1, <4>1
    <3>2. CASE i = Len(s)
      <4>1. q[i] = s[Len(s)] /\ q[i + 1] = r[1] /\ i # Len(q)
        BY <1>1, <1>2, <3>2
      <4>. QED
        BY <2>2, <4>1
    <3>3. CASE i > Len(s)
      <4>. DEFINE j == i - Len(s)
      <4>1. j \in 1..Len(r) /\ q[i] = r[j] /\ (i = Len(q) <=> j = Len(r))
        BY <1>1, <1>2, <3>3
      <4>2. i # Len(q) => q[i + 1] = r[j + 1]
        <5>1. SUFFICES ASSUME i # Len(q) PROVE q[i + 1] = r[j + 1]
          OBVIOUS
        <5>2. i \in Nat /\ i <= Len(q) /\ Len(q) = Len(s) + Len(r)
          BY <1>1, <1>2
        <5>3. i + 1 \in 1..(Len(s) + Len(r))
          BY <1>1, <5>1, <5>2
        <5>4. ~ (i + 1 <= Len(s)) /\ i + 1 - Len(s) = j + 1
          BY <1>1, <3>3, <5>2
        <5>. QED
          BY <1>2, <5>3, <5>4
      <4>. QED
        BY <2>3, <4>1, <4>2
    <3>4. i < Len(s) \/ i = Len(s) \/ i > Len(s)
      BY <1>1, <1>2
    <3>. QED
      BY <3>1, <3>2, <3>3, <3>4
  <2>6. Len(q) # 0 /\ q[1] = h
    BY <1>0, <1>1, <1>2, <1>7, <2>2
  <2>. QED
    BY <1>0, <1>2, <1>5, <1>7, <2>4, <2>5, <2>6 DEF Chain
<1>. QED
  BY <1>0, <1>5, <1>6, <1>7

\* The i-th node of chain s is unlinked, as ll_remove does.
Unlinked(h, nx, s, i, g, mx) ==
    /\ nx \in [Nodes -> Nodes \cup {Null}]
    /\ i \in 1..Len(s)
    /\ g = IF i = 1 THEN nx[s[1]] ELSE h
    /\ mx = IF i = 1 THEN nx ELSE [nx EXCEPT ![s[i - 1]] = nx[s[i]]]

\* The rest is a chain still.
LEMMA Unlinking ==
    ASSUME NEW h, NEW nx, NEW s, NEW i, NEW g, NEW mx,
           Chain(h, nx, s), Unlinked(h, nx, s, i, g, mx)
    PROVE  /\ Chain(g, mx, Without(s, i))
           /\ Elems(Without(s, i)) = Elems(s) \ {s[i]}
           /\ Len(Without(s, i)) = Len(s) - 1
<1>. DEFINE w == Without(s, i)
<1>0. /\ nx \in [Nodes -> Nodes \cup {Null}]
      /\ i \in 1..Len(s)
      /\ g = IF i = 1 THEN nx[s[1]] ELSE h
      /\ mx = IF i = 1 THEN nx ELSE [nx EXCEPT ![s[i - 1]] = nx[s[i]]]
  BY DEF Unlinked
<1>1. /\ Len(s) \in Nat /\ s \in Seq(Nodes) /\ i \in 1..Len(s)
      /\ \A j \in 1..Len(s) : s[j] \in Nodes
  BY <1>0, ChainFacts DEF Chain
<1>2. /\ w \in Seq(Nodes)
      /\ Len(w) = Len(s) - 1
      /\ \A j \in 1..(Len(s) - 1) : w[j] = IF j < i THEN s[j] ELSE s[j + 1]
  BY <1>1, SubSeqsWithout DEF Without
<1>3. \A j, k \in 1..Len(s) : s[j] = s[k] => j = k
  BY DEF Chain
<1>4. \A j \in 1..Len(s) : nx[s[j]] = IF j = Len(s) THEN Null ELSE s[j + 1]
  BY DEF Chain
<1>5. \A j \in 1..Len(s) :
         mx[s[j]] = IF i # 1 /\ j = i - 1 THEN nx[s[i]] ELSE nx[s[j]]
  BY <1>0, <1>1, <1>3
<1>. HIDE DEF w
<1>6. \A j, k \in 1..Len(w) : w[j] = w[k] => j = k
  <2>1. ASSUME NEW j \in 1..Len(w), NEW k \in 1..Len(w), w[j] = w[k] PROVE j = k
    <3>1. /\ j \in 1..Len(s) /\ k \in 1..Len(s)
          /\ j + 1 \in 1..Len(s) /\ k + 1 \in 1..Len(s)
      BY <1>1, <1>2
    <3>2. w[j] = (IF j < i THEN s[j] ELSE s[j + 1]) /\ w[k] = (IF k < i THEN s[k] ELSE s[k + 1])
      BY <1>2
    <3>3. (IF j < i THEN j ELSE j + 1) = (IF k < i THEN k ELSE k + 1)
      BY <1>3, <2>1, <3>1, <3>2
    <3>. QED
      BY <1>1, <3>1, <3>3
  <2>. QED
    BY <2>1
<1>7. g = IF Len(w) = 0 THEN Null ELSE w[1]
  BY <1>0, <1>1, <1>2, <1>4 DEF Chain
<1>8. ASSUME NEW j \in 1..Len(w)
      PROVE  mx[w[j]] = IF j = Len(w) THEN Null ELSE w[j + 1]
  <2>0. j \in 1..(Len(s) - 1) /\ j \in 1..Len(s) /\ j + 1 \in 1..Len(s) /\ j # Len(s)
    BY <1>1, <1>2
  <2>1. CASE j < i - 1
    <3>1. w[j] = s[j] /\ mx[s[j]] = s[j + 1] /\ j # Len(w) /\ w[j + 1] = s[j + 1]
      <4>1. w[j] = s[j] /\ j # Len(w) /\ j + 1 \in 1..(Len(s) - 1)
        BY <1>1, <1>2, <2>0, <2>1
      <4>2. w[j + 1] = s[j + 1]
        <5>1. j + 1 < i
          BY <1>1, <2>0, <2>1
        <5>. QED
          BY <1>2, <4>1, <5>1
      <4>3. mx[s[j]] = nx[s[j]]
        BY <1>1, <1>5, <2>0, <2>1
      <4>. QED
        BY <1>4, <2>0, <4>1, <4>2, <4>3
    <3>. QED
      BY <3>1
  <2>2. CASE j = i - 1
    <3>1. w[j] = s[j] /\ i # 1
      BY <1>1, <1>2, <2>0, <2>2
    <3>2. mx[s[j]] = nx[s[i]]
      BY <1>5, <2>0, <2>2, <3>1
    <3>3. nx[s[i]] = IF i = Len(s) THEN Null ELSE s[i + 1]
      BY <1>1, <1>4
    <3>4. i # Len(s) => w[j + 1] = s[i + 1]
      BY <1>1, <1>2, <2>0, <2>2
    <3>5. i = Len(s) <=> j = Len(w)
      BY <1>1, <1>2, <2>2
    <3>. QED
      BY <3>1, <3>2, <3>3, <3>4, <3>5
  <2>3. CASE i <= j
    <3>1. w[j] = s[j + 1]
      BY <1>1, <1>2, <2>0, <2>3
    <3>2. mx[s[j + 1]] = nx[s[j + 1]]
      BY <1>1, <1>5, <2>0, <2>3
    <3>3. nx[s[j + 1]] = IF j + 1 = Len(s) THEN Null ELSE s[j + 1 + 1]
      BY <1>4, <2>0
    <3>4. j # Len(w) => w[j + 1] = s[j + 1 + 1]
      BY <1>1, <1>2, <2>0, <2>3
    <3>5. j + 1 = Len(s) <=> j = Len(w)
      BY <1>1, <1>2, <2>0
    <3>. QED
      BY <3>1, <3>2, <3>3, <3>4, <3>5
  <2>4. j < i - 1 \/ j = i - 1 \/ i <= j
    BY <1>1, <1>2
  <2>. QED
    BY <2>1, <2>2, <2>3, <2>4
<1>9. Elems(w) = Elems(s) \ {s[i]}
  <2>1. ASSUME NEW j \in 1..Len(w) PROVE w[j] \in Elems(s) \ {s[i]}
    <3>1. w[j] = (IF j < i THEN s[j] ELSE s[j + 1]) /\ j \in 1..Len(s) /\ j + 1 \in 1..Len(s)
      BY <1>1, <1>2
    <3>. QED
      BY <1>1, <1>3, <3>1 DEF Elems
  <2>2. ASSUME NEW j \in 1..Len(s), s[j] # s[i] PROVE s[j] \in Elems(w)
    <3>1. CASE j < i
      <4>1. j \in 1..(Len(s) - 1)
        BY <1>1, <3>1
      <4>2. j \in 1..Len(w) /\ w[j] = s[j]
        BY <1>2, <3>1, <4>1
      <4>. QED
        BY <4>2 DEF Elems
    <3>2. CASE i < j
      <4>1. j - 1 \in 1..Len(w) /\ w[j - 1] = s[j - 1 + 1] /\ j - 1 + 1 = j
        BY <1>1, <1>2, <3>2
      <4>. QED
        BY <4>1 DEF Elems
    <3>3. j < i \/ i < j
      BY <1>1, <2>2
    <3>. QED
      BY <3>1, <3>2, <3>3
  <2>. QED
    BY <2>1, <2>2 DEF Elems
<1>10. Chain(g, mx, w)
  BY <1>2, <1>6, <1>7, <1>8 DEF Chain
<1>. QED
  BY <1>2, <1>9, <1>10 DEF w

-----------------------------------------------------------------------------
(* The lists *)

LastOf(s) == IF Len(s) = 0 THEN Null ELSE s[Len(s)]

TypeOk ==
    /\ head \in [Lists -> Nodes \cup {Null}]
    /\ tail \in [Lists -> Nodes \cup {Null}]
    /\ size \in [Lists -> Int]
    /\ data \in [Nodes -> Data \cup {Null}]
    /\ next \in [Nodes -> Nodes \cup {Null}]
    /\ nodes \subseteq Nodes
    /\ new_node \in [Threads -> Nodes \cup {Null}]

\* Every list is a chain.
Chained == \A l \in Lists : Chain(head[l], next, NodeSeq(l))

\* Tail and size of the private lists.
Private ==
    \A t \in Threads : tail[t] = LastOf(NodeSeq(t)) /\ size[t] = Len(NodeSeq(t))

\* Who is between the link and the tail, and between the link and the size.
AtTail == {t \in Threads : pc[t] \in {"append_tail", "concat_tail"}}
AtSize == AtTail \cup {t \in Threads : pc[t] \in {"append_size", "concat_size"}}

\* The tail of Region, or what whoever has linked will write there.
SharedTail ==
    /\ AtTail = {} => tail[Region] = LastOf(NodeSeq(Region))
    /\ \A t \in AtTail :
          LastOf(NodeSeq(Region)) = IF pc[t] = "append_tail" THEN new_node[t] ELSE tail[t]

\* The size of Region, or how much whoever has linked will add.
SharedSize ==
    /\ AtSize = {} => Len(NodeSeq(Region)) = size[Region]
    /\ \A t \in AtSize :
          Len(NodeSeq(Region)) =
              size[Region] + IF pc[t] \in {"append_tail", "append_size"} THEN 1 ELSE size[t]

\* No node is in two lists, except while a list is being moved.
Apart ==
    /\ \A t, u \in Threads : t # u => NodesOf(t) \cap NodesOf(u) = {}
    /\ \A t \in Threads :
          IF Moving(t) THEN NodesOf(t) \subseteq NodesOf(Region)
          ELSE NodesOf(t) \cap NodesOf(Region) = {}

\* The allocated nodes are those of the lists and those about to be linked.
Owned ==
    /\ \A l \in Lists : NodesOf(l) \subseteq nodes
    /\ \A t \in Threads : pc[t] = "append_link" =>
          /\ new_node[t] \in nodes
          /\ next[new_node[t]] = Null
          /\ \A l \in Lists : new_node[t] \notin NodesOf(l)
    /\ \A n \in nodes : \/ \E l \in Lists : n \in NodesOf(l)
                        \/ \E t \in Threads : pc[t] = "append_link" /\ new_node[t] = n

\* Whoever has a segment for ll_append_safe that no node holds yet.
Giving == {"append", "append_node"}

\* Each allocated node has a segment of its own, which is neither one without
\* a node nor one that waits for its node; so has each thread that waits.
Segments ==
    /\ arg \in [Threads -> Data \cup {Null}]
    /\ \A t \in Threads : pc[t] \in Giving <=> arg[t] # Null
    /\ segs = Held \cup lost \cup ({arg[t] : t \in Threads} \ {Null})
    /\ Held \subseteq Data
    /\ lost \subseteq Data
    /\ Held \cap lost = {}
    /\ \A t \in Threads : arg[t] \notin Held \cup lost
    /\ \A t, u \in Threads : arg[t] = arg[u] => t = u \/ arg[t] = Null
    /\ \A n, m \in nodes : data[n] = data[m] => n = m

\* A list that has been moved is empty; nothing is left after tm_destroy.
Settled ==
    /\ \A t \in Threads : pc[t] \in {"concat_unlock", "commit"} => head[t] = Null
    /\ ~ up => nodes = {} /\ \A t \in Threads : pc[t] = "idle"

\* What the data structure invariant says besides LInv.
DInv ==
    /\ TypeOk /\ Chained /\ Private /\ SharedTail /\ SharedSize
    /\ Apart /\ Owned /\ Segments /\ Settled

\* A step that is not about segments.
LEMMA SegmentsSame ==
    ASSUME LInv, Segments, NEW t \in Threads, NEW p,
           pc' = pc \/ pc' = [pc EXCEPT ![t] = p],
           p \in Giving <=> pc[t] \in Giving,
           UNCHANGED <<data, nodes, segs, lost, arg>>
    PROVE  Segments'
BY DEF LInv, Segments, Held

\* A chain found after a step is the list's sequence after the step.
LEMMA NewSeq ==
    ASSUME NEW l \in Lists, NEW s, Chain(head'[l], next', s)
    PROVE  /\ NodeSeq(l)' = s
           /\ NodesOf(l)' = Elems(s)
           /\ Chain(head'[l], next', NodeSeq(l)')
BY PathOfChain DEF NodeSeq, NodesOf, Elems

\* NodesOf in the terms of this module.
LEMMA NodesAre == \A l \in Lists : NodesOf(l) = Elems(NodeSeq(l))
BY DEF NodesOf, Elems

\* A list none of whose pointers is written stays as it is.
LEMMA Same ==
    ASSUME Chained, NEW l \in Lists, head'[l] = head[l],
           \A n \in NodesOf(l) : next'[n] = next[n]
    PROVE  /\ NodeSeq(l)' = NodeSeq(l)
           /\ NodesOf(l)' = NodesOf(l)
           /\ Chain(head'[l], next', NodeSeq(l)')
<1>1. Chain(head'[l], next', NodeSeq(l))
  BY NodesAre, ChainFrame DEF Chained
<1>. QED
  BY <1>1, NewSeq, NodesAre

\* A step that writes neither a head nor a link leaves every list as it is.
LEMMA AllSame ==
    ASSUME Chained, UNCHANGED <<head, next>>
    PROVE  /\ \A l \in Lists : NodeSeq(l)' = NodeSeq(l) /\ NodesOf(l)' = NodesOf(l)
           /\ Chained'
BY Same DEF Chained

\* Whoever holds the lock is alone.
LEMMA Alone ==
    ASSUME LInv, NEW t \in Threads, pc[t] \notin Unlocked
    PROVE  \A u \in Threads : u # t => pc[u] \in Unlocked
BY DEF LInv, LockExclusive

Busy == {"append_link", "append_tail", "append_size",
         "concat_tail", "concat_size", "concat_clear"}

\* A step from outside Busy to outside Busy that leaves the lists alone.
LEMMA Elsewhere ==
    ASSUME LInv, DInv, NEW t \in Threads, NEW p \in PcValues \ Busy, pc[t] \notin Busy,
           pc' = [pc EXCEPT ![t] = p],
           up, p \in {"concat_unlock", "commit"} => head[t] = Null,
           UNCHANGED <<lists, up>>, Segments',
           new_node' = new_node \/ new_node' = [new_node EXCEPT ![t] = Null]
    PROVE  DInv'
<1>1. /\ \A l \in Lists : NodeSeq(l)' = NodeSeq(l) /\ NodesOf(l)' = NodesOf(l)
      /\ Chained'
  BY AllSame DEF DInv, lists
<1>2. /\ \A u \in Threads : pc'[u] = IF u = t THEN p ELSE pc[u]
      /\ \A u \in Threads : u # t => new_node'[u] = new_node[u]
      /\ new_node' \in [Threads -> Nodes \cup {Null}]
  BY DEF LInv, DInv, TypeOk
<1>3. \A u \in Threads : pc'[u] \in Busy \/ pc[u] \in Busy => pc'[u] = pc[u] /\ u # t
  BY <1>2
<1>4. UNCHANGED <<head, tail, size, data, next, nodes, up>>
  BY DEF lists
<1>5. TypeOk' /\ Segments'
  BY <1>2, <1>4 DEF DInv, TypeOk
<1>6. Private'
  BY <1>1, <1>4 DEF DInv, Private, Lists
<1>7. AtTail' = AtTail /\ AtSize' = AtSize
  BY <1>3 DEF AtTail, AtSize, Busy
<1>8. \A u \in AtSize : pc'[u] = pc[u] /\ new_node'[u] = new_node[u] /\ u \in Threads
  BY <1>2, <1>3 DEF AtTail, AtSize, Busy
<1>9. SharedTail' /\ SharedSize'
  BY <1>1, <1>4, <1>7, <1>8 DEF DInv, SharedTail, SharedSize, AtSize, Lists
<1>10. \A u \in Threads : Moving(u)' = Moving(u)
  BY <1>3 DEF Moving, Busy
<1>11. Apart'
  BY <1>1, <1>10 DEF DInv, Apart, Lists
<1>12. \A u \in Threads : pc'[u] = "append_link" <=> pc[u] = "append_link"
  BY <1>3 DEF Busy
<1>13. \A u \in Threads : pc[u] = "append_link" => new_node'[u] = new_node[u]
  BY <1>2, <1>3 DEF Busy
<1>14. Owned'
  BY <1>1, <1>4, <1>12, <1>13 DEF DInv, Owned
<1>15. Settled'
  BY <1>2, <1>4 DEF DInv, Settled
<1>. QED
  BY <1>1, <1>5, <1>6, <1>9, <1>11, <1>14, <1>15 DEF DInv

\* A step that writes only the tail or the size of Region.
LEMMA TailOrSize ==
    ASSUME LInv, DInv, NEW t \in Threads,
           NEW p \in {"append_size", "append_unlock", "concat_size", "concat_clear"},
           pc[t] \in {"append_tail", "append_size", "concat_tail", "concat_size"},
           pc' = [pc EXCEPT ![t] = p],
           Moving(t)' = Moving(t),
           UNCHANGED <<head, data, next, nodes, segs, lost, arg, up, new_node>>,
           tail' \in [Lists -> Nodes \cup {Null}],
           size' \in [Lists -> Int],
           \A u \in Threads : tail'[u] = tail[u] /\ size'[u] = size[u],
           SharedTail', SharedSize'
    PROVE  DInv'
<1>1. /\ \A l \in Lists : NodeSeq(l)' = NodeSeq(l) /\ NodesOf(l)' = NodesOf(l)
      /\ Chained'
  BY AllSame DEF DInv
<1>2. TypeOk' /\ Segments' /\ Private'
  BY <1>1, SegmentsSame DEF DInv, TypeOk, Private, Lists, Giving
<1>3. \A u \in Threads : /\ Moving(u)' = Moving(u)
                         /\ pc'[u] = "append_link" <=> pc[u] = "append_link"
                         /\ pc'[u] \in {"concat_unlock", "commit"} => pc'[u] = pc[u]
  BY DEF Moving, LInv
<1>4. up
  BY DEF DInv, Settled
<1>5. Apart' /\ Owned' /\ Settled'
  BY <1>1, <1>3, <1>4 DEF DInv, Apart, Owned, Settled, Lists
<1>. QED
  BY <1>1, <1>2, <1>5 DEF DInv

\* append_tail: the tail is the node that was linked.
LEMMA AppendTail ==
    ASSUME LInv, DInv, NEW t \in Threads, append_tail(t)
    PROVE  DInv'
<1>1. /\ pc[t] = "append_tail"
      /\ pc' = [pc EXCEPT ![t] = "append_size"]
      /\ tail' = [tail EXCEPT ![Region] = new_node[t]]
      /\ UNCHANGED <<head, size, data, next, nodes, segs, lost, arg, up, new_node>>
  BY DEF append_tail, Goto
<1>2. \A u \in Threads : u # t => pc[u] \in Unlocked
  BY <1>1, Alone DEF Unlocked
<1>3. AtTail = {t} /\ AtSize = {t} /\ AtTail' = {} /\ AtSize' = {t} /\ pc'[t] = "append_size"
  BY <1>1, <1>2 DEF AtTail, AtSize, LInv, Unlocked
<1>4. /\ tail'[Region] = LastOf(NodeSeq(Region))
      /\ \A u \in Threads : tail'[u] = tail[u] /\ size'[u] = size[u]
      /\ tail' \in [Lists -> Nodes \cup {Null}] /\ size' \in [Lists -> Int]
  BY <1>1, <1>3, ListConstantsOk DEF DInv, TypeOk, SharedTail, SharedSize, Lists
<1>5. NodeSeq(Region)' = NodeSeq(Region)
  BY <1>1, AllSame DEF DInv, Lists
<1>6. SharedTail' /\ SharedSize'
  BY <1>1, <1>3, <1>4, <1>5 DEF DInv, SharedTail, SharedSize
<1>7. Moving(t)' = Moving(t)
  BY <1>1 DEF Moving, LInv
<1>. QED
  BY <1>1, <1>4, <1>6, <1>7, TailOrSize

\* append_size: one more.
LEMMA AppendSize ==
    ASSUME LInv, DInv, NEW t \in Threads, append_size(t)
    PROVE  DInv'
<1>1. /\ pc[t] = "append_size"
      /\ pc' = [pc EXCEPT ![t] = "append_unlock"]
      /\ size' = [size EXCEPT ![Region] = @ + 1]
      /\ UNCHANGED <<head, tail, data, next, nodes, segs, lost, arg, up, new_node>>
  BY DEF append_size, Goto
<1>2. \A u \in Threads : u # t => pc[u] \in Unlocked
  BY <1>1, Alone DEF Unlocked
<1>3. AtTail = {} /\ AtSize = {t} /\ AtTail' = {} /\ AtSize' = {}
  BY <1>1, <1>2 DEF AtTail, AtSize, LInv, Unlocked
<1>4. /\ size'[Region] = Len(NodeSeq(Region))
      /\ \A u \in Threads : tail'[u] = tail[u] /\ size'[u] = size[u]
      /\ tail' \in [Lists -> Nodes \cup {Null}] /\ size' \in [Lists -> Int]
  BY <1>1, <1>3, ListConstantsOk DEF DInv, TypeOk, SharedTail, SharedSize, Lists
<1>5. NodeSeq(Region)' = NodeSeq(Region)
  BY <1>1, AllSame DEF DInv, Lists
<1>6. SharedTail' /\ SharedSize'
  BY <1>1, <1>3, <1>4, <1>5 DEF DInv, SharedTail, SharedSize
<1>7. Moving(t)' = Moving(t)
  BY <1>1 DEF Moving, LInv
<1>. QED
  BY <1>1, <1>4, <1>6, <1>7, TailOrSize

\* concat_tail: the tail is that of the list that was linked.
LEMMA ConcatTail ==
    ASSUME LInv, DInv, NEW t \in Threads, concat_tail(t)
    PROVE  DInv'
<1>1. /\ pc[t] = "concat_tail"
      /\ pc' = [pc EXCEPT ![t] = "concat_size"]
      /\ tail' = [tail EXCEPT ![Region] = tail[t]]
      /\ UNCHANGED <<head, size, data, next, nodes, segs, lost, arg, up, new_node>>
  BY DEF concat_tail, Goto
<1>2. \A u \in Threads : u # t => pc[u] \in Unlocked
  BY <1>1, Alone DEF Unlocked
<1>3. AtTail = {t} /\ AtSize = {t} /\ AtTail' = {} /\ AtSize' = {t} /\ pc'[t] = "concat_size"
  BY <1>1, <1>2 DEF AtTail, AtSize, LInv, Unlocked
<1>4. /\ tail'[Region] = LastOf(NodeSeq(Region))
      /\ \A u \in Threads : tail'[u] = tail[u] /\ size'[u] = size[u]
      /\ tail' \in [Lists -> Nodes \cup {Null}] /\ size' \in [Lists -> Int]
  BY <1>1, <1>3, ListConstantsOk DEF DInv, TypeOk, SharedTail, SharedSize, Lists
<1>5. NodeSeq(Region)' = NodeSeq(Region)
  BY <1>1, AllSame DEF DInv, Lists
<1>6. SharedTail' /\ SharedSize'
  BY <1>1, <1>3, <1>4, <1>5 DEF DInv, SharedTail, SharedSize
<1>7. Moving(t)' = Moving(t)
  BY <1>1 DEF Moving, LInv
<1>. QED
  BY <1>1, <1>4, <1>6, <1>7, TailOrSize

\* concat_size: as many more as that list has.
LEMMA ConcatSize ==
    ASSUME LInv, DInv, NEW t \in Threads, concat_size(t)
    PROVE  DInv'
<1>1. /\ pc[t] = "concat_size"
      /\ pc' = [pc EXCEPT ![t] = "concat_clear"]
      /\ size' = [size EXCEPT ![Region] = @ + size[t]]
      /\ UNCHANGED <<head, tail, data, next, nodes, segs, lost, arg, up, new_node>>
  BY DEF concat_size, Goto
<1>2. \A u \in Threads : u # t => pc[u] \in Unlocked
  BY <1>1, Alone DEF Unlocked
<1>3. AtTail = {} /\ AtSize = {t} /\ AtTail' = {} /\ AtSize' = {}
  BY <1>1, <1>2 DEF AtTail, AtSize, LInv, Unlocked
<1>4. /\ size'[Region] = Len(NodeSeq(Region))
      /\ \A u \in Threads : tail'[u] = tail[u] /\ size'[u] = size[u]
      /\ tail' \in [Lists -> Nodes \cup {Null}] /\ size' \in [Lists -> Int]
  BY <1>1, <1>3, ListConstantsOk DEF DInv, TypeOk, SharedTail, SharedSize, Lists
<1>5. NodeSeq(Region)' = NodeSeq(Region)
  BY <1>1, AllSame DEF DInv, Lists
<1>6. SharedTail' /\ SharedSize'
  BY <1>1, <1>3, <1>4, <1>5 DEF DInv, SharedTail, SharedSize
<1>7. Moving(t)' = Moving(t)
  BY <1>1 DEF Moving, LInv
<1>. QED
  BY <1>1, <1>4, <1>6, <1>7, TailOrSize

\* Between the link and the clearing only one list is moved.
LEMMA Still ==
    ASSUME LInv, NEW t \in Threads, pc[t] \in {"append_link", "concat_link"}
    PROVE  /\ AtTail = {} /\ AtSize = {}
           /\ \A u \in Threads : ~ Moving(u)
           /\ \A u \in Threads : u # t => pc[u] \in Unlocked
<1>1. \A u \in Threads : u # t => pc[u] \in Unlocked
  BY Alone DEF Unlocked
<1>. QED
  BY <1>1 DEF AtTail, AtSize, Moving, Unlocked

\* The last element of a concatenation.
LEMMA LastConcat ==
    ASSUME NEW s \in Seq(Nodes), NEW r \in Seq(Nodes), Len(r) # 0
    PROVE  /\ LastOf(s \o r) = LastOf(r)
           /\ Len(s \o r) = Len(s) + Len(r)
           /\ LastOf(r) \in Elems(r)
<1>1. Len(s) \in Nat /\ Len(r) \in Nat
  BY LenProperties
<1>2. /\ Len(s \o r) = Len(s) + Len(r)
      /\ \A i \in 1..(Len(s) + Len(r)) :
            (s \o r)[i] = IF i <= Len(s) THEN s[i] ELSE r[i - Len(s)]
  BY ConcatProperties
<1>3. (s \o r)[Len(s) + Len(r)] = r[Len(r)]
  BY <1>1, <1>2
<1>. QED
  BY <1>1, <1>2, <1>3 DEF LastOf, Elems

\* What Linked does to the shared list, for a list or a node at address k.
LEMMA LinkedSeqs ==
    ASSUME LInv, DInv, NEW t \in Threads, pc[t] \in {"append_link", "concat_link"},
           NEW k \in Nodes, NEW r, Chain(k, next, r),
           Elems(r) \cap NodesOf(Region) = {},
           Linked(Region, k)
    PROVE  /\ NodeSeq(Region)' = NodeSeq(Region) \o r
           /\ NodesOf(Region)' = NodesOf(Region) \cup Elems(r)
           /\ \A u \in Threads : NodeSeq(u)' = NodeSeq(u) /\ NodesOf(u)' = NodesOf(u)
           /\ Chain(k, next', r)
           /\ Chained'
           /\ \A n \in Nodes \ NodesOf(Region) : next'[n] = next[n]
           /\ \A u \in Threads : head'[u] = head[u]
           /\ head' \in [Lists -> Nodes \cup {Null}]
           /\ next' \in [Nodes -> Nodes \cup {Null}]
<1>. DEFINE s == NodeSeq(Region)
<1>1. /\ Chain(head[Region], next, s)
      /\ next \in [Nodes -> Nodes \cup {Null}]
      /\ head \in [Lists -> Nodes \cup {Null}]
      /\ Region \in Lists /\ Region \notin Threads
      /\ k # Null
  BY ListConstantsOk DEF DInv, TypeOk, Chained, Lists
<1>2. /\ Len(s) \in Nat /\ s \in Seq(Nodes) /\ r \in Seq(Nodes)
      /\ head[Region] = Null <=> Len(s) = 0
      /\ NodesOf(Region) = Elems(s)
      /\ NodesOf(Region) \subseteq Nodes
  <2>1. s \in Seq(Nodes) /\ r \in Seq(Nodes)
    BY <1>1 DEF Chain
  <2>2. NodesOf(Region) = Elems(s)
    BY <1>1, NodesAre
  <2>. HIDE DEF s
  <2>3. Len(s) \in Nat /\ (head[Region] = Null <=> Len(s) = 0) /\ Elems(s) \subseteq Nodes
    BY <1>1, ChainFacts
  <2>. QED
    BY <2>1, <2>2, <2>3
<1>3. tail[Region] = LastOf(s)
  BY Still DEF DInv, SharedTail
<1>4. next' = IF head[Region] = Null THEN next ELSE [next EXCEPT ![s[Len(s)]] = k]
  BY <1>2, <1>3 DEF Linked, LastOf
<1>5. head' = [head EXCEPT ![Region] = IF head[Region] = Null THEN k ELSE head[Region]]
  BY <1>1 DEF Linked
<1>6. Chain(head'[Region], next', s \o r) /\ Chain(k, next', r)
  <2>1. Elems(s) \cap Elems(r) = {}
    BY <1>2
  <2>2. Joined(head[Region], next, s, k, head'[Region], next')
    BY <1>1, <1>4, <1>5 DEF Joined
  <2>. HIDE DEF s
  <2>. QED
    BY <1>1, <2>1, <2>2, Linking
<1>8. /\ NodeSeq(Region)' = s \o r
      /\ NodesOf(Region)' = Elems(s \o r)
      /\ Chain(head'[Region], next', NodeSeq(Region)')
  <2>. HIDE DEF s
  <2>. QED
    BY <1>1, <1>6, NewSeq
<1>9. NodesOf(Region)' = NodesOf(Region) \cup Elems(r)
  BY <1>2, <1>8, ElemsConcat
<1>10. \A n \in Nodes \ NodesOf(Region) : next'[n] = next[n]
  <2>1. TAKE n \in Nodes \ NodesOf(Region)
  <2>2. CASE head[Region] = Null
    BY <1>4, <2>2
  <2>3. CASE head[Region] # Null
    <3>1. s[Len(s)] \in Elems(s)
      BY <1>2, <2>3 DEF Elems
    <3>. QED
      BY <1>1, <1>2, <1>4, <2>3, <3>1
  <2>. QED
    BY <2>2, <2>3
<1>11. \A u \in Threads : head'[u] = head[u]
  BY <1>1, <1>5 DEF Lists
<1>12. ASSUME NEW u \in Threads
       PROVE  /\ NodeSeq(u)' = NodeSeq(u) /\ NodesOf(u)' = NodesOf(u)
              /\ Chain(head'[u], next', NodeSeq(u)')
  <2>1. NodesOf(u) \cap NodesOf(Region) = {}
    BY Still DEF DInv, Apart
  <2>2. u \in Lists /\ NodesOf(u) \subseteq Nodes
    BY DEF DInv, Owned, TypeOk, Lists
  <2>. QED
    BY <1>10, <1>11, <2>1, <2>2, Same DEF DInv
<1>13. Chained'
  BY <1>8, <1>12 DEF Chained, Lists
<1>14. /\ head' \in [Lists -> Nodes \cup {Null}]
       /\ next' \in [Nodes -> Nodes \cup {Null}]
  <2>1. head[Region] # Null => s[Len(s)] \in Nodes
    BY <1>1, <1>2, ChainFacts
  <2>. QED
    BY <1>1, <1>4, <1>5
<1>. QED
  BY <1>6, <1>8, <1>9, <1>10, <1>11, <1>12, <1>13, <1>14

\* The node about to be linked is a chain apart from the list.
LEMMA AppendLinkSeqs ==
    ASSUME LInv, DInv, NEW t \in Threads, append_link(t)
    PROVE  /\ Chain(new_node[t], next, <<new_node[t]>>)
           /\ new_node[t] \in Nodes
           /\ new_node[t] \notin NodesOf(Region)
<1>1. new_node[t] \in Nodes /\ next[new_node[t]] = Null /\ new_node[t] \notin NodesOf(Region)
  BY DEF append_link, DInv, Owned, TypeOk, Lists
<1>. QED
  BY <1>1, ChainOne

\* append_link puts the new node at the end of the shared list.
LEMMA AppendLink ==
    ASSUME LInv, DInv, NEW t \in Threads, append_link(t)
    PROVE  /\ DInv'
           /\ NodeSeq(Region)' = NodeSeq(Region) \o <<new_node[t]>>
           /\ \A u \in Threads : NodeSeq(u)' = NodeSeq(u)
<1>. DEFINE n == new_node[t]
            r == <<n>>
<1>1. /\ pc[t] = "append_link" /\ pc' = [pc EXCEPT ![t] = "append_tail"]
      /\ Linked(Region, n)
      /\ UNCHANGED <<tail, size, data, nodes, segs, lost, arg, up, new_node>>
  BY DEF append_link, Goto
<1>2. /\ Chain(n, next, r) /\ n \in Nodes /\ n \notin NodesOf(Region)
      /\ Elems(r) = {n} /\ r \in Seq(Nodes) /\ Len(r) = 1 /\ LastOf(r) = n
  BY AppendLinkSeqs DEF Elems, LastOf
<1>. HIDE DEF r
<1>3. /\ NodeSeq(Region)' = NodeSeq(Region) \o r
      /\ NodesOf(Region)' = NodesOf(Region) \cup {n}
      /\ \A u \in Threads : NodeSeq(u)' = NodeSeq(u) /\ NodesOf(u)' = NodesOf(u)
      /\ Chained'
      /\ \A m \in Nodes \ NodesOf(Region) : next'[m] = next[m]
      /\ \A u \in Threads : head'[u] = head[u]
      /\ head' \in [Lists -> Nodes \cup {Null}]
      /\ next' \in [Nodes -> Nodes \cup {Null}]
  BY <1>1, <1>2, LinkedSeqs
<1>4. NodeSeq(Region) \in Seq(Nodes)
  BY DEF DInv, Chained, Chain, Lists
<1>5. /\ LastOf(NodeSeq(Region)') = n
      /\ Len(NodeSeq(Region)') = Len(NodeSeq(Region)) + 1
  <2>1. /\ LastOf(NodeSeq(Region) \o r) = LastOf(r)
        /\ Len(NodeSeq(Region) \o r) = Len(NodeSeq(Region)) + Len(r)
    <3>1. r \in Seq(Nodes) /\ Len(r) # 0
      BY <1>2
    <3>. QED
      BY <1>4, <3>1, LastConcat
  <2>. QED
    BY <1>2, <1>3, <2>1
<1>6. /\ AtTail = {} /\ AtSize = {} /\ AtTail' = {t} /\ AtSize' = {t}
      /\ pc'[t] = "append_tail"
      /\ \A u \in Threads : ~ Moving(u) /\ ~ Moving(u)'
  BY <1>1, Still DEF AtTail, AtSize, Moving, LInv
<1>7. TypeOk' /\ Segments'
  BY <1>1, <1>3, SegmentsSame DEF DInv, TypeOk, Giving
<1>8. Private'
  BY <1>1, <1>3 DEF DInv, Private
<1>9. SharedTail' /\ SharedSize'
  BY <1>1, <1>5, <1>6 DEF DInv, SharedTail, SharedSize
<1>10. Apart'
  <2>1. \A u \in Threads : n \notin NodesOf(u)
    BY <1>1 DEF DInv, Owned, Lists
  <2>. QED
    BY <1>3, <1>6, <2>1 DEF DInv, Apart
<1>11. Owned'
  <2>1. n \in nodes
    BY <1>1 DEF DInv, Owned
  <2>2. \A u \in Threads : u # t => pc[u] # "append_link"
    BY <1>1, Still DEF Unlocked
  <2>3. \A u \in Threads : pc'[u] # "append_link"
    BY <1>1, <2>2 DEF LInv
  <2>4. \A l \in Lists : NodesOf(l) \subseteq nodes
    BY DEF DInv, Owned
  <2>5. \A l \in Lists : NodesOf(l)' \subseteq nodes
    BY <1>3, <2>1, <2>4 DEF Lists
  <2>6. ASSUME NEW m \in nodes PROVE \E l \in Lists : m \in NodesOf(l)'
    <3>1. m = n \/ \E l \in Lists : m \in NodesOf(l)
      BY <2>2 DEF DInv, Owned
    <3>. QED
      BY <1>3, <3>1 DEF Lists
  <2>. QED
    BY <1>1, <2>3, <2>5, <2>6 DEF Owned
<1>12. Settled'
  BY <1>1, <1>3 DEF DInv, Settled, LInv
<1>. QED
  BY <1>3, <1>7, <1>8, <1>9, <1>10, <1>11, <1>12 DEF DInv, r

\* concat_link puts the list of t at the end of the shared list.
LEMMA ConcatLink ==
    ASSUME LInv, DInv, NEW t \in Threads, concat_link(t), head[t] # Null
    PROVE  /\ DInv'
           /\ NodeSeq(Region)' = NodeSeq(Region) \o NodeSeq(t)
           /\ \A u \in Threads : NodeSeq(u)' = NodeSeq(u)
           /\ pc' = [pc EXCEPT ![t] = "concat_tail"]
<1>. DEFINE r == NodeSeq(t)
<1>1. /\ pc[t] = "concat_link" /\ pc' = [pc EXCEPT ![t] = "concat_tail"]
      /\ Linked(Region, head[t])
      /\ UNCHANGED <<tail, size, data, nodes, segs, lost, arg, up, new_node>>
  BY DEF concat_link, Goto
<1>2. /\ AtTail = {} /\ AtSize = {} /\ AtTail' = {t} /\ AtSize' = {t}
      /\ pc'[t] = "concat_tail"
      /\ \A u \in Threads : ~ Moving(u) /\ (Moving(u)' <=> u = t)
      /\ \A u \in Threads : pc[u] # "append_link" /\ pc'[u] # "append_link"
  BY <1>1, Still DEF AtTail, AtSize, Moving, LInv, Unlocked
<1>3. /\ Chain(head[t], next, r) /\ r \in Seq(Nodes)
      /\ head[t] \in Nodes /\ Len(r) # 0 /\ Len(r) \in Nat
      /\ Elems(r) = NodesOf(t) /\ NodesOf(t) \cap NodesOf(Region) = {}
  <2>1. t \in Lists /\ Chain(head[t], next, r) /\ r \in Seq(Nodes)
    BY DEF DInv, Chained, Chain, Lists
  <2>2. head[t] \in Nodes
    BY <2>1 DEF DInv, TypeOk
  <2>. QED
    BY <1>2, <2>1, <2>2, NodesAre, ChainFacts DEF DInv, Apart
<1>. HIDE DEF r
<1>4. /\ NodeSeq(Region)' = NodeSeq(Region) \o r
      /\ NodesOf(Region)' = NodesOf(Region) \cup NodesOf(t)
      /\ \A u \in Threads : NodeSeq(u)' = NodeSeq(u) /\ NodesOf(u)' = NodesOf(u)
      /\ Chained'
      /\ \A u \in Threads : head'[u] = head[u]
      /\ head' \in [Lists -> Nodes \cup {Null}]
      /\ next' \in [Nodes -> Nodes \cup {Null}]
  BY <1>1, <1>3, LinkedSeqs
<1>5. NodeSeq(Region) \in Seq(Nodes)
  BY DEF DInv, Chained, Chain, Lists
<1>6. /\ LastOf(NodeSeq(Region)') = LastOf(r)
      /\ Len(NodeSeq(Region)') = Len(NodeSeq(Region)) + Len(r)
  BY <1>3, <1>4, <1>5, LastConcat
<1>7. LastOf(r) = tail[t] /\ Len(r) = size[t]
  BY DEF DInv, Private, r
<1>8. TypeOk' /\ Segments'
  BY <1>1, <1>4, SegmentsSame DEF DInv, TypeOk, Giving
<1>9. Private'
  BY <1>1, <1>4 DEF DInv, Private
<1>10. SharedTail' /\ SharedSize'
  BY <1>1, <1>2, <1>6, <1>7 DEF DInv, SharedTail, SharedSize
<1>11. Apart'
  BY <1>2, <1>4 DEF DInv, Apart
<1>12. Owned'
  <2>1. \A l \in Lists : NodesOf(l) \subseteq nodes
    BY DEF DInv, Owned
  <2>2. \A l \in Lists : NodesOf(l)' \subseteq nodes
    BY <1>4, <2>1 DEF Lists
  <2>3. \A m \in nodes : \E l \in Lists : m \in NodesOf(l)'
    BY <1>2, <1>4 DEF DInv, Owned, Lists
  <2>. QED
    BY <1>1, <1>2, <2>2, <2>3 DEF Owned
<1>13. Settled'
  BY <1>1, <1>4 DEF DInv, Settled, LInv
<1>. QED
  BY <1>1, <1>4, <1>8, <1>9, <1>10, <1>11, <1>12, <1>13 DEF DInv, r

\* concat_clear empties the list of t, whose nodes are in the shared list.
LEMMA ConcatClear ==
    ASSUME LInv, DInv, NEW t \in Threads, concat_clear(t)
    PROVE  /\ DInv'
           /\ \A l \in Lists \ {t} : NodeSeq(l)' = NodeSeq(l)
           /\ NodeSeq(t)' = <<>>
<1>1. /\ pc[t] = "concat_clear" /\ pc' = [pc EXCEPT ![t] = "concat_unlock"]
      /\ head' = [head EXCEPT ![t] = Null]
      /\ tail' = [tail EXCEPT ![t] = Null]
      /\ size' = [size EXCEPT ![t] = 0]
      /\ UNCHANGED <<data, next, nodes, segs, lost, arg, up, new_node>>
  BY DEF concat_clear, ClearedHead, Goto
<1>2. \A u \in Threads : u # t => pc[u] \in Unlocked
  BY <1>1, Alone DEF Unlocked
<1>3. /\ t \in Lists /\ Region \in Lists /\ t # Region
      /\ \A l \in Lists : head'[l] = IF l = t THEN Null ELSE head[l]
      /\ \A l \in Lists : tail'[l] = IF l = t THEN Null ELSE tail[l]
      /\ \A l \in Lists : size'[l] = IF l = t THEN 0 ELSE size[l]
  BY <1>1, ListConstantsOk DEF Lists, DInv, TypeOk
<1>4. /\ NodeSeq(t)' = <<>> /\ NodesOf(t)' = Elems(<<>>)
      /\ Chain(head'[t], next', NodeSeq(t)')
  BY <1>3, ChainEmpty, NewSeq
<1>5. NodesOf(t)' = {}
  BY <1>4 DEF Elems
<1>6. ASSUME NEW l \in Lists \ {t}
      PROVE  NodeSeq(l)' = NodeSeq(l) /\ NodesOf(l)' = NodesOf(l)
             /\ Chain(head'[l], next', NodeSeq(l)')
  BY <1>1, <1>3, Same DEF DInv
<1>7. Chained'
  BY <1>4, <1>6 DEF Chained
<1>8. /\ AtTail = {} /\ AtSize = {} /\ AtTail' = {} /\ AtSize' = {}
      /\ \A u \in Threads : ~ Moving(u)' /\ (Moving(u) <=> u = t)
      /\ \A u \in Threads : pc[u] # "append_link" /\ pc'[u] # "append_link"
  BY <1>1, <1>2 DEF AtTail, AtSize, Moving, LInv, Unlocked
<1>9. TypeOk' /\ Segments'
  <2>1. /\ head' \in [Lists -> Nodes \cup {Null}]
        /\ tail' \in [Lists -> Nodes \cup {Null}]
    BY <1>1 DEF DInv, TypeOk
  <2>2. size' \in [Lists -> Int]
    <3>1. size \in [Lists -> Int] /\ size' = [size EXCEPT ![t] = 0] /\ 0 \in Int
      BY <1>1 DEF DInv, TypeOk
    <3>. QED
      BY <3>1, Zenon
  <2>. QED
    BY <1>1, <2>1, <2>2, SegmentsSame DEF DInv, TypeOk, Giving
<1>10. Private'
  BY <1>3, <1>4, <1>6 DEF DInv, Private, Lists, LastOf
<1>11. SharedTail' /\ SharedSize'
  BY <1>3, <1>6, <1>8 DEF DInv, SharedTail, SharedSize
<1>12. Apart'
  <2>1. ASSUME NEW u \in Threads, u # t PROVE NodesOf(u)' \cap NodesOf(Region)' = {}
    BY <1>3, <1>6, <1>8, <2>1 DEF DInv, Apart, Lists
  <2>2. \A u, v \in Threads : u # v => NodesOf(u)' \cap NodesOf(v)' = {}
    BY <1>5, <1>6 DEF DInv, Apart, Lists
  <2>. QED
    BY <1>5, <1>8, <2>1, <2>2 DEF Apart
<1>13. Owned'
  <2>1. NodesOf(t) \subseteq NodesOf(Region)
    BY <1>8 DEF DInv, Apart
  <2>2. \A l \in Lists : NodesOf(l)' \subseteq nodes
    BY <1>5, <1>6 DEF DInv, Owned
  <2>3. \A m \in nodes : \E l \in Lists : m \in NodesOf(l)
    BY <1>8 DEF DInv, Owned
  <2>4. \A m \in nodes : \E l \in Lists : m \in NodesOf(l)'
    BY <1>3, <1>6, <2>1, <2>3
  <2>. QED
    BY <1>1, <1>8, <2>2, <2>4 DEF Owned
<1>14. Settled'
  BY <1>1, <1>3 DEF DInv, Settled, LInv, Lists
<1>. QED
  BY <1>4, <1>6, <1>7, <1>9, <1>10, <1>11, <1>12, <1>13, <1>14 DEF DInv

\* A node from malloc is in no list.
LEMMA AppendNode ==
    ASSUME LInv, DInv, NEW t \in Threads, NEW n \in Nodes,
           append_node(t, n)
    PROVE  DInv' /\ \A l \in Lists : NodeSeq(l)' = NodeSeq(l)
<1>1. /\ pc[t] = "append_node"
      /\ UNCHANGED <<head, tail, size, segs, up>>
      /\ arg' = [arg EXCEPT ![t] = Null]
      /\ up
      /\ \A l \in Lists : NodesOf(l) \subseteq nodes
  BY DEF append_node, NoNode, lists, DInv, Settled, Owned
<1>. DEFINE d == arg[t]
<1>2. CASE /\ n \notin nodes
           /\ nodes' = nodes \cup {n}
           /\ data' = [data EXCEPT ![n] = d]
           /\ lost' = lost
           /\ next' = [next EXCEPT ![n] = Null]
           /\ new_node' = [new_node EXCEPT ![t] = n]
           /\ Goto(t, "append_link")
  <2>1. /\ \A u \in Threads : pc'[u] = IF u = t THEN "append_link" ELSE pc[u]
        /\ \A u \in Threads : u # t => pc[u] \in Unlocked
        /\ next'[n] = Null
        /\ \A m \in Nodes : m # n => next'[m] = next[m] /\ data'[m] = data[m]
        /\ data'[n] = d
        /\ new_node'[t] = n
        /\ nodes \subseteq Nodes
    BY <1>1, <1>2, Alone DEF LInv, DInv, TypeOk, Goto, Unlocked
  <2>0. d \in Data /\ d # Null /\ \A u \in Threads : u # t => arg[u] # d
    BY <1>1, ListConstantsOk DEF DInv, Segments, Giving
  <2>2. ASSUME NEW l \in Lists
        PROVE  /\ NodeSeq(l)' = NodeSeq(l) /\ NodesOf(l)' = NodesOf(l)
               /\ Chain(head'[l], next', NodeSeq(l)')
    BY <1>1, <1>2, <2>1, Same DEF DInv
  <2>3. Chained'
    BY <2>2 DEF Chained
  <2>4. TypeOk'
    BY <1>1, <1>2, <2>0 DEF DInv, TypeOk
  <2>5. Segments'
    <3>. HIDE DEF d
    <3>1. Held' = Held \cup {d}
      BY <1>2, <2>1 DEF Held
    <3>2. \A u \in Threads : arg'[u] = IF u = t THEN Null ELSE arg[u]
      BY <1>1 DEF DInv, Segments
    <3>3. d \notin Held \cup lost
      BY DEF DInv, Segments, d
    <3>4. {arg'[u] : u \in Threads} \ {Null} = ({arg[u] : u \in Threads} \ {Null}) \ {d}
      BY <2>0, <3>2 DEF d
    <3>5. segs' = Held' \cup lost' \cup ({arg'[u] : u \in Threads} \ {Null})
      <4>1. d \in {arg[u] : u \in Threads} \ {Null}
        BY <2>0 DEF d
      <4>. QED
        BY <1>1, <1>2, <3>1, <3>4, <4>1 DEF DInv, Segments
    <3>6. Null \notin Held' \cup lost'
      BY <1>2, <2>0, <3>1, ListConstantsOk DEF DInv, Segments
    <3>7. \A u \in Threads : arg'[u] \notin Held' \cup lost'
      BY <1>2, <2>0, <3>1, <3>2, <3>6 DEF DInv, Segments
    <3>8. \A m, k \in nodes' : data'[m] = data'[k] => m = k
      <4>1. \A m \in nodes : data[m] # d
        BY <3>3 DEF Held
      <4>. QED
        BY <1>2, <2>1, <4>1 DEF DInv, Segments
    <3>9. /\ arg' \in [Threads -> Data \cup {Null}]
          /\ \A u \in Threads : pc'[u] \in Giving <=> arg'[u] # Null
          /\ \A u, v \in Threads : arg'[u] = arg'[v] => u = v \/ arg'[u] = Null
      BY <1>1, <2>1, <3>2 DEF DInv, Segments, Giving
    <3>10. Held' \subseteq Data /\ lost' \subseteq Data /\ Held' \cap lost' = {}
      BY <1>2, <2>0, <3>1, <3>3 DEF DInv, Segments
    <3>. QED
      BY <3>5, <3>7, <3>8, <3>9, <3>10 DEF Segments
  <2>6. Private'
    BY <1>1, <2>2 DEF DInv, Private, Lists
  <2>7. /\ AtTail = {} /\ AtTail' = {} /\ AtSize = {} /\ AtSize' = {}
        /\ \A u \in Threads : ~ Moving(u) /\ ~ Moving(u)'
    BY <1>1, <2>1 DEF AtTail, AtSize, Moving, Unlocked
  <2>8. SharedTail' /\ SharedSize'
    BY <1>1, <2>2, <2>7 DEF DInv, SharedTail, SharedSize, Lists
  <2>9. Apart'
    BY <2>2, <2>7 DEF DInv, Apart, Lists
  <2>10. \A u \in Threads : pc'[u] = "append_link" <=> u = t
    BY <2>1 DEF Unlocked
  <2>11. \A u \in Threads : pc[u] # "append_link"
    BY <1>1, <2>1 DEF Unlocked
  <2>12. Owned'
    BY <1>1, <1>2, <2>1, <2>2, <2>10, <2>11 DEF DInv, Owned
  <2>13. Settled'
    BY <1>1, <2>1 DEF DInv, Settled
  <2>. QED
    BY <2>2, <2>3, <2>4, <2>5, <2>6, <2>8, <2>9, <2>12, <2>13 DEF DInv
<1>3. CASE /\ lost' = lost \cup {d}
           /\ Goto(t, "append_unlock")
           /\ UNCHANGED <<lists, new_node>>
  <2>1. pc' = [pc EXCEPT ![t] = "append_unlock"] /\ UNCHANGED <<data, nodes>>
    BY <1>3 DEF lists, Goto
  <2>2. Segments'
    <3>0. d \in Data /\ d # Null /\ \A u \in Threads : u # t => arg[u] # d
      BY <1>1, ListConstantsOk DEF DInv, Segments, Giving
    <3>. HIDE DEF d
    <3>1. Held' = Held
      BY <2>1 DEF Held
    <3>2. \A u \in Threads : arg'[u] = IF u = t THEN Null ELSE arg[u]
      BY <1>1 DEF DInv, Segments
    <3>3. d \notin Held \cup lost
      BY DEF DInv, Segments, d
    <3>4. {arg'[u] : u \in Threads} \ {Null} = ({arg[u] : u \in Threads} \ {Null}) \ {d}
      BY <3>0, <3>2 DEF d
    <3>5. segs' = Held' \cup lost' \cup ({arg'[u] : u \in Threads} \ {Null})
      <4>1. d \in {arg[u] : u \in Threads} \ {Null}
        BY <3>0 DEF d
      <4>. QED
        BY <1>1, <1>3, <3>1, <3>4, <4>1 DEF DInv, Segments
    <3>6. Null \notin Held' \cup lost'
      BY <1>3, <3>0, <3>1, ListConstantsOk DEF DInv, Segments
    <3>7. \A u \in Threads : arg'[u] \notin Held' \cup lost'
      BY <1>3, <3>0, <3>1, <3>2, <3>6 DEF DInv, Segments
    <3>8. \A u \in Threads : pc'[u] = IF u = t THEN "append_unlock" ELSE pc[u]
      BY <2>1 DEF LInv
    <3>9. /\ arg' \in [Threads -> Data \cup {Null}]
          /\ \A u \in Threads : pc'[u] \in Giving <=> arg'[u] # Null
          /\ \A u, v \in Threads : arg'[u] = arg'[v] => u = v \/ arg'[u] = Null
      BY <1>1, <3>2, <3>8 DEF DInv, Segments, Giving
    <3>10. Held' \subseteq Data /\ lost' \subseteq Data /\ Held' \cap lost' = {}
      BY <1>3, <3>0, <3>1, <3>3 DEF DInv, Segments
    <3>. QED
      BY <2>1, <3>5, <3>7, <3>9, <3>10 DEF DInv, Segments
  <2>3. DInv'
    BY <1>1, <1>3, <2>1, <2>2, Elsewhere DEF Busy, PcValues, Unlocked
  <2>. QED
    BY <1>1, <1>3, <2>3, AllSame DEF DInv, lists
<1>. QED
  BY <1>2, <1>3 DEF append_node, NewNode, NoNode

\* A call on the private list of t that leaves it with the nodes of s.
LEMMA PrivateChange ==
    ASSUME LInv, DInv, NEW t \in Threads, pc[t] \in {"idle", "commit"},
           pc' = pc \/ pc' = [pc EXCEPT ![t] = "idle"],
           NEW s, Chain(head'[t], next', s),
           tail'[t] = LastOf(s), size'[t] = Len(s),
           \A l \in Lists \ {t} : head'[l] = head[l] /\ tail'[l] = tail[l] /\ size'[l] = size[l],
           \A n \in nodes \ NodesOf(t) : next'[n] = next[n],
           nodes' = (nodes \ NodesOf(t)) \cup Elems(s),
           Elems(s) \cap (nodes \ NodesOf(t)) = {},
           TypeOk', Segments', pc'[t] = "commit" => head'[t] = Null,
           UNCHANGED <<up, new_node>>,
           up
    PROVE  /\ DInv'
           /\ NodeSeq(t)' = s
           /\ \A l \in Lists \ {t} : NodeSeq(l)' = NodeSeq(l)
<1>1. /\ t \in Lists /\ Region \in Lists /\ t # Region /\ Region \notin Threads
      /\ \A u \in Threads : u \in Lists
  BY ListConstantsOk DEF Lists
<1>2. /\ \A u \in Threads : u # t => pc'[u] = pc[u]
      /\ pc'[t] \in {"idle", "commit"}
  BY DEF LInv
<1>3. /\ \A u \in Threads : Moving(u)' = Moving(u)
      /\ ~ Moving(t)
      /\ AtTail' = AtTail /\ AtSize' = AtSize
      /\ \A u \in AtSize : u \in Threads /\ u # t /\ pc'[u] = pc[u]
      /\ AtTail \subseteq AtSize
      /\ \A u \in Threads : pc'[u] = "append_link" <=> pc[u] = "append_link"
      /\ pc[t] # "append_link"
  BY <1>2 DEF Moving, AtTail, AtSize
<1>4. /\ NodeSeq(t)' = s /\ NodesOf(t)' = Elems(s)
      /\ Chain(head'[t], next', NodeSeq(t)')
  BY <1>1, NewSeq
<1>5. \A l \in Lists \ {t} : NodesOf(l) \cap NodesOf(t) = {} /\ NodesOf(l) \subseteq nodes
  BY <1>1, <1>3 DEF DInv, Apart, Owned, Lists
<1>6. ASSUME NEW l \in Lists \ {t}
      PROVE  /\ NodeSeq(l)' = NodeSeq(l) /\ NodesOf(l)' = NodesOf(l)
             /\ Chain(head'[l], next', NodeSeq(l)')
  BY <1>5, Same DEF DInv
<1>7. Chained'
  BY <1>4, <1>6 DEF Chained
<1>8. Private'
  <2>1. ASSUME NEW u \in Threads PROVE tail'[u] = LastOf(NodeSeq(u)') /\ size'[u] = Len(NodeSeq(u)')
    <3>1. CASE u = t
      BY <1>4, <3>1
    <3>2. CASE u # t
      BY <1>1, <1>6, <3>2 DEF DInv, Private
    <3>. QED
      BY <3>1, <3>2
  <2>. QED
    BY <2>1 DEF Private
<1>9. SharedTail'
  BY <1>1, <1>3, <1>6 DEF DInv, SharedTail
<1>10. SharedSize'
  BY <1>1, <1>3, <1>6 DEF DInv, SharedSize
<1>11. \A l \in Lists \ {t} : Elems(s) \cap NodesOf(l) = {}
  BY <1>5
<1>12. Apart'
  <2>1. ASSUME NEW u \in Threads, NEW v \in Threads, u # v
        PROVE  NodesOf(u)' \cap NodesOf(v)' = {}
    BY <1>1, <1>4, <1>6, <1>11, <2>1 DEF DInv, Apart
  <2>2. ASSUME NEW u \in Threads
        PROVE  IF Moving(u)' THEN NodesOf(u)' \subseteq NodesOf(Region)'
               ELSE NodesOf(u)' \cap NodesOf(Region)' = {}
    <3>1. CASE u = t
      BY <1>1, <1>3, <1>4, <1>6, <1>11, <3>1
    <3>2. CASE u # t
      BY <1>1, <1>3, <1>6, <3>2 DEF DInv, Apart
    <3>. QED
      BY <3>1, <3>2
  <2>. QED
    BY <2>1, <2>2 DEF Apart
<1>13. Owned'
  <2>1. \A l \in Lists : NodesOf(l)' \subseteq nodes'
    BY <1>4, <1>5, <1>6
  <2>2. ASSUME NEW u \in Threads, pc[u] = "append_link"
        PROVE  /\ new_node[u] \in nodes'
               /\ next'[new_node[u]] = Null
               /\ \A l \in Lists : new_node[u] \notin NodesOf(l)'
    <3>1. /\ new_node[u] \in nodes \ NodesOf(t) /\ next[new_node[u]] = Null
          /\ \A l \in Lists : new_node[u] \notin NodesOf(l)
      BY <1>1, <2>2 DEF DInv, Owned
    <3>. QED
      BY <1>4, <1>6, <3>1
  <2>3. ASSUME NEW n \in nodes'
        PROVE  \/ \E l \in Lists : n \in NodesOf(l)'
               \/ \E u \in Threads : pc'[u] = "append_link" /\ new_node'[u] = n
    <3>1. CASE n \in Elems(s)
      BY <1>1, <1>4, <3>1
    <3>2. CASE n \in nodes \ NodesOf(t)
      BY <1>3, <1>6, <3>2 DEF DInv, Owned
    <3>. QED
      BY <3>1, <3>2
  <2>. QED
    BY <1>3, <2>1, <2>2, <2>3 DEF Owned
<1>14. Settled'
  BY <1>1, <1>2, <1>3 DEF DInv, Settled
<1>. QED
  BY <1>4, <1>6, <1>7, <1>8, <1>9, <1>10, <1>12, <1>13, <1>14 DEF DInv

\* ll_append on a private list.
LEMMA PrivateAppend ==
    ASSUME LInv, DInv, NEW t \in Threads, NEW d \in Data, NEW n \in Nodes,
           ll_append(t, d, n), ~ NoNode(d)
    PROVE  /\ DInv'
           /\ NodeSeq(t)' = NodeSeq(t) \o <<n>>
           /\ \A l \in Lists \ {t} : NodeSeq(l)' = NodeSeq(l)
<1>. DEFINE s == NodeSeq(t)
            r == <<n>>
            mx == [next EXCEPT ![n] = Null]
<1>1. /\ pc[t] = "idle" /\ UNCHANGED <<pc, up, new_node>> /\ up
      /\ d \notin segs /\ n \notin nodes
      /\ segs' = segs \cup {d} /\ UNCHANGED <<lost, arg>>
      /\ nodes' = nodes \cup {n}
      /\ data' = [data EXCEPT ![n] = d]
      /\ next' = IF head[t] = Null THEN mx ELSE [mx EXCEPT ![tail[t]] = n]
      /\ head' = [head EXCEPT ![t] = IF head[t] = Null THEN n ELSE head[t]]
      /\ tail' = [tail EXCEPT ![t] = n]
      /\ size' = [size EXCEPT ![t] = size[t] + 1]
  BY DEF ll_append, NewNode, Enter
<1>2. /\ t \in Lists /\ Chain(head[t], next, s) /\ s \in Seq(Nodes)
      /\ tail[t] = LastOf(s) /\ size[t] = Len(s)
      /\ NodesOf(t) = Elems(s) /\ NodesOf(t) \subseteq nodes /\ nodes \subseteq Nodes
      /\ head \in [Lists -> Nodes \cup {Null}]
      /\ tail \in [Lists -> Nodes \cup {Null}]
      /\ size \in [Lists -> Int]
      /\ next \in [Nodes -> Nodes \cup {Null}]
      /\ data \in [Nodes -> Data \cup {Null}]
      /\ n # Null
  BY NodesAre, ListConstantsOk DEF DInv, TypeOk, Chained, Chain, Private, Owned, Lists
<1>3. /\ Len(s) \in Nat /\ (head[t] = Null <=> Len(s) = 0)
      /\ \A i \in 1..Len(s) : s[i] \in Nodes
  <2>. HIDE DEF s
  <2>. QED
    BY <1>2, ChainFacts
<1>4. \A m \in Nodes : m # n => mx[m] = next[m]
  BY <1>2
<1>5. mx[n] = Null /\ mx \in [Nodes -> Nodes \cup {Null}]
  BY <1>2
<1>6. Chain(head[t], mx, s)
  <2>1. \A m \in Elems(s) : mx[m] = next[m]
    BY <1>1, <1>2, <1>4
  <2>. HIDE DEF s, mx
  <2>. QED
    BY <1>2, <2>1, ChainFrame
<1>7. Chain(n, mx, r) /\ r \in Seq(Nodes) /\ Len(r) = 1 /\ LastOf(r) = n /\ Elems(r) = {n}
  <2>1. Len(r) = 1 /\ LastOf(r) = n /\ Elems(r) = {n}
    BY DEF LastOf, Elems
  <2>. HIDE DEF mx
  <2>2. Chain(n, mx, r)
    BY <1>5, ChainOne
  <2>. QED
    BY <2>1, <2>2 DEF Chain
<1>8. Joined(head[t], mx, s, n, head'[t], next')
  <2>1. head'[t] = IF head[t] = Null THEN n ELSE head[t]
    BY <1>1, <1>2
  <2>2. next' = IF head[t] = Null THEN mx ELSE [mx EXCEPT ![s[Len(s)]] = n]
    BY <1>1, <1>2, <1>3 DEF LastOf
  <2>. HIDE DEF mx
  <2>. QED
    BY <1>2, <1>5, <2>1, <2>2 DEF Joined
<1>. HIDE DEF mx, r, s
<1>9. Chain(head'[t], next', s \o r)
  <2>1. Elems(s) \cap Elems(r) = {}
    BY <1>1, <1>2, <1>7
  <2>. QED
    BY <1>6, <1>7, <1>8, <2>1, Linking
<1>10. /\ LastOf(s \o r) = n
       /\ Len(s \o r) = Len(s) + 1
       /\ Elems(s \o r) = NodesOf(t) \cup {n}
  <2>1. Len(r) # 0
    BY <1>7
  <2>2. LastOf(s \o r) = LastOf(r) /\ Len(s \o r) = Len(s) + Len(r)
    BY <1>2, <1>7, <2>1, LastConcat
  <2>3. Elems(s \o r) = Elems(s) \cup Elems(r)
    BY <1>2, <1>7, ElemsConcat
  <2>. QED
    BY <1>2, <1>7, <2>2, <2>3
<1>11. /\ tail'[t] = LastOf(s \o r) /\ size'[t] = Len(s \o r)
       /\ \A l \in Lists \ {t} : head'[l] = head[l] /\ tail'[l] = tail[l] /\ size'[l] = size[l]
  BY <1>1, <1>2, <1>10
<1>12. \A m \in nodes \ NodesOf(t) : next'[m] = next[m]
  <2>1. head[t] # Null => tail[t] \in NodesOf(t)
    BY <1>2, <1>3 DEF LastOf, Elems
  <2>2. ASSUME NEW m \in nodes, m \notin NodesOf(t) PROVE next'[m] = mx[m]
    BY <1>1, <1>2, <1>5, <2>1, <2>2
  <2>. QED
    BY <1>1, <1>2, <1>4, <2>2
<1>13. TypeOk'
  <2>1. size' \in [Lists -> Int]
    BY <1>1, <1>2
  <2>2. next' \in [Nodes -> Nodes \cup {Null}]
    BY <1>1, <1>5
  <2>3. head' \in [Lists -> Nodes \cup {Null}] /\ tail' \in [Lists -> Nodes \cup {Null}]
    BY <1>1, <1>2
  <2>4. data' \in [Nodes -> Data \cup {Null}]
    BY <1>1, <1>2
  <2>. QED
    BY <1>1, <2>1, <2>2, <2>3, <2>4 DEF DInv, TypeOk
<1>14. Segments'
  <2>1. data'[n] = d /\ \A m \in nodes : data'[m] = data[m]
    BY <1>1, <1>2
  <2>2. Held' = Held \cup {d}
    BY <1>1, <2>1 DEF Held
  <2>3. /\ d \notin Held \cup lost /\ d # Null
        /\ \A u \in Threads : arg[u] # d
    BY <1>1, ListConstantsOk DEF DInv, Segments
  <2>4. \A m \in nodes : data[m] # d
    BY <2>3 DEF Held
  <2>5. \A m, k \in nodes' : data'[m] = data'[k] => m = k
    BY <1>1, <2>1, <2>4 DEF DInv, Segments
  <2>. QED
    BY <1>1, <2>2, <2>3, <2>5 DEF DInv, Segments
<1>15. /\ nodes' = (nodes \ NodesOf(t)) \cup Elems(s \o r)
       /\ Elems(s \o r) \cap (nodes \ NodesOf(t)) = {}
  BY <1>1, <1>2, <1>10
<1>16. pc' = pc /\ pc'[t] # "commit" /\ UNCHANGED <<up, new_node>> /\ up
  BY <1>1
<1>17. /\ DInv' /\ NodeSeq(t)' = s \o r
       /\ \A l \in Lists \ {t} : NodeSeq(l)' = NodeSeq(l)
  BY <1>1, <1>9, <1>11, <1>12, <1>13, <1>14, <1>15, <1>16, PrivateChange
<1>. QED
  BY <1>17 DEF s, r

\* ll_append without a node: no list changes.
LEMMA PrivateForget ==
    ASSUME LInv, DInv, NEW t \in Threads, NEW d \in Data, NEW n \in Nodes,
           ll_append(t, d, n), NoNode(d)
    PROVE  /\ DInv'
           /\ \A l \in Lists : NodeSeq(l)' = NodeSeq(l)
           /\ UNCHANGED <<pc, data>>
<1>1. /\ pc[t] = "idle" /\ UNCHANGED <<pc, up, new_node, arg, lists>> /\ up
      /\ d \notin segs /\ segs' = segs \cup {d} /\ lost' = lost \cup {d}
      /\ UNCHANGED <<head, next, data, nodes>>
  BY DEF ll_append, NoNode, Enter, lists
<1>2. Segments'
  <2>1. Held' = Held
    BY <1>1 DEF Held
  <2>2. /\ d \notin Held \cup lost /\ d # Null
        /\ \A u \in Threads : arg[u] # d
    BY <1>1, ListConstantsOk DEF DInv, Segments
  <2>. QED
    BY <1>1, <2>1, <2>2 DEF DInv, Segments
<1>3. pc' = [pc EXCEPT ![t] = "idle"]
  BY <1>1 DEF LInv
<1>4. DInv'
  BY <1>1, <1>2, <1>3, Elsewhere DEF Busy, PcValues, Unlocked
<1>. QED
  BY <1>1, <1>4, AllSame DEF DInv

\* ll_remove on a private list.
LEMMA PrivateRemove ==
    ASSUME LInv, DInv, NEW t \in Threads, NEW i \in 1..Cardinality(Nodes), ll_remove(t, i)
    PROVE  /\ DInv'
           /\ i \in 1..Len(NodeSeq(t))
           /\ NodeSeq(t)' = Without(NodeSeq(t), i)
           /\ \A l \in Lists \ {t} : NodeSeq(l)' = NodeSeq(l)
<1>. DEFINE s == NodeSeq(t)
            w == Without(s, i)
<1>1. /\ pc[t] = "idle" /\ UNCHANGED <<pc, up, new_node, data>> /\ up
      /\ i \in 1..Len(s)
      /\ head' = [head EXCEPT ![t] = IF i = 1 THEN next[s[1]] ELSE head[t]]
      /\ next' = IF i = 1 THEN next ELSE [next EXCEPT ![s[i - 1]] = next[s[i]]]
      /\ tail' = [tail EXCEPT ![t] = NewTail(t, i)]
      /\ size' = [size EXCEPT ![t] = size[t] - 1]
      /\ nodes' = nodes \ {s[i]}
      /\ segs' = segs \ {data[s[i]]} /\ UNCHANGED <<lost, arg>>
  BY DEF ll_remove, Enter
<1>2. /\ t \in Lists /\ Chain(head[t], next, s)
      /\ tail[t] = LastOf(s) /\ size[t] = Len(s)
      /\ NodesOf(t) = Elems(s) /\ NodesOf(t) \subseteq nodes /\ nodes \subseteq Nodes
      /\ head \in [Lists -> Nodes \cup {Null}]
      /\ tail \in [Lists -> Nodes \cup {Null}]
      /\ size \in [Lists -> Int]
      /\ next \in [Nodes -> Nodes \cup {Null}]
  BY NodesAre DEF DInv, TypeOk, Chained, Private, Owned, Lists
<1>3. /\ Len(s) \in Nat
      /\ \A j \in 1..Len(s) : s[j] \in Nodes /\ s[j] \in Elems(s)
      /\ \A j, k \in 1..Len(s) : s[j] = s[k] => j = k
  <2>. HIDE DEF s
  <2>. QED
    BY <1>2, ChainFacts DEF Chain, Elems
<1>4. NewTail(t, i) = IF s[i] # tail[t] THEN tail[t] ELSE IF i = 1 THEN Null ELSE s[i - 1]
  BY DEF NewTail
<1>. HIDE DEF s
<1>5. /\ Chain(head'[t], next', w)
      /\ Elems(w) = Elems(s) \ {s[i]}
      /\ Len(w) = Len(s) - 1
  <2>1. head'[t] = IF i = 1 THEN next[s[1]] ELSE head[t]
    BY <1>1, <1>2
  <2>2. Unlinked(head[t], next, s, i, head'[t], next')
    BY <1>1, <1>2, <2>1 DEF Unlinked
  <2>. QED
    BY <1>2, <2>2, Unlinking
<1>6. NewTail(t, i) = LastOf(w)
  <2>1. Len(s) \in 1..Len(s) /\ tail[t] = s[Len(s)]
    BY <1>1, <1>2, <1>3 DEF LastOf
  <2>2. CASE i = Len(s) /\ i = 1
    BY <1>3, <1>4, <1>5, <2>1, <2>2 DEF LastOf
  <2>3. CASE i = Len(s) /\ i # 1
    <3>1. Len(w) # 0 /\ w[Len(s) - 1] = s[i - 1]
      BY <1>1, <1>3, <1>5, <2>3 DEF Without
    <3>. QED
      BY <1>4, <1>5, <2>1, <2>3, <3>1 DEF LastOf
  <2>4. CASE i # Len(s)
    <3>1. s[i] # tail[t]
      BY <1>1, <1>3, <2>1, <2>4
    <3>2. Len(w) # 0 /\ w[Len(s) - 1] = s[Len(s)]
      BY <1>1, <1>3, <1>5, <2>4 DEF Without
    <3>. QED
      BY <1>4, <1>5, <2>1, <3>1, <3>2 DEF LastOf
  <2>. QED
    BY <2>2, <2>3, <2>4
<1>. HIDE DEF w
<1>7. /\ tail'[t] = LastOf(w) /\ size'[t] = Len(w)
      /\ \A l \in Lists \ {t} : head'[l] = head[l] /\ tail'[l] = tail[l] /\ size'[l] = size[l]
  BY <1>1, <1>2, <1>5, <1>6
<1>8. \A m \in nodes \ NodesOf(t) : next'[m] = next[m]
  <2>1. i # 1 => s[i - 1] \in NodesOf(t)
    BY <1>1, <1>2, <1>3
  <2>. QED
    BY <1>1, <1>2, <2>1
<1>9. s[i] \in Nodes /\ s[i] \in nodes /\ s[i] \in NodesOf(t)
  BY <1>1, <1>2, <1>3
<1>10. TypeOk'
  <2>1. size' \in [Lists -> Int]
    BY <1>1, <1>2
  <2>2. next' \in [Nodes -> Nodes \cup {Null}]
    BY <1>1, <1>2, <1>9
  <2>3. next[s[1]] \in Nodes \cup {Null}
    BY <1>1, <1>2, <1>3
  <2>4. head' \in [Lists -> Nodes \cup {Null}]
    BY <1>1, <1>2, <2>3
  <2>5. NewTail(t, i) \in Nodes \cup {Null}
    BY <1>1, <1>2, <1>3, <1>4
  <2>6. tail' \in [Lists -> Nodes \cup {Null}]
    BY <1>1, <1>2, <2>5
  <2>. QED
    BY <1>1, <2>1, <2>2, <2>4, <2>6 DEF DInv, TypeOk
<1>11. Segments'
  <2>. DEFINE k == s[i]
  <2>1. k \in nodes /\ nodes' = nodes \ {k} /\ segs' = segs \ {data[k]}
    BY <1>1, <1>9
  <2>. HIDE DEF k
  <2>2. Held' = Held \ {data[k]} /\ data[k] \in Held
    BY <1>1, <2>1 DEF DInv, Segments, Held
  <2>3. data[k] \notin lost /\ \A u \in Threads : arg[u] # data[k]
    BY <2>2 DEF DInv, Segments
  <2>. QED
    BY <1>1, <2>1, <2>2, <2>3 DEF DInv, Segments
<1>12. /\ nodes' = (nodes \ NodesOf(t)) \cup Elems(w)
       /\ Elems(w) \cap (nodes \ NodesOf(t)) = {}
  BY <1>1, <1>2, <1>5, <1>9
<1>13. pc' = pc /\ pc'[t] # "commit" /\ UNCHANGED <<up, new_node>> /\ up
  BY <1>1
<1>14. /\ DInv' /\ NodeSeq(t)' = w
       /\ \A l \in Lists \ {t} : NodeSeq(l)' = NodeSeq(l)
  BY <1>1, <1>5, <1>7, <1>8, <1>10, <1>11, <1>12, <1>13, PrivateChange
<1>. QED
  BY <1>1, <1>14 DEF s, w

\* tx_destroy and commit free what is left in a private list.
LEMMA PrivateDestroy ==
    ASSUME LInv, DInv, NEW t \in Threads, tx_destroy(t) \/ commit(t)
    PROVE  /\ DInv'
           /\ NodeSeq(t)' = <<>>
           /\ \A l \in Lists \ {t} : NodeSeq(l)' = NodeSeq(l)
<1>1. /\ head' = [head EXCEPT ![t] = Null]
      /\ tail' = [tail EXCEPT ![t] = Null]
      /\ size' = [size EXCEPT ![t] = 0]
      /\ nodes' = nodes \ NodesOf(t)
      /\ UNCHANGED <<data, next, up, new_node>>
      /\ pc' = pc \/ pc' = [pc EXCEPT ![t] = "idle"]
      /\ pc[t] \in {"idle", "commit"}
      /\ segs' = segs \ {data[n] : n \in NodesOf(t)} \/ (pc[t] = "commit" /\ segs' = segs)
      /\ UNCHANGED <<lost, arg>>
  BY DEF tx_destroy, commit, ll_destroy_nested, ll_destroy, Emptied, Goto
<1>2. /\ t \in Lists /\ NodesOf(t) \subseteq nodes /\ NodesOf(t) = Elems(NodeSeq(t))
      /\ Chain(head[t], next, NodeSeq(t))
      /\ head \in [Lists -> Nodes \cup {Null}]
      /\ tail \in [Lists -> Nodes \cup {Null}]
      /\ size \in [Lists -> Int]
  BY NodesAre DEF DInv, TypeOk, Chained, Owned, Lists
<1>3. head[t] = Null => NodesOf(t) = {}
  <2>1. head[t] = Null => Len(NodeSeq(t)) = 0
    BY <1>2, ChainFacts
  <2>. QED
    BY <1>2, <2>1 DEF Elems
<1>4. up
  <2>1. CASE tx_destroy(t)
    <3>1. head[t] # Null
      BY <2>1 DEF tx_destroy
    <3>2. Len(NodeSeq(t)) \in Nat /\ Len(NodeSeq(t)) # 0
      BY <1>2, <3>1, ChainFacts
    <3>3. NodeSeq(t)[1] \in NodesOf(t)
      BY <1>2, <3>2 DEF Elems
    <3>. QED
      BY <1>2, <3>3 DEF DInv, Settled
  <2>2. CASE commit(t)
    BY <2>2 DEF DInv, Settled, commit
  <2>. QED
    BY <2>1, <2>2
<1>5. Segments'
  <2>. DEFINE D == {data[n] : n \in NodesOf(t)}
  <2>1. segs' = segs \ D
    BY <1>1, <1>3 DEF DInv, Settled
  <2>2. Held' = Held \ D /\ D \subseteq Held
    BY <1>1, <1>2 DEF DInv, Segments, Held
  <2>. HIDE DEF D
  <2>3. D \cap lost = {} /\ \A u \in Threads : arg[u] \notin D
    BY <2>2 DEF DInv, Segments
  <2>4. segs' = Held' \cup lost' \cup ({arg'[u] : u \in Threads} \ {Null})
    BY <1>1, <2>1, <2>2, <2>3 DEF DInv, Segments
  <2>5. \A u \in Threads : pc'[u] \in Giving <=> arg'[u] # Null
    BY <1>1 DEF DInv, Segments, Giving, LInv
  <2>. QED
    BY <1>1, <2>2, <2>4, <2>5 DEF DInv, Segments
<1>6. TypeOk'
  <2>1. size' \in [Lists -> Int]
    <3>1. 0 \in Int
      OBVIOUS
    <3>. QED
      BY <1>1, <1>2, <3>1, Zenon
  <2>2. head' \in [Lists -> Nodes \cup {Null}] /\ tail' \in [Lists -> Nodes \cup {Null}]
    BY <1>1, <1>2
  <2>. QED
    BY <1>1, <2>1, <2>2 DEF DInv, TypeOk
<1>. DEFINE e == <<>>
<1>7. Elems(e) = {} /\ LastOf(e) = Null /\ Len(e) = 0 /\ Chain(Null, next', e)
  BY ChainEmpty DEF Elems, LastOf
<1>. HIDE DEF e
<1>8. /\ Chain(head'[t], next', e)
      /\ tail'[t] = LastOf(e) /\ size'[t] = Len(e) /\ head'[t] = Null
      /\ \A l \in Lists \ {t} : head'[l] = head[l] /\ tail'[l] = tail[l] /\ size'[l] = size[l]
  BY <1>1, <1>2, <1>7
<1>9. /\ nodes' = (nodes \ NodesOf(t)) \cup Elems(e)
      /\ Elems(e) \cap (nodes \ NodesOf(t)) = {}
      /\ \A n \in nodes \ NodesOf(t) : next'[n] = next[n]
  BY <1>1, <1>7
<1>10. UNCHANGED <<up, new_node>>
  BY <1>1
<1>11. /\ DInv' /\ NodeSeq(t)' = e
       /\ \A l \in Lists \ {t} : NodeSeq(l)' = NodeSeq(l)
  BY <1>1, <1>4, <1>5, <1>6, <1>8, <1>9, <1>10, PrivateChange
<1>. QED
  BY <1>11 DEF e

\* tm_destroy frees the shared list; the private lists are empty.
LEMMA Destroy ==
    ASSUME LInv, DInv, tm_destroy
    PROVE  /\ DInv'
           /\ NodeSeq(Region)' = <<>>
           /\ \A u \in Threads : NodeSeq(u)' = NodeSeq(u)
           /\ \A u \in Threads : ~ Moving(u) /\ ~ Moving(u)'
<1>1. /\ \A u \in Threads : pc[u] = "idle" /\ head[u] = Null
      /\ head' = [head EXCEPT ![Region] = Null]
      /\ tail' = [tail EXCEPT ![Region] = Null]
      /\ size' = [size EXCEPT ![Region] = 0]
      /\ nodes' = nodes \ NodesOf(Region)
      /\ segs' = segs \ {data[n] : n \in NodesOf(Region)}
      /\ UNCHANGED <<data, next, pc, new_node, lost, arg>>
  BY DEF tm_destroy, ll_destroy_nested, ll_destroy, Emptied
<1>2. /\ Region \in Lists /\ Region \notin Threads
      /\ \A u \in Threads : u \in Lists /\ u # Region
      /\ head'[Region] = Null /\ tail'[Region] = Null /\ size'[Region] = 0
      /\ \A u \in Threads : head'[u] = head[u] /\ tail'[u] = tail[u] /\ size'[u] = size[u]
  BY <1>1, ListConstantsOk DEF Lists, DInv, TypeOk
<1>3. /\ NodeSeq(Region)' = <<>> /\ NodesOf(Region)' = Elems(<<>>)
      /\ Chain(head'[Region], next', NodeSeq(Region)')
  BY <1>2, ChainEmpty, NewSeq
<1>4. NodesOf(Region)' = {} /\ LastOf(NodeSeq(Region)') = Null /\ Len(NodeSeq(Region)') = 0
  BY <1>3 DEF Elems, LastOf
<1>5. ASSUME NEW u \in Threads
      PROVE  /\ NodeSeq(u)' = NodeSeq(u) /\ NodesOf(u)' = NodesOf(u)
             /\ Chain(head'[u], next', NodeSeq(u)')
             /\ NodesOf(u) = {}
  <2>1. /\ NodeSeq(u)' = NodeSeq(u) /\ NodesOf(u)' = NodesOf(u)
        /\ Chain(head'[u], next', NodeSeq(u)')
    BY <1>1, <1>2, Same DEF DInv
  <2>2. Len(NodeSeq(u)) = 0
    BY <1>1, <1>2, ChainFacts DEF DInv, Chained
  <2>3. NodesOf(u) = {}
    BY <1>2, <2>2, NodesAre DEF Elems
  <2>. QED
    BY <2>1, <2>3
<1>6. Chained'
  BY <1>3, <1>5 DEF Chained, Lists
<1>7. nodes = NodesOf(Region)
  BY <1>1, <1>2, <1>5 DEF DInv, Owned, Lists
<1>8. nodes' = {} /\ Held' = {} /\ segs' = lost'
  <2>1. \A u \in Threads : arg[u] = Null
    BY <1>1 DEF DInv, Segments, Giving
  <2>. QED
    BY <1>1, <1>7, <2>1 DEF DInv, Segments, Held
<1>9. TypeOk'
  <2>1. size' \in [Lists -> Int]
    <3>1. 0 \in Int /\ size \in [Lists -> Int]
      BY DEF DInv, TypeOk
    <3>. QED
      BY <1>1, <3>1, Zenon
  <2>2. head' \in [Lists -> Nodes \cup {Null}] /\ tail' \in [Lists -> Nodes \cup {Null}]
    BY <1>1 DEF DInv, TypeOk
  <2>. QED
    BY <1>1, <1>8, <2>1, <2>2 DEF DInv, TypeOk
<1>10. Private'
  BY <1>2, <1>5 DEF DInv, Private
<1>11. /\ AtTail' = {} /\ AtSize' = {}
       /\ \A u \in Threads : ~ Moving(u) /\ ~ Moving(u)'
  BY <1>1 DEF AtTail, AtSize, Moving
<1>12. SharedTail' /\ SharedSize'
  BY <1>2, <1>4, <1>11 DEF SharedTail, SharedSize
<1>13. Apart' /\ Owned'
  BY <1>1, <1>4, <1>5, <1>8, <1>11 DEF Apart, Owned, Lists
<1>14. Segments' /\ Settled'
  <2>1. \A u \in Threads : arg'[u] = Null
    BY <1>1 DEF DInv, Segments, Giving
  <2>2. Null \notin lost
    BY ListConstantsOk DEF DInv, Segments
  <2>. QED
    BY <1>1, <1>8, <2>1, <2>2 DEF DInv, Segments, Settled
<1>. QED
  BY <1>3, <1>5, <1>6, <1>9, <1>10, <1>11, <1>12, <1>13, <1>14 DEF DInv

\* ll_init.
LEMMA DInit == Init => DInv
<1>. SUFFICES ASSUME Init PROVE DInv
  OBVIOUS
<1>. DEFINE e == <<>>
<1>1. ASSUME NEW l \in Lists
      PROVE  NodeSeq(l) = e /\ Chain(head[l], next, NodeSeq(l))
  <2>1. Chain(head[l], next, e)
    BY ChainEmpty DEF Init
  <2>. HIDE DEF e
  <2>. QED
    BY <2>1, PathOfChain DEF NodeSeq
<1>2. Len(e) = 0 /\ LastOf(e) = Null /\ Elems(e) = {}
  BY DEF LastOf, Elems
<1>. HIDE DEF e
<1>3. \A l \in Lists : NodesOf(l) = {}
  BY <1>1, <1>2, NodesAre
<1>4. TypeOk
  BY DEF Init, TypeOk
<1>5. Chained
  BY <1>1 DEF Chained
<1>6. Private /\ SharedTail /\ SharedSize
  BY <1>1, <1>2 DEF Init, Private, SharedTail, SharedSize, AtTail, AtSize, Lists
<1>7. Apart /\ Owned
  BY <1>3 DEF Init, Apart, Owned, Lists, Moving
<1>8. Segments /\ Settled
  BY DEF Init, Segments, Settled, Held, Giving
<1>. QED
  BY <1>4, <1>5, <1>6, <1>7, <1>8 DEF DInv

\* Leaving the critical section writes only the lock.
LEMMA UnlockSeqs ==
    ASSUME LInv, DInv, NEW t \in Threads, NEW p \in {"idle", "commit"},
           pc[t] \in {"append_unlock", "concat_unlock"},
           pc[t] = "append_unlock" => p = "idle", unlock(t, p)
    PROVE  DInv'
<1>1. /\ pc' = [pc EXCEPT ![t] = p]
      /\ new_node' = [new_node EXCEPT ![t] = Null]
      /\ UNCHANGED <<lists, segs, lost, arg, up>>
  BY DEF unlock, Goto
<1>2. up /\ (p = "commit" => head[t] = Null)
  BY DEF DInv, Settled
<1>3. Segments'
  BY <1>1, SegmentsSame DEF DInv, lists, Giving
<1>. QED
  BY <1>1, <1>2, <1>3, Elsewhere DEF Busy, PcValues, Unlocked

\* Every step keeps the lists as they should be.
LEMMA DNext == LInv /\ DInv /\ [Next]_vars => DInv'
<1>. SUFFICES ASSUME LInv, DInv, [Next]_vars PROVE DInv'
  OBVIOUS
<1>1. ASSUME NEW t \in Threads, Step(t)
      PROVE  DInv'
  <2>1. ASSUME NEW from \in {"append", "concat"}, NEW p \in {"append_node", "concat_link"},
               <<from, p>> \in {<<"append", "append_node">>, <<"concat", "concat_link">>},
               lock_acquire(t, from, p)
        PROVE  DInv'
    <3>1. /\ pc[t] = from /\ pc' = [pc EXCEPT ![t] = p]
          /\ UNCHANGED <<lists, segs, lost, arg, up, new_node>>
      BY <2>1 DEF lock_acquire, Goto
    <3>2. up
      BY <3>1 DEF DInv, Settled
    <3>3. Segments'
      BY <2>1, <3>1, SegmentsSame DEF DInv, lists, Giving
    <3>. QED
      BY <3>1, <3>2, <3>3, Elsewhere DEF Busy, PcValues
  <2>2. ASSUME NEW n \in Nodes, append_node(t, n)
        PROVE  DInv'
    BY <2>2, AppendNode
  <2>3. CASE append_link(t)
    BY <2>3, AppendLink
  <2>4. CASE append_tail(t)
    BY <2>4, AppendTail
  <2>5. CASE append_size(t)
    BY <2>5, AppendSize
  <2>6. CASE append_unlock(t)
    BY <2>6, UnlockSeqs DEF append_unlock
  <2>7. CASE concat_link(t)
    <3>1. CASE head[t] # Null
      BY <2>7, <3>1, ConcatLink
    <3>2. CASE head[t] = Null
      <4>1. /\ pc[t] = "concat_link" /\ pc' = [pc EXCEPT ![t] = "concat_unlock"]
            /\ UNCHANGED <<lists, segs, lost, arg, up, new_node>>
        BY <2>7, <3>2 DEF concat_link, Goto, EarlyReturn, lists
      <4>2. up
        BY <4>1 DEF DInv, Settled
      <4>3. Segments'
        BY <4>1, SegmentsSame DEF DInv, lists, Giving
      <4>. QED
        BY <3>2, <4>1, <4>2, <4>3, Elsewhere DEF Busy, PcValues
    <3>. QED
      BY <3>1, <3>2
  <2>8. CASE concat_tail(t)
    BY <2>8, ConcatTail
  <2>9. CASE concat_size(t)
    BY <2>9, ConcatSize
  <2>10. CASE concat_clear(t)
    BY <2>10, ConcatClear
  <2>11. CASE concat_unlock(t)
    BY <2>11, UnlockSeqs DEF concat_unlock
  <2>12. CASE commit(t)
    BY <2>12, PrivateDestroy
  <2>. QED
    BY <1>1, <2>1, <2>2, <2>3, <2>4, <2>5, <2>6, <2>7, <2>8, <2>9, <2>10,
       <2>11, <2>12 DEF Step
<1>2. ASSUME NEW t \in Threads, Call(t)
      PROVE  DInv'
  <2>1. ASSUME NEW d \in Data, ll_append_safe(t, d)
        PROVE  DInv'
    <3>1. /\ pc[t] = "idle" /\ up /\ pc' = [pc EXCEPT ![t] = "append"]
          /\ d \notin segs /\ segs' = segs \cup {d}
          /\ arg' = [arg EXCEPT ![t] = d]
          /\ UNCHANGED <<lists, lost, up, new_node, data, nodes>>
      BY <2>1 DEF ll_append_safe, Enter, Goto, lists
    <3>2. Segments'
      <4>1. Held' = Held
        BY <3>1 DEF Held
      <4>2. \A u \in Threads : /\ arg'[u] = IF u = t THEN d ELSE arg[u]
                              /\ pc'[u] = IF u = t THEN "append" ELSE pc[u]
        BY <3>1 DEF DInv, Segments, LInv
      <4>3. arg[t] = Null
        BY <3>1 DEF DInv, Segments, Giving
      <4>4. /\ d \notin Held \cup lost /\ d # Null
            /\ \A u \in Threads : arg[u] # d
        BY <3>1, ListConstantsOk DEF DInv, Segments
      <4>5. {arg'[u] : u \in Threads} \ {Null} = ({arg[u] : u \in Threads} \ {Null}) \cup {d}
        BY <4>2, <4>3, <4>4
      <4>6. segs' = Held' \cup lost' \cup ({arg'[u] : u \in Threads} \ {Null})
        BY <3>1, <4>1, <4>5 DEF DInv, Segments
      <4>7. /\ arg' \in [Threads -> Data \cup {Null}]
            /\ \A u \in Threads : pc'[u] \in Giving <=> arg'[u] # Null
            /\ \A u, v \in Threads : arg'[u] = arg'[v] => u = v \/ arg'[u] = Null
            /\ \A u \in Threads : arg'[u] \notin Held' \cup lost'
        BY <3>1, <4>1, <4>2, <4>4 DEF DInv, Segments, Giving
      <4>. QED
        BY <3>1, <4>1, <4>6, <4>7 DEF DInv, Segments
    <3>. QED
      BY <3>1, <3>2, Elsewhere DEF Busy, PcValues, Unlocked
  <2>2. ASSUME ll_concat_safe(t)
        PROVE  DInv'
    <3>1. /\ pc[t] = "idle" /\ up /\ pc' = [pc EXCEPT ![t] = "concat"]
          /\ UNCHANGED <<lists, segs, lost, arg, up, new_node>>
      BY <2>2 DEF ll_concat_safe, Enter, Goto
    <3>2. Segments'
      BY <3>1, SegmentsSame DEF DInv, lists, Giving
    <3>. QED
      BY <3>1, <3>2, Elsewhere DEF Busy, PcValues, Unlocked
  <2>3. ASSUME NEW d \in Data, NEW n \in Nodes, ll_append(t, d, n)
        PROVE  DInv'
    BY <2>3, PrivateAppend, PrivateForget
  <2>. QED
    BY <1>2, <2>1, <2>2, <2>3, PrivateRemove, PrivateDestroy DEF Call
<1>3. CASE tm_destroy
  BY <1>3, Destroy
<1>4. CASE Done \/ UNCHANGED vars
  <2>1. UNCHANGED vars
    BY <1>4 DEF Done
  <2>2. UNCHANGED <<head, tail, size, data, next, nodes, segs, lost, arg, up, pc, new_node>>
    BY <2>1 DEF vars, lists
  <2>3. /\ \A l \in Lists : NodeSeq(l)' = NodeSeq(l) /\ NodesOf(l)' = NodesOf(l)
        /\ Chained'
    BY <2>2, AllSame DEF DInv
  <2>4. TypeOk' /\ Segments' /\ Settled'
    BY <2>2 DEF DInv, TypeOk, Segments, Held, Settled
  <2>5. Private' /\ SharedTail' /\ SharedSize'
    BY <2>2, <2>3 DEF DInv, Private, SharedTail, SharedSize, AtTail, AtSize, Lists
  <2>6. Apart' /\ Owned'
    BY <2>2, <2>3 DEF DInv, Apart, Owned, Moving, Lists
  <2>. QED
    BY <2>3, <2>4, <2>5, <2>6 DEF DInv
<1>. QED
  BY <1>1, <1>2, <1>3, <1>4 DEF Next

\* LInv and DInv together are inductive.
LEMMA DAlways == Spec => [](LInv /\ DInv)
<1>1. Init => LInv /\ DInv
  BY LInit, DInit
<1>2. LInv /\ DInv /\ [Next]_vars => (LInv /\ DInv)'
  BY LNext, DNext
<1>. QED
  BY <1>1, <1>2, PTL DEF Spec

\* Whoever takes the lock finds the region's list whole, and a private list
\* is whole except while it is moved.
THEOREM ListsStayIntact == Spec => []ListsIntact
<1>1. LInv /\ DInv => ListsIntact
  <2>. SUFFICES ASSUME LInv, DInv PROVE ListsIntact
    OBVIOUS
  <2>1. ASSUME NEW l \in Lists, tail[l] = LastOf(NodeSeq(l)), size[l] = Len(NodeSeq(l))
        PROVE  Intact(l)
    <3>. DEFINE s == NodeSeq(l)
    <3>1. Chain(head[l], next, s) /\ s \in Seq(Nodes)
      BY DEF DInv, Chained, Chain
    <3>2. Len(s) \in Nat /\ (s = <<>> <=> Len(s) = 0)
      BY <3>1, EmptySeq, LenProperties
    <3>3. tail[l] = IF s = <<>> THEN Null ELSE s[Len(s)]
      BY <2>1, <3>2 DEF LastOf
    <3>4. s # <<>> => next[s[Len(s)]] = Null
      BY <3>1, <3>2 DEF Chain
    <3>. QED
      BY <2>1, <3>3, <3>4 DEF Intact
  <2>2. ASSUME lk = 0 PROVE Intact(Region)
    <3>1. AtTail = {} /\ AtSize = {}
      BY <2>2 DEF LInv, LockExclusive, AtTail, AtSize, Unlocked
    <3>. QED
      BY <2>1, <3>1 DEF DInv, SharedTail, SharedSize, Lists
  <2>3. \A t \in Threads : Intact(t)
    BY <2>1 DEF DInv, Private, Lists
  <2>. QED
    BY <2>2, <2>3 DEF ListsIntact
<1>. QED
  BY <1>1, DAlways, PTL

\* Every allocated node is in one list, or is about to be; no list reaches a
\* freed node; a segment that no node holds is one that malloc gave no node,
\* and those alone are left after tm_destroy.
THEOREM NodesStayAccounted == Spec => []NodesAccounted
<1>1. LInv /\ DInv => NodesAccounted
  <2>. SUFFICES ASSUME LInv, DInv PROVE NodesAccounted
    OBVIOUS
  <2>1. ASSUME NEW l \in Lists, NEW m \in Lists, l # m,
               ~ \E t \in {l, m} \ {Region} : Moving(t)
        PROVE  NodesOf(l) \cap NodesOf(m) = {}
    <3>1. CASE l \in Threads /\ m \in Threads
      BY <2>1, <3>1 DEF DInv, Apart
    <3>2. CASE l = Region
      BY <2>1, <3>2 DEF DInv, Apart, Lists
    <3>3. CASE m = Region
      BY <2>1, <3>3 DEF DInv, Apart, Lists
    <3>. QED
      BY <3>1, <3>2, <3>3 DEF Lists
  <2>2. UNION {NodesOf(l) : l \in Lists} \subseteq nodes
    BY DEF DInv, Owned
  <2>3. \A n \in nodes : \/ \E l \in Lists : n \in NodesOf(l)
                         \/ \E t \in Threads : new_node[t] = n
    BY DEF DInv, Owned
  <2>4. /\ segs = Held \cup lost \cup ({arg[t] : t \in Threads} \ {Null})
        /\ Held \cap lost = {}
    BY DEF DInv, Segments
  <2>5. ASSUME ~ up PROVE nodes = {} /\ segs = lost
    <3>1. nodes = {} /\ \A t \in Threads : pc[t] \notin Giving
      BY <2>5 DEF DInv, Settled, Giving
    <3>2. Held = {} /\ \A t \in Threads : arg[t] = Null
      BY <3>1 DEF DInv, Segments, Held
    <3>. QED
      BY <2>4, <3>1, <3>2
  <2>. QED
    BY <2>1, <2>2, <2>3, <2>4, <2>5 DEF NodesAccounted
<1>. QED
  BY <1>1, DAlways, PTL

-----------------------------------------------------------------------------
(* The lists implement sequences of segments *)

Values(d, s) == [i \in 1..Len(s) |-> d[s[i]]]

\* The values are a sequence of segments.
LEMMA ValuesSeq ==
    ASSUME NEW d, NEW s \in Seq(Nodes), \A i \in 1..Len(s) : d[s[i]] \in Data
    PROVE  Values(d, s) \in Seq(Data) /\ Len(Values(d, s)) = Len(s)
BY LenProperties DEF Values

\* Writing data of a node that is not there.
LEMMA ValuesFrame ==
    ASSUME NEW d, NEW e, NEW s, \A n \in Elems(s) : e[n] = d[n]
    PROVE  Values(e, s) = Values(d, s)
BY DEF Values, Elems

\* The values of a concatenation are the concatenation of the values.
LEMMA ValuesConcat ==
    ASSUME NEW d, NEW s \in Seq(Nodes), NEW r \in Seq(Nodes),
           \A n \in Elems(s) \cup Elems(r) : d[n] \in Data
    PROVE  Values(d, s \o r) = Values(d, s) \o Values(d, r)
<1>. DEFINE q == s \o r
            v == Values(d, s)
            w == Values(d, r)
<1>1. /\ Len(s) \in Nat /\ Len(r) \in Nat
      /\ q \in Seq(Nodes)
      /\ Len(q) = Len(s) + Len(r)
      /\ \A i \in 1..(Len(s) + Len(r)) : q[i] = IF i <= Len(s) THEN s[i] ELSE r[i - Len(s)]
  BY LenProperties, ConcatProperties
<1>2. /\ v \in Seq(Data) /\ Len(v) = Len(s)
      /\ w \in Seq(Data) /\ Len(w) = Len(r)
  BY ValuesSeq DEF Elems
<1>3. /\ \A i \in 1..Len(s) : v[i] = d[s[i]]
      /\ \A i \in 1..Len(r) : w[i] = d[r[i]]
  BY DEF Values
<1>. HIDE DEF q, v, w
<1>4. /\ v \o w \in Seq(Data)
      /\ Len(v \o w) = Len(s) + Len(r)
      /\ \A i \in 1..(Len(s) + Len(r)) : (v \o w)[i] = IF i <= Len(s) THEN v[i] ELSE w[i - Len(s)]
  <2>1. /\ v \o w \in Seq(Data)
        /\ Len(v \o w) = Len(v) + Len(w)
        /\ \A i \in 1..(Len(v) + Len(w)) :
              (v \o w)[i] = IF i <= Len(v) THEN v[i] ELSE w[i - Len(v)]
    <3>1. v \in Seq(Data) /\ w \in Seq(Data)
      BY <1>2
    <3>. QED
      BY <3>1, ConcatProperties
  <2>2. Len(v) = Len(s) /\ Len(w) = Len(r)
    BY <1>2
  <2>. QED
    BY <2>1, <2>2
<1>5. ASSUME NEW i \in 1..(Len(s) + Len(r)) PROVE (v \o w)[i] = d[q[i]]
  <2>1. CASE i <= Len(s)
    <3>1. i \in 1..Len(s)
      BY <1>1, <2>1
    <3>. QED
      BY <1>1, <1>3, <1>4, <2>1, <3>1
  <2>2. CASE ~ (i <= Len(s))
    <3>1. i - Len(s) \in 1..Len(r)
      BY <1>1, <2>2
    <3>. QED
      BY <1>1, <1>3, <1>4, <2>2, <3>1
  <2>. QED
    BY <2>1, <2>2
<1>6. v \o w = [i \in 1..(Len(s) + Len(r)) |-> (v \o w)[i]]
  BY <1>4, LenProperties
<1>7. v \o w = [i \in 1..Len(q) |-> d[q[i]]]
  BY <1>1, <1>5, <1>6
<1>. QED
  BY <1>7 DEF q, v, w, Values

\* The values of a list without a node are the values without its segment.
LEMMA ValuesWithout ==
    ASSUME NEW d, NEW s \in Seq(Nodes), NEW i \in 1..Len(s),
           \A n \in Elems(s) : d[n] \in Data
    PROVE  LET v == Values(d, s) IN
           Values(d, Without(s, i)) = SubSeq(v, 1, i - 1) \o SubSeq(v, i + 1, Len(v))
<1>. DEFINE v == Values(d, s)
<1>1. v \in Seq(Data) /\ Len(v) = Len(s) /\ Len(s) \in Nat /\ i \in 1..Len(v)
  BY ValuesSeq, LenProperties DEF Elems
<1>2. \A j \in 1..Len(s) : v[j] = d[s[j]]
  BY DEF Values
<1>. HIDE DEF v
<1>3. SubSeq(v, 1, i - 1) \o SubSeq(v, i + 1, Len(v)) = Without(v, i)
  BY <1>1, SubSeqsWithout
<1>4. Len(Without(s, i)) = Len(s) - 1
  BY <1>1, SubSeqsWithout, LenProperties DEF Without
<1>5. \A j \in 1..(Len(s) - 1) : Without(v, i)[j] = d[Without(s, i)[j]]
  <2>1. ASSUME NEW j \in 1..(Len(s) - 1) PROVE Without(v, i)[j] = d[Without(s, i)[j]]
    <3>1. j \in 1..Len(s) /\ j + 1 \in 1..Len(s)
      BY <1>1
    <3>2. Without(v, i)[j] = IF j < i THEN v[j] ELSE v[j + 1]
      BY <1>1 DEF Without
    <3>3. Without(s, i)[j] = IF j < i THEN s[j] ELSE s[j + 1]
      BY DEF Without
    <3>. QED
      BY <1>2, <3>1, <3>2, <3>3
  <2>. QED
    BY <2>1
<1>6. Without(v, i) = [j \in 1..(Len(s) - 1) |-> Without(v, i)[j]]
  BY <1>1 DEF Without
<1>7. Without(v, i) = [j \in 1..Len(Without(s, i)) |-> d[Without(s, i)[j]]]
  BY <1>4, <1>5, <1>6
<1>. QED
  BY <1>3, <1>7 DEF v, Values

\* The nodes of a list have segments.
LEMMA ListData ==
    ASSUME DInv, NEW l \in Lists
    PROVE  /\ NodeSeq(l) \in Seq(Nodes)
           /\ Elems(NodeSeq(l)) = NodesOf(l)
           /\ \A n \in NodesOf(l) : n \in nodes /\ data[n] \in Data
BY NodesAre DEF DInv, Chained, Chain, Owned, Segments, Held

\* A step that changes neither a list that is not moved nor what its nodes
\* hold stutters.
LEMMA ContentSame ==
    ASSUME DInv,
           \A t \in Threads : Moving(t)' = Moving(t),
           \A l \in Lists : (l \in Threads /\ Moving(l)) \/ NodeSeq(l)' = NodeSeq(l),
           \A n \in nodes : data'[n] = data[n]
    PROVE  UNCHANGED content
<1>1. ASSUME NEW l \in Lists PROVE content'[l] = content[l]
  <2>1. CASE l \in Threads /\ Moving(l)
    BY <2>1 DEF content
  <2>2. CASE ~ (l \in Threads /\ Moving(l))
    <3>1. Values(data', NodeSeq(l)) = Values(data, NodeSeq(l))
      BY ListData, ValuesFrame
    <3>. QED
      BY <2>2, <3>1 DEF content, Values
  <2>. QED
    BY <2>1, <2>2
<1>. QED
  BY <1>1 DEF content

\* A step that changes one list only.
LEMMA ContentOne ==
    ASSUME DInv, NEW m \in Lists, NEW s,
           \A t \in Threads : Moving(t)' = Moving(t),
           m \in Threads => ~ Moving(m),
           NodeSeq(m)' = s,
           \A l \in Lists \ {m} : NodeSeq(l)' = NodeSeq(l),
           \A n \in nodes : data'[n] = data[n]
    PROVE  content' = [content EXCEPT ![m] = Values(data', s)]
<1>1. ASSUME NEW l \in Lists \ {m} PROVE content'[l] = content[l]
  <2>1. Values(data', NodeSeq(l)) = Values(data, NodeSeq(l))
    BY ListData, ValuesFrame
  <2>. QED
    BY <2>1 DEF content, Values
<1>2. content'[m] = Values(data', s)
  BY DEF content, Values
<1>. QED
  BY <1>1, <1>2 DEF content

\* An append of any list is that of the sequence.
LEMMA AbstractAppend ==
    ASSUME DInv, NEW m \in Lists, NEW n \in Nodes, NEW d \in Data,
           \A t \in Threads : Moving(t)' = Moving(t),
           m \in Threads => ~ Moving(m),
           NodeSeq(m)' = NodeSeq(m) \o <<n>>,
           \A l \in Lists \ {m} : NodeSeq(l)' = NodeSeq(l),
           \A k \in nodes : data'[k] = data[k],
           data'[n] = d
    PROVE  Abstract!ll_append(m, d)
<1>. DEFINE s == NodeSeq(m)
            r == <<n>>
<1>1. /\ s \in Seq(Nodes)
      /\ \A k \in Elems(s) : k \in nodes /\ data'[k] = data[k] /\ data[k] \in Data
  BY ListData
<1>2. r \in Seq(Nodes) /\ Elems(r) = {n} /\ Len(r) = 1 /\ r[1] = n
  BY DEF Elems
<1>3. Values(data', r) = <<d>>
  BY DEF Values
<1>4. Values(data', s) = content[m]
  <2>1. Values(data', s) = Values(data, s)
    BY <1>1, ValuesFrame
  <2>. QED
    BY <2>1 DEF content, Values
<1>5. content[m] \in Seq(Data)
  <2>1. \A i \in 1..Len(s) : data'[s[i]] \in Data
    BY <1>1 DEF Elems
  <2>. HIDE DEF s
  <2>. QED
    BY <1>1, <1>4, <2>1, ValuesSeq
<1>. HIDE DEF s, r
<1>6. Values(data', s \o r) = Values(data', s) \o Values(data', r)
  <2>1. \A k \in Elems(s) \cup Elems(r) : data'[k] \in Data
    BY <1>1, <1>2
  <2>. QED
    BY <1>1, <1>2, <2>1, ValuesConcat
<1>7. content' = [content EXCEPT ![m] = Values(data', s \o r)]
  BY ContentOne DEF s, r
<1>8. content[m] \o <<d>> = Append(content[m], d)
  BY <1>5, AppendIsConcat
<1>. QED
  BY <1>3, <1>4, <1>6, <1>7, <1>8 DEF Abstract!ll_append

\* ll_remove takes the segment out of the sequence.
LEMMA AbstractRemove ==
    ASSUME LInv, DInv, NEW t \in Threads, NEW i \in 1..Cardinality(Nodes), ll_remove(t, i)
    PROVE  \E d \in Data : Abstract!ll_remove(t, d)
<1>. DEFINE s == NodeSeq(t)
            v == content[t]
<1>1. /\ t \in Lists /\ i \in 1..Len(s) /\ NodeSeq(t)' = Without(s, i)
      /\ \A l \in Lists \ {t} : NodeSeq(l)' = NodeSeq(l)
  BY PrivateRemove DEF Lists
<1>2. /\ pc[t] = "idle" /\ UNCHANGED <<pc, data>>
      /\ \A j \in 1..(i - 1) : data[s[j]] # data[s[i]]
  BY DEF ll_remove, Enter
<1>3. ~ Moving(t) /\ \A u \in Threads : Moving(u)' = Moving(u)
  BY <1>2 DEF Moving
<1>4. v = Values(data, s)
  BY <1>1, <1>3 DEF content, Values
<1>5. s \in Seq(Nodes) /\ \A n \in Elems(s) : data[n] \in Data
  BY <1>1, ListData
<1>6. content' = [content EXCEPT ![t] = Values(data, Without(s, i))]
  BY <1>1, <1>2, <1>3, ContentOne
<1>7. Values(data, Without(s, i)) = SubSeq(v, 1, i - 1) \o SubSeq(v, i + 1, Len(v))
  <2>. HIDE DEF s, v
  <2>. QED
    BY <1>1, <1>4, <1>5, ValuesWithout
<1>8. /\ Len(v) = Len(s)
      /\ Len(s) \in Nat
      /\ \A j \in 1..Len(s) : v[j] = data[s[j]]
      /\ s[i] \in Elems(s)
  BY <1>1, <1>4, <1>5, LenProperties DEF Values, Elems
<1>. HIDE DEF s, v
<1>9. /\ i \in 1..Len(v)
      /\ v[i] = data[s[i]] /\ data[s[i]] \in Data
      /\ \A j \in 1..(i - 1) : v[j] # data[s[i]]
  BY <1>1, <1>2, <1>5, <1>8
<1>10. Abstract!ll_remove(t, data[s[i]])
  BY <1>6, <1>7, <1>9 DEF Abstract!ll_remove, v
<1>. QED
  BY <1>9, <1>10

\* The concatenation takes effect when the link is written.
LEMMA AbstractConcat ==
    ASSUME LInv, DInv, NEW t \in Threads, concat_link(t), head[t] # Null
    PROVE  Abstract!ll_concat_safe(t)
<1>. DEFINE s == NodeSeq(Region)
            r == NodeSeq(t)
<1>1. /\ NodeSeq(Region)' = s \o r
      /\ \A u \in Threads : NodeSeq(u)' = NodeSeq(u)
      /\ pc' = [pc EXCEPT ![t] = "concat_tail"]
      /\ pc[t] = "concat_link"
      /\ data' = data
  BY ConcatLink DEF concat_link
<1>2. \A u \in Threads : ~ Moving(u) /\ (Moving(u)' <=> u = t)
  BY <1>1, Still DEF Moving, LInv
<1>3. Region \in Lists /\ t \in Lists /\ Region # t /\ Region \notin Threads
  BY ListConstantsOk DEF Lists
<1>4. /\ s \in Seq(Nodes) /\ r \in Seq(Nodes)
      /\ \A n \in Elems(s) \cup Elems(r) : data[n] \in Data
  BY <1>3, ListData
<1>. HIDE DEF s, r
<1>5. Values(data, s \o r) = Values(data, s) \o Values(data, r)
  BY <1>4, ValuesConcat
<1>6. content[Region] = Values(data, s) /\ content[t] = Values(data, r)
  BY <1>2, <1>3 DEF content, Values, s, r
<1>7. content'[Region] = Values(data, s \o r) /\ content'[t] = <<>>
  BY <1>1, <1>2, <1>3 DEF content, Values
<1>8. \A l \in Lists \ {Region, t} : content'[l] = content[l]
  BY <1>1, <1>2 DEF content, Lists
<1>9. content'[Region] = content[Region] \o content[t]
  BY <1>5, <1>6, <1>7
<1>10. /\ content = [l \in Lists |-> content[l]]
       /\ content' = [l \in Lists |-> content'[l]]
  BY DEF content
<1>. HIDE DEF content
<1>11. content' = [content EXCEPT ![Region] = content[Region] \o content[t], ![t] = <<>>]
  BY <1>3, <1>7, <1>8, <1>9, <1>10
<1>. QED
  BY <1>3, <1>11 DEF Abstract!ll_concat_safe

\* tx_destroy and commit empty the sequence.
LEMMA AbstractDestroy ==
    ASSUME LInv, DInv, NEW t \in Threads, tx_destroy(t) \/ commit(t)
    PROVE  Abstract!ll_destroy(t)
<1>1. /\ t \in Lists /\ NodeSeq(t)' = <<>>
      /\ \A l \in Lists \ {t} : NodeSeq(l)' = NodeSeq(l)
  BY PrivateDestroy DEF Lists
<1>2. /\ pc[t] \in {"idle", "commit"} /\ data' = data
      /\ pc' = pc \/ pc' = [pc EXCEPT ![t] = "idle"]
  BY DEF tx_destroy, commit, ll_destroy_nested, ll_destroy, Emptied, Goto
<1>3. ~ Moving(t) /\ \A u \in Threads : Moving(u)' = Moving(u)
  BY <1>2 DEF Moving, LInv
<1>4. content' = [content EXCEPT ![t] = Values(data', <<>>)]
  BY <1>1, <1>2, <1>3, ContentOne
<1>5. Values(data', <<>>) = <<>>
  BY DEF Values
<1>. QED
  BY <1>4, <1>5 DEF Abstract!ll_destroy

\* Each step of the lists is a step of the sequences, or changes none.
LEMMA AbstractStep == LInv /\ DInv /\ [Next]_vars => [Abstract!Next]_content
<1>. SUFFICES ASSUME LInv, DInv, [Next]_vars
              PROVE  Abstract!Next \/ UNCHANGED content
  OBVIOUS
<1>1. ASSUME UNCHANGED <<head, next, data>>, \A u \in Threads : Moving(u)' = Moving(u)
      PROVE  UNCHANGED content
  BY <1>1, AllSame, ContentSame DEF DInv
<1>2. ASSUME NEW t \in Threads, NEW p \in PcValues, pc' = [pc EXCEPT ![t] = p],
             UNCHANGED <<head, next, data>>,
             p \in {"concat_tail", "concat_size", "concat_clear"} <=> Moving(t)
      PROVE  UNCHANGED content
  <2>1. \A u \in Threads : Moving(u)' = Moving(u)
    BY <1>2 DEF Moving, LInv
  <2>. QED
    BY <1>1, <1>2, <2>1
<1>3. ASSUME NEW t \in Threads, Step(t)
      PROVE  Abstract!Next \/ UNCHANGED content
  <2>1. ASSUME NEW from \in {"append", "concat"}, NEW p \in {"append_node", "concat_link"},
               lock_acquire(t, from, p)
        PROVE  UNCHANGED content
    BY <1>2, <2>1 DEF lock_acquire, Goto, lists, PcValues, Moving
  <2>2. ASSUME NEW n \in Nodes, append_node(t, n)
        PROVE  UNCHANGED content
    <3>1. \A l \in Lists : NodeSeq(l)' = NodeSeq(l)
      BY <2>2, AppendNode
    <3>2. \A m \in nodes : data'[m] = data[m]
      BY <2>2 DEF append_node, NewNode, NoNode, lists, DInv, TypeOk
    <3>3. \A u \in Threads : Moving(u)' = Moving(u)
      BY <2>2 DEF append_node, Goto, Moving, LInv
    <3>. QED
      BY <3>1, <3>2, <3>3, ContentSame
  <2>3. CASE append_link(t)
    <3>1. /\ NodeSeq(Region)' = NodeSeq(Region) \o <<new_node[t]>>
          /\ \A l \in Lists \ {Region} : NodeSeq(l)' = NodeSeq(l)
      BY <2>3, AppendLink DEF Lists
    <3>2. new_node[t] \in Nodes /\ data[new_node[t]] \in Data /\ data' = data
      BY <2>3 DEF append_link, DInv, Owned, Segments, Held, TypeOk
    <3>3. \A u \in Threads : Moving(u)' = Moving(u)
      BY <2>3 DEF append_link, Goto, Moving, LInv
    <3>4. Region \in Lists /\ Region \notin Threads
      BY ListConstantsOk DEF Lists
    <3>5. Abstract!ll_append(Region, data[new_node[t]])
      BY <3>1, <3>2, <3>3, <3>4, AbstractAppend
    <3>. QED
      BY <3>2, <3>5 DEF Abstract!Next
  <2>4. CASE append_tail(t)
    BY <1>2, <2>4 DEF append_tail, Goto, PcValues, Moving
  <2>5. CASE append_size(t)
    BY <1>2, <2>5 DEF append_size, Goto, PcValues, Moving
  <2>6. CASE append_unlock(t)
    BY <1>2, <2>6 DEF append_unlock, unlock, Goto, lists, PcValues, Unlocked, Moving
  <2>7. CASE concat_link(t)
    <3>1. CASE head[t] # Null
      BY <2>7, <3>1, AbstractConcat DEF Abstract!Next
    <3>2. CASE head[t] = Null
      BY <1>2, <2>7, <3>2 DEF concat_link, Goto, EarlyReturn, PcValues, Moving
    <3>. QED
      BY <3>1, <3>2
  <2>8. CASE concat_tail(t)
    BY <1>2, <2>8 DEF concat_tail, Goto, PcValues, Moving
  <2>9. CASE concat_size(t)
    BY <1>2, <2>9 DEF concat_size, Goto, PcValues, Moving
  <2>10. CASE concat_clear(t)
    <3>1. /\ NodeSeq(t)' = <<>>
          /\ \A l \in Lists \ {t} : NodeSeq(l)' = NodeSeq(l)
      BY <2>10, ConcatClear
    <3>2. /\ data' = data /\ pc' = [pc EXCEPT ![t] = "concat_unlock"] /\ pc[t] = "concat_clear"
      BY <2>10 DEF concat_clear, Goto
    <3>3. ASSUME NEW l \in Lists PROVE content'[l] = content[l]
      <4>1. CASE l = t
        BY <3>1, <3>2, <4>1 DEF content, Moving, LInv
      <4>2. CASE l # t
        BY <3>1, <3>2, <4>2 DEF content, Moving, LInv
      <4>. QED
        BY <4>1, <4>2
    <3>. QED
      BY <3>3 DEF content
  <2>11. CASE concat_unlock(t)
    BY <1>2, <2>11 DEF concat_unlock, unlock, Goto, lists, PcValues, Unlocked, Moving
  <2>12. CASE commit(t)
    BY <2>12, AbstractDestroy DEF Abstract!Next, Lists
  <2>. QED
    BY <1>3, <2>1, <2>2, <2>3, <2>4, <2>5, <2>6, <2>7, <2>8, <2>9, <2>10,
       <2>11, <2>12 DEF Step
<1>4. ASSUME NEW t \in Threads, Call(t)
      PROVE  Abstract!Next \/ UNCHANGED content
  <2>1. ASSUME NEW d \in Data, NEW n \in Nodes, ll_append(t, d, n), ~ NoNode(d)
        PROVE  Abstract!ll_append(t, d)
    <3>1. /\ NodeSeq(t)' = NodeSeq(t) \o <<n>>
          /\ \A l \in Lists \ {t} : NodeSeq(l)' = NodeSeq(l)
      BY <2>1, PrivateAppend
    <3>2. /\ pc[t] = "idle" /\ pc' = pc
          /\ data'[n] = d /\ \A m \in nodes : data'[m] = data[m]
      BY <2>1 DEF ll_append, NewNode, Enter, DInv, TypeOk
    <3>3. t \in Lists /\ ~ Moving(t) /\ \A u \in Threads : Moving(u)' = Moving(u)
      BY <3>2 DEF Moving, Lists
    <3>. QED
      BY <3>1, <3>2, <3>3, AbstractAppend
  <2>2. ASSUME NEW i \in 1..Cardinality(Nodes), ll_remove(t, i)
        PROVE  \E d \in Data : Abstract!ll_remove(t, d)
    BY <2>2, AbstractRemove
  <2>3. tx_destroy(t) => Abstract!ll_destroy(t)
    BY AbstractDestroy
  <2>4. ASSUME NEW d \in Data, NEW n \in Nodes, ll_append(t, d, n), NoNode(d)
        PROVE  UNCHANGED content
    <3>1. \A u \in Threads : Moving(u)' = Moving(u)
      BY <2>4, PrivateForget DEF Moving
    <3>. QED
      BY <2>4, <3>1, PrivateForget, ContentSame
  <2>5. (\E d \in Data : ll_append_safe(t, d)) \/ ll_concat_safe(t) => UNCHANGED content
    BY <1>2 DEF ll_append_safe, ll_concat_safe, Enter, Goto, lists, PcValues, Unlocked, Moving
  <2>. QED
    BY <1>4, <2>1, <2>2, <2>3, <2>4, <2>5 DEF Call, Abstract!Next, Lists
<1>5. CASE tm_destroy
  <2>1. /\ NodeSeq(Region)' = <<>>
        /\ \A l \in Lists \ {Region} : NodeSeq(l)' = NodeSeq(l)
    BY <1>5, Destroy DEF Lists
  <2>6. \A u \in Threads : Moving(u)' = Moving(u)
    BY <1>5 DEF tm_destroy, Moving
  <2>2. data' = data
    BY <1>5 DEF tm_destroy, ll_destroy_nested, ll_destroy, Emptied
  <2>3. Region \in Lists /\ Region \notin Threads
    BY ListConstantsOk DEF Lists
  <2>4. content' = [content EXCEPT ![Region] = Values(data', <<>>)]
    BY <2>1, <2>2, <2>3, <2>6, ContentOne
  <2>5. Abstract!ll_destroy(Region)
    BY <2>4 DEF Values, Abstract!ll_destroy
  <2>. QED
    BY <2>5 DEF Abstract!Next
<1>6. CASE Done \/ UNCHANGED vars
  <2>1. UNCHANGED <<head, next, data, pc>>
    BY <1>6 DEF Done, vars, lists
  <2>. QED
    BY <1>1, <2>1 DEF Moving
<1>. QED
  BY <1>3, <1>4, <1>5, <1>6 DEF Next

\* The lists of ll.c implement sequences of segments with atomic calls.
THEOREM ListsAreSequences == Spec => ImplementsSequences
<1>1. Init => Abstract!Init
  <2>. SUFFICES ASSUME Init PROVE Abstract!Init
    OBVIOUS
  <2>. DEFINE e == <<>>
  <2>1. ASSUME NEW l \in Lists PROVE NodeSeq(l) = e
    <3>1. Chain(head[l], next, e)
      BY ChainEmpty DEF Init
    <3>. HIDE DEF e
    <3>. QED
      BY <3>1, PathOfChain DEF NodeSeq
  <2>2. \A l \in Lists : content[l] = <<>>
    BY <2>1 DEF content
  <2>. QED
    BY <2>2 DEF Abstract!Init, content, Lists
<1>2. LInv /\ DInv /\ [Next]_vars => [Abstract!Next]_content
  BY AbstractStep
<1>. QED
  BY <1>1, <1>2, DAlways, PTL DEF Spec, ImplementsSequences, Abstract!Spec
=============================================================================
