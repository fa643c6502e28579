--------------------------- MODULE WriteSet_proofs ---------------------------
(***************************************************************************)
(* Theorems about the dictionary of module Dict and the write set of       *)
(* module WriteSet, for any words, any values of the hash function, any    *)
(* initial length and growth factor and any number of writes.              *)
(***************************************************************************)
EXTENDS WriteSet, FiniteSetTheorems, WellFoundedInduction, TLAPS

-----------------------------------------------------------------------------
(* Induction *)

LEMMA Least ==
    ASSUME NEW T \in SUBSET Nat, T # {}
    PROVE  \E x \in T : \A y \in T : x <= y
<1>. DEFINE R == OpToRel(<, Nat)
<1>1. \A x, y \in Nat : y < x => <<y, x>> \in R
  BY DEF OpToRel
<1>2. IsWellFoundedOn(R, Nat)
  BY NatLessThanWellFounded
<1>. HIDE DEF R
<1>3. PICK x \in T : \A y \in T : ~ (<<y, x>> \in R)
  BY <1>2, WFMin
<1>4. \A y \in T : ~ (y < x)
  BY <1>1, <1>3
<1>. QED
  BY <1>4

\* Induction, over a set of naturals instead of a predicate.
LEMMA Induct ==
    ASSUME NEW S \in SUBSET Nat, 0 \in S, \A n \in Nat : n \in S => n + 1 \in S
    PROVE  S = Nat
<1>1. SUFFICES ASSUME Nat \ S # {} PROVE FALSE
  OBVIOUS
<1>2. PICK x \in Nat \ S : \A y \in Nat \ S : x <= y
  BY <1>1, Least
<1>3. x # 0 /\ x - 1 \in Nat /\ x - 1 \in S
  BY <1>2
<1>. QED
  BY <1>2, <1>3

-----------------------------------------------------------------------------
(* What the recursive definitions compute *)

\* f concatenates the first i of seqs.
Concats(f, seqs, n) ==
    /\ f = [i \in 1 .. n |-> f[i]]
    /\ \A i \in 1 .. n : f[i] = IF i = 1 THEN seqs[i] ELSE f[i - 1] \o seqs[i]

LEMMA ConcatsExist == \A seqs : \A n \in Nat : \E f : Concats(f, seqs, n)
<1>. SUFFICES ASSUME NEW seqs PROVE \A n \in Nat : \E f : Concats(f, seqs, n)
  OBVIOUS
<1>. DEFINE B == {n \in Nat : \E f : Concats(f, seqs, n)}
<1>1. 0 \in B
  <2>1. Concats([i \in 1 .. 0 |-> <<>>], seqs, 0)
    BY DEF Concats
  <2>. QED
    BY <2>1
<1>2. ASSUME NEW n \in Nat, n \in B PROVE n + 1 \in B
  <2>1. PICK f : Concats(f, seqs, n)
    BY <1>2
  <2>. DEFINE g == [i \in 1 .. n + 1 |->
                       IF i # n + 1 THEN f[i]
                       ELSE IF i = 1 THEN seqs[i] ELSE f[i - 1] \o seqs[i]]
  <2>2. ASSUME NEW i \in 1 .. n + 1
        PROVE  g[i] = IF i = 1 THEN seqs[i] ELSE g[i - 1] \o seqs[i]
    <3>1. CASE i = n + 1
      <4>1. i # 1 => i - 1 \in 1 .. n + 1 /\ i - 1 # n + 1
        BY <3>1
      <4>. QED
        BY <3>1, <4>1
    <3>2. CASE i # n + 1
      <4>1. i \in 1 .. n /\ (i # 1 => i - 1 \in 1 .. n + 1 /\ i - 1 # n + 1)
        BY <3>2
      <4>2. f[i] = IF i = 1 THEN seqs[i] ELSE f[i - 1] \o seqs[i]
        BY <2>1, <4>1 DEF Concats
      <4>. QED
        BY <3>2, <4>1, <4>2
    <3>. QED
      BY <3>1, <3>2
  <2>3. g = [i \in 1 .. n + 1 |-> g[i]]
    OBVIOUS
  <2>. HIDE DEF g
  <2>4. Concats(g, seqs, n + 1)
    BY <2>2, <2>3 DEF Concats
  <2>. QED
    BY <2>4
<1>3. B = Nat
  <2>. HIDE DEF B
  <2>. QED
    BY <1>1, <1>2, Induct DEF B
<1>. QED
  BY <1>3

LEMMA FlattenIs ==
    ASSUME NEW seqs, Len(seqs) \in Nat, Len(seqs) # 0
    PROVE  \E f : Concats(f, seqs, Len(seqs)) /\ FlattenSeq(seqs) = f[Len(seqs)]
<1>. DEFINE flat[i \in 1 .. Len(seqs)] == IF i = 1 THEN seqs[i] ELSE flat[i - 1] \o seqs[i]
<1>1. FlattenSeq(seqs) = flat[Len(seqs)]
  BY DEF FlattenSeq
<1>2. flat = CHOOSE h : h = [i \in 1 .. Len(seqs) |->
                                IF i = 1 THEN seqs[i] ELSE h[i - 1] \o seqs[i]]
  OBVIOUS
<1>3. PICK g : Concats(g, seqs, Len(seqs))
  BY ConcatsExist
<1>4. g = [i \in 1 .. Len(seqs) |-> IF i = 1 THEN seqs[i] ELSE g[i - 1] \o seqs[i]]
  BY <1>3 DEF Concats
<1>. HIDE DEF flat
<1>5. flat = [i \in 1 .. Len(seqs) |-> IF i = 1 THEN seqs[i] ELSE flat[i - 1] \o seqs[i]]
  BY <1>2, <1>4
<1>6. Concats(flat, seqs, Len(seqs))
  BY <1>5 DEF Concats
<1>. QED
  BY <1>1, <1>6

\* One resize of Grown, if it is due.
GrowOnce(d, hash_of, k) ==
    IF Chain(d, hash_of, k) = <<>> /\ Crowded(d)
    THEN dic_resize(d, hash_of, d.length * GrowthFactor)
    ELSE d

\* g[i] is the dictionary after the first i nodes were moved.
Moves(g, base, hash_of, nodes, n) ==
    /\ g = [i \in 0 .. n |-> g[i]]
    /\ \A i \in 0 .. n : g[i] = IF i = 0 THEN base ELSE dic_reinsert(g[i - 1], hash_of, nodes[i])

LEMMA MovesExist ==
    \A base, hash_of, nodes : \A n \in Nat : \E g : Moves(g, base, hash_of, nodes, n)
<1>. SUFFICES ASSUME NEW base, NEW hash_of, NEW nodes
              PROVE  \A n \in Nat : \E g : Moves(g, base, hash_of, nodes, n)
  OBVIOUS
<1>. DEFINE B == {n \in Nat : \E g : Moves(g, base, hash_of, nodes, n)}
<1>1. 0 \in B
  <2>. DEFINE g == [i \in 0 .. 0 |-> base]
  <2>1. \A i \in 0 .. 0 : i = 0 /\ g[i] = base
    OBVIOUS
  <2>2. g = [i \in 0 .. 0 |-> g[i]]
    OBVIOUS
  <2>. HIDE DEF g
  <2>3. Moves(g, base, hash_of, nodes, 0)
    BY <2>1, <2>2 DEF Moves
  <2>. QED
    BY <2>3
<1>2. ASSUME NEW n \in Nat, n \in B PROVE n + 1 \in B
  <2>1. PICK f : Moves(f, base, hash_of, nodes, n)
    BY <1>2
  <2>. DEFINE g == [i \in 0 .. n + 1 |->
                       IF i # n + 1 THEN f[i]
                       ELSE dic_reinsert(f[n], hash_of, nodes[n + 1])]
  <2>2. g[n + 1] = dic_reinsert(f[n], hash_of, nodes[n + 1]) /\ \A i \in 0 .. n : g[i] = f[i]
    OBVIOUS
  <2>3. g = [i \in 0 .. n + 1 |-> g[i]]
    OBVIOUS
  <2>. HIDE DEF g
  <2>4. ASSUME NEW i \in 0 .. n + 1
        PROVE  g[i] = IF i = 0 THEN base ELSE dic_reinsert(g[i - 1], hash_of, nodes[i])
    <3>1. CASE i = n + 1
      <4>1. i # 0 /\ i - 1 = n /\ n \in 0 .. n
        BY <3>1
      <4>. QED
        BY <2>2, <3>1, <4>1
    <3>2. CASE i # n + 1
      <4>1. i \in 0 .. n /\ (i # 0 => i - 1 \in 0 .. n)
        BY <3>2
      <4>2. g[i] = f[i] /\ (i # 0 => g[i - 1] = f[i - 1])
        BY <2>2, <4>1
      <4>3. f[i] = IF i = 0 THEN base ELSE dic_reinsert(f[i - 1], hash_of, nodes[i])
        BY <2>1, <4>1 DEF Moves
      <4>. QED
        BY <4>2, <4>3
    <3>. QED
      BY <3>1, <3>2
  <2>5. Moves(g, base, hash_of, nodes, n + 1)
    BY <2>3, <2>4 DEF Moves
  <2>. QED
    BY <2>5
<1>3. B = Nat
  <2>. HIDE DEF B
  <2>. QED
    BY <1>1, <1>2, Induct DEF B
<1>. QED
  BY <1>3

\* g[i] is the dictionary after the first i resizes.
Grows(g, base, hash_of, k, n) ==
    /\ g = [i \in 0 .. n |-> g[i]]
    /\ \A i \in 0 .. n : g[i] = IF i = 0 THEN base ELSE GrowOnce(g[i - 1], hash_of, k)

LEMMA GrowsExist ==
    \A base, hash_of, k : \A n \in Nat : \E g : Grows(g, base, hash_of, k, n)
<1>. SUFFICES ASSUME NEW base, NEW hash_of, NEW k
              PROVE  \A n \in Nat : \E g : Grows(g, base, hash_of, k, n)
  OBVIOUS
<1>. DEFINE B == {n \in Nat : \E g : Grows(g, base, hash_of, k, n)}
<1>1. 0 \in B
  <2>. DEFINE g == [i \in 0 .. 0 |-> base]
  <2>1. \A i \in 0 .. 0 : i = 0 /\ g[i] = base
    OBVIOUS
  <2>2. g = [i \in 0 .. 0 |-> g[i]]
    OBVIOUS
  <2>. HIDE DEF g
  <2>3. Grows(g, base, hash_of, k, 0)
    BY <2>1, <2>2 DEF Grows
  <2>. QED
    BY <2>3
<1>2. ASSUME NEW n \in Nat, n \in B PROVE n + 1 \in B
  <2>1. PICK f : Grows(f, base, hash_of, k, n)
    BY <1>2
  <2>. DEFINE g == [i \in 0 .. n + 1 |-> IF i # n + 1 THEN f[i] ELSE GrowOnce(f[n], hash_of, k)]
  <2>2. g[n + 1] = GrowOnce(f[n], hash_of, k) /\ \A i \in 0 .. n : g[i] = f[i]
    OBVIOUS
  <2>3. g = [i \in 0 .. n + 1 |-> g[i]]
    OBVIOUS
  <2>. HIDE DEF g
  <2>4. ASSUME NEW i \in 0 .. n + 1
        PROVE  g[i] = IF i = 0 THEN base ELSE GrowOnce(g[i - 1], hash_of, k)
    <3>1. CASE i = n + 1
      <4>1. i # 0 /\ i - 1 = n /\ n \in 0 .. n
        BY <3>1
      <4>. QED
        BY <2>2, <3>1, <4>1
    <3>2. CASE i # n + 1
      <4>1. i \in 0 .. n /\ (i # 0 => i - 1 \in 0 .. n)
        BY <3>2
      <4>2. g[i] = f[i] /\ (i # 0 => g[i - 1] = f[i - 1])
        BY <2>2, <4>1
      <4>3. f[i] = IF i = 0 THEN base ELSE GrowOnce(f[i - 1], hash_of, k)
        BY <2>1, <4>1 DEF Grows
      <4>. QED
        BY <4>2, <4>3
    <3>. QED
      BY <3>1, <3>2
  <2>5. Grows(g, base, hash_of, k, n + 1)
    BY <2>3, <2>4 DEF Grows
  <2>. QED
    BY <2>5
<1>3. B = Nat
  <2>. HIDE DEF B
  <2>. QED
    BY <1>1, <1>2, Induct DEF B
<1>. QED
  BY <1>3

LEMMA ResizeIs ==
    ASSUME NEW d, NEW hash_of, NEW newsize, NEW nodes, nodes = dic_forEach(d), Len(nodes) \in Nat
    PROVE  \E g : /\ Moves(g, [d EXCEPT !.length = newsize, !.table = Empty(newsize)],
                           hash_of, nodes, Len(nodes))
                  /\ dic_resize(d, hash_of, newsize) = g[Len(nodes)]
<1>. DEFINE base == [d EXCEPT !.length = newsize, !.table = Empty(newsize)]
            moved[n \in 0 .. Len(nodes)] ==
                IF n = 0 THEN base ELSE dic_reinsert(moved[n - 1], hash_of, nodes[n])
<1>1. dic_resize(d, hash_of, newsize) = moved[Len(nodes)]
  BY DEF dic_resize
<1>2. moved = CHOOSE h : h = [n \in 0 .. Len(nodes) |->
                                 IF n = 0 THEN base ELSE dic_reinsert(h[n - 1], hash_of, nodes[n])]
  OBVIOUS
<1>. HIDE DEF moved, base
<1>3. PICK g : Moves(g, base, hash_of, nodes, Len(nodes))
  BY MovesExist
<1>4. g = [n \in 0 .. Len(nodes) |->
               IF n = 0 THEN base ELSE dic_reinsert(g[n - 1], hash_of, nodes[n])]
  BY <1>3 DEF Moves
<1>5. moved = [n \in 0 .. Len(nodes) |->
                   IF n = 0 THEN base ELSE dic_reinsert(moved[n - 1], hash_of, nodes[n])]
  BY <1>2, <1>4
<1>6. Moves(moved, base, hash_of, nodes, Len(nodes))
  BY <1>5 DEF Moves
<1>. QED
  BY <1>1, <1>6 DEF base

LEMMA GrownIs ==
    ASSUME NEW d, NEW hash_of, NEW k, d.count \in Nat
    PROVE  \E g : Grows(g, d, hash_of, k, d.count) /\ Grown(d, hash_of, k) = g[d.count]
<1>. DEFINE grown[n \in 0 .. d.count] ==
                IF n = 0 THEN d
                ELSE IF Chain(grown[n - 1], hash_of, k) = <<>> /\ Crowded(grown[n - 1])
                THEN dic_resize(grown[n - 1], hash_of, grown[n - 1].length * GrowthFactor)
                ELSE grown[n - 1]
<1>1. Grown(d, hash_of, k) = grown[d.count]
  BY DEF Grown
<1>2. grown = CHOOSE h : h = [n \in 0 .. d.count |->
                IF n = 0 THEN d
                ELSE IF Chain(h[n - 1], hash_of, k) = <<>> /\ Crowded(h[n - 1])
                THEN dic_resize(h[n - 1], hash_of, h[n - 1].length * GrowthFactor)
                ELSE h[n - 1]]
  OBVIOUS
<1>. HIDE DEF grown
<1>3. PICK g : Grows(g, d, hash_of, k, d.count)
  BY GrowsExist
<1>4. g = [n \in 0 .. d.count |->
               IF n = 0 THEN d
               ELSE IF Chain(g[n - 1], hash_of, k) = <<>> /\ Crowded(g[n - 1])
               THEN dic_resize(g[n - 1], hash_of, g[n - 1].length * GrowthFactor)
               ELSE g[n - 1]]
  BY <1>3 DEF Grows, GrowOnce
<1>5. grown = [n \in 0 .. d.count |->
                   IF n = 0 THEN d
                   ELSE IF Chain(grown[n - 1], hash_of, k) = <<>> /\ Crowded(grown[n - 1])
                   THEN dic_resize(grown[n - 1], hash_of, grown[n - 1].length * GrowthFactor)
                   ELSE grown[n - 1]]
  BY <1>2, <1>4
<1>6. Grows(grown, d, hash_of, k, d.count)
  BY <1>5 DEF Grows, GrowOnce
<1>. QED
  BY <1>1, <1>6

-----------------------------------------------------------------------------
(* Tables *)

HashOk(hash_of) == \A k \in Keys : hash_of[k] \in Nat

\* Table t of length l has a node for each key of S, in the bucket of that key,
\* and no other node.
TableOk(t, l, hash_of, S) ==
    /\ l \in Nat \ {0} /\ S \subseteq Keys
    /\ t \in [0 .. l - 1 -> Seq(Keys)]
    /\ \A b \in 0 .. l - 1 : \A i \in 1 .. Len(t[b]) : t[b][i] \in S /\ hash_of[t[b][i]] % l = b
    /\ \A b \in 0 .. l - 1 : \A i, j \in 1 .. Len(t[b]) : t[b][i] = t[b][j] => i = j
    /\ \A k \in S : \E i \in 1 .. Len(t[hash_of[k] % l]) : t[hash_of[k] % l][i] = k

IsRecord(d) == d = [length |-> d.length, count |-> d.count, table |-> d.table, at |-> d.at]

DictOk(d, hash_of, S) ==
    /\ IsRecord(d) /\ d.count \in Nat
    /\ TableOk(d.table, d.length, hash_of, S)

LEMMA BucketRange ==
    ASSUME NEW hash_of, HashOk(hash_of), NEW k \in Keys, NEW l \in Nat \ {0}
    PROVE  hash_of[k] % l \in 0 .. l - 1
BY DEF HashOk

LEMMA EmptyOk ==
    ASSUME NEW l \in Nat \ {0}, NEW hash_of
    PROVE  TableOk(Empty(l), l, hash_of, {})
<1>1. /\ Empty(l) \in [0 .. l - 1 -> Seq(Keys)]
      /\ \A b \in 0 .. l - 1 : Len(Empty(l)[b]) = 0
  BY DEF Empty
<1>. QED
  BY <1>1 DEF TableOk

\* A node of its own in front of a chain.
LEMMA InFront ==
    ASSUME NEW s \in Seq(Keys), NEW k \in Keys
    PROVE  /\ <<k>> \o s \in Seq(Keys) /\ Len(<<k>> \o s) = Len(s) + 1
           /\ (<<k>> \o s)[1] = k
           /\ \A i \in 2 .. Len(s) + 1 : i - 1 \in 1 .. Len(s) /\ (<<k>> \o s)[i] = s[i - 1]
           /\ \A i \in 1 .. Len(s) : i + 1 \in 2 .. Len(s) + 1 /\ (<<k>> \o s)[i + 1] = s[i]
OBVIOUS

LEMMA InsertOk ==
    ASSUME NEW hash_of, HashOk(hash_of), NEW l, NEW t, NEW S, TableOk(t, l, hash_of, S),
           NEW k \in Keys \ S, NEW b, b = hash_of[k] % l
    PROVE  TableOk([t EXCEPT ![b] = <<k>> \o @], l, hash_of, S \cup {k})
<1>. DEFINE u == [t EXCEPT ![b] = <<k>> \o @]
<1>1. /\ l \in Nat \ {0} /\ S \subseteq Keys /\ t \in [0 .. l - 1 -> Seq(Keys)]
      /\ b \in 0 .. l - 1
  BY BucketRange DEF TableOk
<1>2. t[b] \in Seq(Keys) /\ k \in Keys /\ Len(t[b]) \in Nat
  BY <1>1
<1>3. /\ u \in [0 .. l - 1 -> Seq(Keys)]
      /\ u[b] = <<k>> \o t[b]
      /\ \A c \in 0 .. l - 1 : c # b => u[c] = t[c]
  BY <1>1, <1>2, InFront
<1>. HIDE DEF u
<1>4. /\ Len(u[b]) = Len(t[b]) + 1 /\ u[b][1] = k
      /\ \A i \in 2 .. Len(t[b]) + 1 : i - 1 \in 1 .. Len(t[b]) /\ u[b][i] = t[b][i - 1]
      /\ \A i \in 1 .. Len(t[b]) : i + 1 \in 2 .. Len(t[b]) + 1 /\ u[b][i + 1] = t[b][i]
  <2>1. PICK s, w : s = t[b] /\ w = u[b]
    OBVIOUS
  <2>2. s \in Seq(Keys) /\ w = <<k>> \o s
    BY <1>2, <1>3, <2>1
  <2>3. /\ Len(w) = Len(s) + 1 /\ w[1] = k
        /\ \A i \in 2 .. Len(s) + 1 : i - 1 \in 1 .. Len(s) /\ w[i] = s[i - 1]
        /\ \A i \in 1 .. Len(s) : i + 1 \in 2 .. Len(s) + 1 /\ w[i + 1] = s[i]
    BY <1>2, <2>2, InFront
  <2>. QED
    BY <2>1, <2>3, Zenon
<1>0. /\ \A i \in 1 .. Len(t[b]) : t[b][i] \in S /\ hash_of[t[b][i]] % l = b
      /\ \A i, j \in 1 .. Len(t[b]) : t[b][i] = t[b][j] => i = j
  BY <1>1 DEF TableOk
<1>5. ASSUME NEW c \in 0 .. l - 1, NEW i \in 1 .. Len(u[c])
      PROVE  u[c][i] \in S \cup {k} /\ hash_of[u[c][i]] % l = c
  <2>1. CASE c = b
    <3>1. CASE i = 1
      BY <1>4, <2>1, <3>1
    <3>2. CASE i # 1
      <4>1. i \in 2 .. Len(t[b]) + 1
        BY <1>2, <1>4, <2>1, <3>2
      <4>2. i - 1 \in 1 .. Len(t[b]) /\ u[b][i] = t[b][i - 1]
        BY <1>4, <4>1
      <4>3. t[b][i - 1] \in S /\ hash_of[t[b][i - 1]] % l = b
        BY <1>0, <4>2
      <4>. QED
        BY <2>1, <4>2, <4>3
    <3>. QED
      BY <3>1, <3>2
  <2>2. CASE c # b
    BY <1>3, <2>2 DEF TableOk
  <2>. QED
    BY <2>1, <2>2
<1>6. ASSUME NEW c \in 0 .. l - 1, NEW i \in 1 .. Len(u[c]), NEW j \in 1 .. Len(u[c]),
             u[c][i] = u[c][j]
      PROVE  i = j
  <2>1. CASE c = b
    <3>1. ASSUME NEW n \in 2 .. Len(t[b]) + 1 PROVE u[b][n] # k
      <4>1. n - 1 \in 1 .. Len(t[b]) /\ u[b][n] = t[b][n - 1]
        BY <1>4
      <4>2. t[b][n - 1] \in S
        BY <1>0, <4>1
      <4>. QED
        BY <4>1, <4>2
    <3>2. (i = 1 \/ i \in 2 .. Len(t[b]) + 1) /\ (j = 1 \/ j \in 2 .. Len(t[b]) + 1)
      BY <1>2, <1>4, <2>1
    <3>3. CASE i \in 2 .. Len(t[b]) + 1 /\ j \in 2 .. Len(t[b]) + 1
      <4>1. /\ i - 1 \in 1 .. Len(t[b]) /\ u[b][i] = t[b][i - 1]
            /\ j - 1 \in 1 .. Len(t[b]) /\ u[b][j] = t[b][j - 1]
        BY <1>4, <3>3
      <4>2. t[b][i - 1] = t[b][j - 1]
        BY <1>6, <2>1, <4>1
      <4>3. i - 1 = j - 1
        BY <1>0, <4>1, <4>2
      <4>. QED
        BY <3>3, <4>3
    <3>. QED
      BY <1>4, <1>6, <2>1, <3>1, <3>2, <3>3
  <2>2. CASE c # b
    BY <1>3, <1>6, <2>2 DEF TableOk
  <2>. QED
    BY <2>1, <2>2
<1>7. ASSUME NEW x \in S \cup {k}
      PROVE  \E i \in 1 .. Len(u[hash_of[x] % l]) : u[hash_of[x] % l][i] = x
  <2>1. PICK c : c = hash_of[x] % l
    OBVIOUS
  <2>2. c \in 0 .. l - 1
    BY <1>1, <2>1, BucketRange
  <2>3. CASE x = k
    <3>1. c = b /\ 1 \in 1 .. Len(u[c])
      BY <1>2, <1>4, <2>1, <2>3
    <3>. QED
      BY <1>4, <2>1, <2>3, <3>1
  <2>4. CASE x # k
    <3>1. PICK i \in 1 .. Len(t[c]) : t[c][i] = x
      BY <2>1, <2>4 DEF TableOk
    <3>2. CASE c = b
      <4>1. i + 1 \in 1 .. Len(u[b]) /\ u[b][i + 1] = x
        BY <1>2, <1>4, <3>1, <3>2
      <4>. QED
        BY <2>1, <3>2, <4>1
    <3>3. CASE c # b
      BY <1>3, <2>1, <2>2, <3>1, <3>3
    <3>. QED
      BY <3>2, <3>3
  <2>. QED
    BY <2>3, <2>4
<1>8. TableOk(u, l, hash_of, S \cup {k})
  <2>1. l \in Nat \ {0} /\ S \cup {k} \subseteq Keys /\ u \in [0 .. l - 1 -> Seq(Keys)]
    BY <1>1, <1>3
  <2>2. PICK T : T = S \cup {k}
    OBVIOUS
  <2>3. \A c \in 0 .. l - 1 : \A i \in 1 .. Len(u[c]) : u[c][i] \in T /\ hash_of[u[c][i]] % l = c
    BY <1>5, <2>2
  <2>4. \A c \in 0 .. l - 1 : \A i, j \in 1 .. Len(u[c]) : u[c][i] = u[c][j] => i = j
    BY <1>6
  <2>5. \A x \in T : \E i \in 1 .. Len(u[hash_of[x] % l]) : u[hash_of[x] % l][i] = x
    BY <1>7, <2>2
  <2>. QED
    BY <2>1, <2>2, <2>3, <2>4, <2>5 DEF TableOk
<1>. QED
  BY <1>8 DEF u

\* What the record is after one field is replaced, an insertion, and the start of
\* a resize.
Is(d, l, c, t, a) ==
    IsRecord(d) /\ d.length = l /\ d.count = c /\ d.table = t /\ d.at = a

LEMMA Fields ==
    ASSUME NEW l, NEW c, NEW t, NEW a
    PROVE  Is([length |-> l, count |-> c, table |-> t, at |-> a], l, c, t, a)
<1>1. PICK d : d = [length |-> l, count |-> c, table |-> t, at |-> a]
  OBVIOUS
<1>2. d.length = l /\ d.count = c /\ d.table = t /\ d.at = a
  BY <1>1
<1>. QED
  BY <1>1, <1>2 DEF Is, IsRecord

LEMMA Replaced ==
    ASSUME NEW d, IsRecord(d), NEW u
    PROVE  /\ Is([d EXCEPT !.table = u], d.length, d.count, u, d.at)
           /\ Is([d EXCEPT !.count = u], d.length, u, d.table, d.at)
           /\ Is([d EXCEPT !.length = u], u, d.count, d.table, d.at)
           /\ Is([d EXCEPT !.at = u], d.length, d.count, d.table, u)
<1>1. PICK l, c, t, a : l = d.length /\ c = d.count /\ t = d.table /\ a = d.at
  OBVIOUS
<1>2. d \in [length : {l}, count : {c}, table : {t}, at : {a}]
  BY <1>1 DEF IsRecord
<1>3. Is([d EXCEPT !.table = u], l, c, u, a)
  <2>1. PICK e : e = [length |-> l, count |-> c, table |-> u, at |-> a]
    OBVIOUS
  <2>2. Is(e, l, c, u, a)
    BY <2>1, Fields, Zenon
  <2>3. [d EXCEPT !.table = u] = e
    BY <1>2, <2>1
  <2>. QED
    BY <2>2, <2>3, Zenon
<1>4. Is([d EXCEPT !.count = u], l, u, t, a)
  <2>1. PICK e : e = [length |-> l, count |-> u, table |-> t, at |-> a]
    OBVIOUS
  <2>2. Is(e, l, u, t, a)
    BY <2>1, Fields, Zenon
  <2>3. [d EXCEPT !.count = u] = e
    BY <1>2, <2>1
  <2>. QED
    BY <2>2, <2>3, Zenon
<1>5. Is([d EXCEPT !.length = u], u, c, t, a)
  <2>1. PICK e : e = [length |-> u, count |-> c, table |-> t, at |-> a]
    OBVIOUS
  <2>2. Is(e, u, c, t, a)
    BY <2>1, Fields, Zenon
  <2>3. [d EXCEPT !.length = u] = e
    BY <1>2, <2>1
  <2>. QED
    BY <2>2, <2>3, Zenon
<1>6. Is([d EXCEPT !.at = u], l, c, t, u)
  <2>1. PICK e : e = [length |-> l, count |-> c, table |-> t, at |-> u]
    OBVIOUS
  <2>2. Is(e, l, c, t, u)
    BY <2>1, Fields, Zenon
  <2>3. [d EXCEPT !.at = u] = e
    BY <1>2, <2>1
  <2>. QED
    BY <2>2, <2>3, Zenon
<1>. QED
  BY <1>1, <1>3, <1>4, <1>5, <1>6, Zenon

LEMMA PointingIs ==
    ASSUME NEW d, IsRecord(d), NEW k
    PROVE  Is(Pointing(d, k), d.length, d.count, d.table, k)
BY Replaced, Zenon DEF Pointing

LEMMA PutIs ==
    ASSUME NEW d, IsRecord(d), NEW b, NEW k
    PROVE  Is(Put(d, b, k), d.length, d.count, [d.table EXCEPT ![b] = <<k>> \o @], k)
<1>. DEFINE u == [d.table EXCEPT ![b] = <<k>> \o @]
            f == [d EXCEPT !.table = u]
<1>1. [d EXCEPT !.table[b] = <<k>> \o @] = f
  BY Zenon
<1>2. Put(d, b, k) = Pointing(f, k)
  BY <1>1, Zenon DEF Put
<1>. HIDE DEF u
<1>3. Is(f, d.length, d.count, u, d.at)
  BY Replaced, Zenon
<1>. HIDE DEF f
<1>4. Is(Pointing(f, k), f.length, f.count, f.table, k)
  BY <1>3, PointingIs, Zenon DEF Is
<1>5. Is(Put(d, b, k), d.length, d.count, u, k)
  BY <1>2, <1>3, <1>4, Zenon DEF Is
<1>. QED
  BY <1>5 DEF u

\* Added for a key that is new.
LEMMA Counted ==
    ASSUME NEW d, IsRecord(d), NEW b, NEW k
    PROVE  Is([Put(d, b, k) EXCEPT !.count = @ + 1],
              d.length, d.count + 1, [d.table EXCEPT ![b] = <<k>> \o @], k)
<1>1. PICK f : f = Put(d, b, k)
  OBVIOUS
<1>2. PICK u : u = [d.table EXCEPT ![b] = <<k>> \o @]
  OBVIOUS
<1>3. Is(f, d.length, d.count, u, k)
  BY <1>1, <1>2, PutIs, Zenon
<1>4. IsRecord(f) => Is([f EXCEPT !.count = d.count + 1], f.length, d.count + 1, f.table, f.at)
  BY Replaced, Zenon
<1>5. [f EXCEPT !.count = @ + 1] = [f EXCEPT !.count = d.count + 1]
  BY <1>3, Zenon DEF Is
<1>. QED
  BY <1>1, <1>2, <1>3, <1>4, <1>5, Zenon DEF Is

LEMMA Restarted ==
    ASSUME NEW d, IsRecord(d), NEW m, NEW u
    PROVE  Is([d EXCEPT !.length = m, !.table = u], m, d.count, u, d.at)
<1>1. PICK f : f = [d EXCEPT !.length = m]
  OBVIOUS
<1>2. Is(f, m, d.count, d.table, d.at)
  BY <1>1, Replaced, Zenon
<1>3. IsRecord(f) => Is([f EXCEPT !.table = u], f.length, f.count, u, f.at)
  BY Replaced, Zenon
<1>4. [d EXCEPT !.length = m, !.table = u] = [f EXCEPT !.table = u]
  BY <1>1, Zenon
<1>. QED
  BY <1>2, <1>3, <1>4, Zenon DEF Is

LEMMA ReinsertOk ==
    ASSUME NEW hash_of, HashOk(hash_of), NEW d, NEW S, DictOk(d, hash_of, S), NEW k \in Keys \ S
    PROVE  /\ DictOk(dic_reinsert(d, hash_of, k), hash_of, S \cup {k})
           /\ dic_reinsert(d, hash_of, k).count = d.count
           /\ dic_reinsert(d, hash_of, k).length = d.length
<1>. DEFINE b == hash_of[k] % d.length
            u == [d.table EXCEPT ![b] = <<k>> \o @]
<1>1. dic_reinsert(d, hash_of, k) = Put(d, b, k) /\ IsRecord(d)
  BY DEF dic_reinsert, Bucket, DictOk
<1>2. TableOk(u, d.length, hash_of, S \cup {k})
  BY InsertOk DEF DictOk
<1>3. PICK e : e = dic_reinsert(d, hash_of, k)
  OBVIOUS
<1>. HIDE DEF b
<1>4. Is(e, d.length, d.count, u, k)
  BY <1>1, <1>3, PutIs, Zenon
<1>. HIDE DEF u
<1>. QED
  BY <1>2, <1>3, <1>4 DEF DictOk, Is

\* dic_find looks into the chain of the key only.
LEMMA FindIs ==
    ASSUME NEW hash_of, HashOk(hash_of), NEW d, NEW S, DictOk(d, hash_of, S), NEW k \in Keys
    PROVE  dic_find(d, hash_of, k) <=> k \in S
<1>1. /\ d.length \in Nat \ {0} /\ d.table \in [0 .. d.length - 1 -> Seq(Keys)]
      /\ hash_of[k] % d.length \in 0 .. d.length - 1
  BY BucketRange DEF DictOk, TableOk
<1>2. dic_find(d, hash_of, k) => k \in S
  BY <1>1 DEF dic_find, Chain, Bucket, DictOk, TableOk
<1>3. k \in S => dic_find(d, hash_of, k)
  BY DEF dic_find, Chain, Bucket, DictOk, TableOk
<1>. QED
  BY <1>2, <1>3

LEMMA AddedOk ==
    ASSUME NEW hash_of, HashOk(hash_of), NEW d, NEW S, DictOk(d, hash_of, S), NEW k \in Keys
    PROVE  /\ DictOk(Added(d, hash_of, k), hash_of, S \cup {k})
           /\ Added(d, hash_of, k).count = IF k \in S THEN d.count ELSE d.count + 1
           /\ Added(d, hash_of, k).at = k
<1>1. CASE k \in S
  <2>1. Added(d, hash_of, k) = Pointing(d, k) /\ S \cup {k} = S
    BY <1>1, FindIs DEF Added, Present
  <2>2. PICK e : e = Pointing(d, k)
    OBVIOUS
  <2>3. Is(e, d.length, d.count, d.table, k)
    BY <2>2, PointingIs, Zenon DEF DictOk
  <2>. QED
    BY <1>1, <2>1, <2>2, <2>3 DEF DictOk, Is
<1>2. CASE k \notin S
  <2>. DEFINE b == hash_of[k] % d.length
              u == [d.table EXCEPT ![b] = <<k>> \o @]
  <2>1. Added(d, hash_of, k) = [Put(d, b, k) EXCEPT !.count = @ + 1] /\ IsRecord(d)
    BY <1>2, FindIs DEF Added, Present, Bucket, DictOk
  <2>2. TableOk(u, d.length, hash_of, S \cup {k})
    BY <1>2, InsertOk DEF DictOk
  <2>3. PICK e : e = Added(d, hash_of, k)
    OBVIOUS
  <2>. HIDE DEF b
  <2>4. Is(e, d.length, d.count + 1, u, k)
    BY <2>1, <2>3, Counted, Zenon
  <2>. HIDE DEF u
  <2>5. d.count + 1 \in Nat
    BY DEF DictOk
  <2>. QED
    BY <1>2, <2>2, <2>3, <2>4, <2>5 DEF DictOk, Is
<1>. QED
  BY <1>1, <1>2

-----------------------------------------------------------------------------
(* Iteration *)

\* s is an enumeration of X without repetition.
Listing(s, X) ==
    /\ s \in Seq(Keys)
    /\ \A i \in 1 .. Len(s) : s[i] \in X
    /\ \A i, j \in 1 .. Len(s) : s[i] = s[j] => i = j
    /\ \A k \in X : \E i \in 1 .. Len(s) : s[i] = k

LEMMA ListingConcat ==
    ASSUME NEW s, NEW t, NEW X, NEW Y, Listing(s, X), Listing(t, Y), X \cap Y = {}
    PROVE  Listing(s \o t, X \cup Y)
<1>1. s \in Seq(Keys) /\ t \in Seq(Keys) /\ Len(s) \in Nat /\ Len(t) \in Nat
  BY DEF Listing
<1>2. PICK u : u = s \o t
  OBVIOUS
<1>3. /\ u \in Seq(Keys) /\ Len(u) = Len(s) + Len(t)
      /\ \A i \in 1 .. Len(s) : i \in 1 .. Len(u) /\ u[i] = s[i]
      /\ \A i \in 1 .. Len(t) : Len(s) + i \in 1 .. Len(u) /\ u[Len(s) + i] = t[i]
  BY <1>1, <1>2
<1>4. ASSUME NEW i \in 1 .. Len(u)
      PROVE  \/ i \in 1 .. Len(s) /\ u[i] = s[i] /\ u[i] \in X
             \/ /\ i - Len(s) \in 1 .. Len(t) /\ u[i] = t[i - Len(s)] /\ u[i] \in Y
  <2>1. CASE i <= Len(s)
    BY <1>1, <1>3, <2>1 DEF Listing
  <2>2. CASE i > Len(s)
    <3>1. i - Len(s) \in 1 .. Len(t) /\ i = Len(s) + (i - Len(s))
      BY <1>1, <1>3, <2>2
    <3>2. u[i] = t[i - Len(s)]
      BY <1>3, <3>1
    <3>. QED
      BY <3>1, <3>2 DEF Listing
  <2>. QED
    BY <1>1, <2>1, <2>2
<1>5. ASSUME NEW i \in 1 .. Len(u), NEW j \in 1 .. Len(u), u[i] = u[j]
      PROVE  i = j
  <2>1. CASE i \in 1 .. Len(s) /\ j \in 1 .. Len(s) /\ u[i] = s[i] /\ u[j] = s[j]
    BY <1>5, <2>1 DEF Listing
  <2>2. CASE /\ i - Len(s) \in 1 .. Len(t) /\ j - Len(s) \in 1 .. Len(t)
             /\ u[i] = t[i - Len(s)] /\ u[j] = t[j - Len(s)]
    <3>1. i - Len(s) = j - Len(s)
      BY <1>5, <2>2 DEF Listing
    <3>. QED
      BY <1>1, <3>1
  <2>3. CASE u[i] \in X /\ u[j] \in Y
    BY <1>5, <2>3
  <2>4. CASE u[i] \in Y /\ u[j] \in X
    BY <1>5, <2>4
  <2>. QED
    BY <1>4, <2>1, <2>2, <2>3, <2>4
<1>6. ASSUME NEW k \in X \cup Y PROVE \E i \in 1 .. Len(u) : u[i] = k
  <2>1. CASE k \in X
    <3>1. PICK i \in 1 .. Len(s) : s[i] = k
      BY <2>1 DEF Listing
    <3>. QED
      BY <1>3, <3>1
  <2>2. CASE k \in Y
    <3>1. PICK i \in 1 .. Len(t) : t[i] = k
      BY <2>2 DEF Listing
    <3>. QED
      BY <1>3, <3>1
  <2>. QED
    BY <2>1, <2>2
<1>7. \A i \in 1 .. Len(u) : u[i] \in X \cup Y
  BY <1>4
<1>8. Listing(u, X \cup Y)
  BY <1>3, <1>5, <1>6, <1>7 DEF Listing
<1>. QED
  BY <1>2, <1>8

\* What is enumerated is finite and has as many elements as the sequence is long.
LEMMA ListingCounts ==
    ASSUME NEW s, NEW X, Listing(s, X)
    PROVE  ToSet(s) = X /\ IsFiniteSet(X) /\ Cardinality(X) = Len(s)
<1>1. s \in Seq(Keys) /\ Len(s) \in Nat /\ s \in [1 .. Len(s) -> X]
  <2>1. s \in Seq(Keys) /\ Len(s) \in Nat
    BY DEF Listing
  <2>2. DOMAIN s = 1 .. Len(s) /\ s = [i \in 1 .. Len(s) |-> s[i]]
    BY <2>1
  <2>. QED
    BY <2>1, <2>2 DEF Listing
<1>2. s \in Bijection(1 .. Len(s), X)
  BY <1>1 DEF Listing, Bijection, Injection, Surjection, IsInjective
<1>3. ExistsBijection(1 .. Len(s), X)
  BY <1>2 DEF ExistsBijection
<1>4. IsFiniteSet(1 .. Len(s)) /\ Cardinality(1 .. Len(s)) = Len(s)
  BY <1>1, FS_Interval
<1>5. ToSet(s) = X
  BY <1>1 DEF ToSet, Listing
<1>. QED
  BY <1>3, <1>4, <1>5, FS_Bijection

\* dic_forEach visits every node once.
LEMMA ForEachIs ==
    ASSUME NEW hash_of, HashOk(hash_of), NEW d, NEW S, DictOk(d, hash_of, S)
    PROVE  Listing(dic_forEach(d), S)
<1>. DEFINE seqs == [b \in 1 .. d.length |-> d.table[b - 1]]
            Part(m) == {k \in S : hash_of[k] % d.length < m}
            Row(b) == {k \in S : hash_of[k] % d.length = b}
<1>1. /\ d.length \in Nat \ {0} /\ S \subseteq Keys
      /\ d.table \in [0 .. d.length - 1 -> Seq(Keys)]
  BY DEF DictOk, TableOk
<1>2. \A k \in S : hash_of[k] % d.length \in 0 .. d.length - 1
  BY <1>1, BucketRange
<1>3. Len(seqs) = d.length
  BY <1>1
<1>4. PICK f : Concats(f, seqs, d.length) /\ FlattenSeq(seqs) = f[d.length]
  <2>. HIDE DEF seqs
  <2>. QED
    BY <1>1, <1>3, FlattenIs
<1>5. dic_forEach(d) = f[d.length]
  BY <1>4 DEF dic_forEach
<1>6. \A i \in 1 .. d.length : i - 1 \in 0 .. d.length - 1 /\ seqs[i] = d.table[i - 1]
  BY <1>1
<1>7. ASSUME NEW b \in 0 .. d.length - 1
      PROVE  Listing(d.table[b], Row(b))
  <2>1. d.table[b] \in Seq(Keys)
    BY <1>1
  <2>2. /\ \A i \in 1 .. Len(d.table[b]) : d.table[b][i] \in Row(b)
        /\ \A i, j \in 1 .. Len(d.table[b]) : d.table[b][i] = d.table[b][j] => i = j
        /\ \A k \in Row(b) : \E i \in 1 .. Len(d.table[b]) : d.table[b][i] = k
    BY DEF DictOk, TableOk
  <2>. HIDE DEF Row
  <2>. QED
    BY <2>1, <2>2 DEF Listing
<1>. DEFINE B == {n \in Nat : n + 1 <= d.length => Listing(f[n + 1], Part(n + 1))}
<1>8. 0 \in B
  <2>0. 1 \in 1 .. d.length /\ 1 - 1 = 0 /\ 0 \in 0 .. d.length - 1
    BY <1>1
  <2>1. f[1] = seqs[1] /\ seqs[1] = d.table[0]
    <3>. HIDE DEF seqs
    <3>1. seqs[1] = d.table[0]
      BY <1>6, <2>0
    <3>2. f[1] = seqs[1]
      BY <1>4, <2>0 DEF Concats
    <3>. QED
      BY <3>1, <3>2
  <2>2. Part(1) = Row(0)
    BY <1>2
  <2>. HIDE DEF Part, Row, seqs
  <2>3. Listing(f[1], Part(1))
    BY <1>7, <2>0, <2>1, <2>2
  <2>. QED
    BY <2>3
<1>9. ASSUME NEW n \in Nat, n \in B PROVE n + 1 \in B
  <2>. SUFFICES ASSUME n + 2 <= d.length PROVE Listing(f[n + 2], Part(n + 2))
    <3>. HIDE DEF Part
    <3>. QED
      OBVIOUS
  <2>1. /\ n + 2 \in 1 .. d.length /\ n + 2 # 1 /\ n + 1 \in 0 .. d.length - 1
        /\ n + 1 <= d.length /\ (n + 2) - 1 = n + 1
    BY <1>1
  <2>2. f[n + 2] = f[n + 1] \o d.table[n + 1]
    <3>. HIDE DEF seqs
    <3>1. seqs[n + 2] = d.table[n + 1]
      BY <1>6, <2>1
    <3>2. f[n + 2] = f[(n + 2) - 1] \o seqs[n + 2]
      BY <1>4, <2>1 DEF Concats
    <3>. QED
      BY <2>1, <3>1, <3>2
  <2>3. Part(n + 2) = Part(n + 1) \cup Row(n + 1) /\ Part(n + 1) \cap Row(n + 1) = {}
    BY <1>2
  <2>4. Listing(f[n + 1], Part(n + 1))
    <3>. HIDE DEF Part
    <3>. QED
      BY <1>9, <2>1
  <2>5. Listing(d.table[n + 1], Row(n + 1))
    BY <1>7, <2>1
  <2>. HIDE DEF Part, Row
  <2>6. Listing(f[n + 1] \o d.table[n + 1], Part(n + 1) \cup Row(n + 1))
    BY <2>3, <2>4, <2>5, ListingConcat
  <2>. QED
    BY <2>2, <2>3, <2>6
<1>10. B = Nat
  <2>. HIDE DEF B
  <2>. QED
    BY <1>8, <1>9, Induct DEF B
<1>11. d.length - 1 \in Nat /\ (d.length - 1) + 1 = d.length
  BY <1>1
<1>12. Listing(f[d.length], Part(d.length))
  <2>. HIDE DEF Part
  <2>1. d.length - 1 \in B
    BY <1>10, <1>11
  <2>2. (d.length - 1) + 1 <= d.length => Listing(f[(d.length - 1) + 1], Part((d.length - 1) + 1))
    BY <2>1
  <2>3. d.length <= d.length
    BY <1>1
  <2>. QED
    BY <1>11, <2>2, <2>3
<1>13. Part(d.length) = S
  <2>1. \A k \in S : hash_of[k] % d.length < d.length
    BY <1>1, <1>2
  <2>. QED
    BY <2>1
<1>. QED
  BY <1>5, <1>12, <1>13

-----------------------------------------------------------------------------
(* Growing *)

\* A resize loses no node and makes none.
LEMMA ResizeOk ==
    ASSUME NEW hash_of, HashOk(hash_of), NEW d, NEW S, DictOk(d, hash_of, S), NEW m \in Nat \ {0}
    PROVE  /\ DictOk(dic_resize(d, hash_of, m), hash_of, S)
           /\ dic_resize(d, hash_of, m).count = d.count
           /\ dic_resize(d, hash_of, m).length = m
<1>1. PICK nodes : nodes = dic_forEach(d)
  OBVIOUS
<1>2. Listing(nodes, S)
  BY <1>1, ForEachIs
<1>3. nodes \in Seq(Keys) /\ Len(nodes) \in Nat
  BY <1>2 DEF Listing
<1>4. PICK base : base = [d EXCEPT !.length = m, !.table = Empty(m)]
  OBVIOUS
<1>5. PICK g : /\ Moves(g, base, hash_of, nodes, Len(nodes))
               /\ dic_resize(d, hash_of, m) = g[Len(nodes)]
  BY <1>1, <1>3, <1>4, ResizeIs
<1>6. DictOk(base, hash_of, {}) /\ base.count = d.count /\ base.length = m
  <2>1. Is(base, m, d.count, Empty(m), d.at)
    BY <1>4, Restarted, Zenon DEF DictOk
  <2>2. IsRecord(base) /\ base.length = m /\ base.count = d.count /\ base.table = Empty(m)
    BY <2>1 DEF Is
  <2>3. TableOk(base.table, base.length, hash_of, {})
    BY <2>2, EmptyOk
  <2>4. d.count \in Nat
    BY DEF DictOk
  <2>. QED
    BY <2>2, <2>3, <2>4 DEF DictOk
<1>. DEFINE Moved(n) == {nodes[i] : i \in 1 .. n}
            Good(n) == DictOk(g[n], hash_of, Moved(n)) /\ g[n].count = d.count /\ g[n].length = m
            B == {n \in Nat : n <= Len(nodes) => Good(n)}
<1>7. 0 \in B
  <2>1. 0 \in 0 .. Len(nodes) /\ Moved(0) = {}
    BY <1>3
  <2>2. g[0] = base
    BY <1>5, <2>1 DEF Moves
  <2>. HIDE DEF Moved
  <2>. QED
    BY <1>6, <2>1, <2>2
<1>8. ASSUME NEW n \in Nat, n \in B PROVE n + 1 \in B
  <2>. SUFFICES ASSUME n + 1 <= Len(nodes) PROVE Good(n + 1)
    <3>. HIDE DEF Good
    <3>. QED
      OBVIOUS
  <2>1. /\ n + 1 \in 0 .. Len(nodes) /\ n + 1 # 0 /\ (n + 1) - 1 = n /\ n <= Len(nodes)
        /\ n + 1 \in 1 .. Len(nodes)
    BY <1>3
  <2>2. Good(n)
    <3>. HIDE DEF Good
    <3>. QED
      BY <1>8, <2>1
  <2>3. g[n + 1] = dic_reinsert(g[n], hash_of, nodes[n + 1])
    BY <1>5, <2>1 DEF Moves
  <2>4. nodes[n + 1] \in Keys
    BY <1>3, <2>1
  <2>5. nodes[n + 1] \notin Moved(n)
    <3>1. SUFFICES ASSUME NEW i \in 1 .. n, nodes[i] = nodes[n + 1] PROVE FALSE
      OBVIOUS
    <3>2. i \in 1 .. Len(nodes) /\ i # n + 1
      BY <1>3, <2>1
    <3>. QED
      BY <1>2, <2>1, <3>1, <3>2 DEF Listing
  <2>6. Moved(n + 1) = Moved(n) \cup {nodes[n + 1]}
    <3>1. \A i \in 1 .. n + 1 : i \in 1 .. n \/ i = n + 1
      OBVIOUS
    <3>2. \A i \in 1 .. n : i \in 1 .. n + 1
      OBVIOUS
    <3>3. n + 1 \in 1 .. n + 1
      OBVIOUS
    <3>. QED
      BY <3>1, <3>2, <3>3
  <2>. HIDE DEF Moved
  <2>7. DictOk(g[n], hash_of, Moved(n)) /\ nodes[n + 1] \in Keys \ Moved(n)
    BY <2>2, <2>4, <2>5
  <2>8. /\ DictOk(g[n + 1], hash_of, Moved(n) \cup {nodes[n + 1]})
        /\ g[n + 1].count = g[n].count /\ g[n + 1].length = g[n].length
    <3>1. PICK e, x, T : e = g[n] /\ x = nodes[n + 1] /\ T = Moved(n)
      OBVIOUS
    <3>2. DictOk(e, hash_of, T) /\ x \in Keys \ T
      BY <2>7, <3>1
    <3>3. /\ DictOk(dic_reinsert(e, hash_of, x), hash_of, T \cup {x})
          /\ dic_reinsert(e, hash_of, x).count = e.count
          /\ dic_reinsert(e, hash_of, x).length = e.length
      BY <3>2, ReinsertOk
    <3>. QED
      BY <2>3, <3>1, <3>3
  <2>. QED
    BY <2>2, <2>6, <2>8
<1>9. B = Nat
  <2>. HIDE DEF B
  <2>. QED
    BY <1>7, <1>8, Induct DEF B
<1>10. Good(Len(nodes))
  <2>. HIDE DEF Good
  <2>1. Len(nodes) \in B /\ Len(nodes) <= Len(nodes)
    BY <1>3, <1>9
  <2>. QED
    BY <2>1
<1>11. Moved(Len(nodes)) = S
  BY <1>2 DEF Listing
<1>. QED
  BY <1>5, <1>10, <1>11

LEMMA GrowOnceOk ==
    ASSUME NEW hash_of, HashOk(hash_of), NEW d, NEW S, DictOk(d, hash_of, S), NEW k
    PROVE  DictOk(GrowOnce(d, hash_of, k), hash_of, S) /\ GrowOnce(d, hash_of, k).count = d.count
<1>1. d.length * GrowthFactor \in Nat \ {0}
  <2>1. d.length \in Nat \ {0} /\ GrowthFactor \in Nat \ {0}
    BY DictConstantsOk DEF DictOk, TableOk
  <2>. QED
    BY <2>1
<1>. QED
  BY <1>1, ResizeOk DEF GrowOnce

LEMMA GrownOk ==
    ASSUME NEW hash_of, HashOk(hash_of), NEW d, NEW S, DictOk(d, hash_of, S), NEW k
    PROVE  DictOk(Grown(d, hash_of, k), hash_of, S) /\ Grown(d, hash_of, k).count = d.count
<1>1. d.count \in Nat
  BY DEF DictOk
<1>2. PICK g : Grows(g, d, hash_of, k, d.count) /\ Grown(d, hash_of, k) = g[d.count]
  BY <1>1, GrownIs
<1>. DEFINE Good(n) == DictOk(g[n], hash_of, S) /\ g[n].count = d.count
            B == {n \in Nat : n <= d.count => Good(n)}
<1>3. 0 \in B
  <2>1. 0 \in 0 .. d.count
    BY <1>1
  <2>2. g[0] = d
    BY <1>2, <2>1 DEF Grows
  <2>. QED
    BY <2>2
<1>4. ASSUME NEW n \in Nat, n \in B PROVE n + 1 \in B
  <2>. SUFFICES ASSUME n + 1 <= d.count PROVE Good(n + 1)
    <3>. HIDE DEF Good
    <3>. QED
      OBVIOUS
  <2>1. n + 1 \in 0 .. d.count /\ n + 1 # 0 /\ (n + 1) - 1 = n /\ n <= d.count
    BY <1>1
  <2>2. Good(n)
    <3>. HIDE DEF Good
    <3>. QED
      BY <1>4, <2>1
  <2>3. g[n + 1] = GrowOnce(g[n], hash_of, k)
    BY <1>2, <2>1 DEF Grows
  <2>. QED
    BY <2>2, <2>3, GrowOnceOk
<1>5. B = Nat
  <2>. HIDE DEF B
  <2>. QED
    BY <1>3, <1>4, Induct DEF B
<1>6. Good(d.count)
  <2>. HIDE DEF Good
  <2>1. d.count \in B /\ d.count <= d.count
    BY <1>1, <1>5
  <2>. QED
    BY <2>1
<1>. QED
  BY <1>2, <1>6

\* The bound of Grown is never reached with a resize still due: dic_add does as
\* many resizes as the code.
THEOREM GrowthEnds ==
    ASSUME NEW hash_of, HashOk(hash_of), NEW d, NEW S, DictOk(d, hash_of, S), NEW k
    PROVE  ~ (/\ Chain(Grown(d, hash_of, k), hash_of, k) = <<>>
              /\ Crowded(Grown(d, hash_of, k)))
<1>1. d.count \in Nat /\ d.length \in Nat \ {0}
  BY DEF DictOk, TableOk
<1>2. PICK g : Grows(g, d, hash_of, k, d.count) /\ Grown(d, hash_of, k) = g[d.count]
  BY <1>1, GrownIs
<1>. DEFINE Due(e) == Chain(e, hash_of, k) = <<>> /\ Crowded(e)
            Good(n) == /\ DictOk(g[n], hash_of, S) /\ g[n].count = d.count
                       /\ Due(g[n]) => g[n].length >= 2 * n
            B == {n \in Nat : n <= d.count => Good(n)}
<1>3. 0 \in B
  <2>1. 0 \in 0 .. d.count
    BY <1>1
  <2>2. g[0] = d
    BY <1>2, <2>1 DEF Grows
  <2>. QED
    BY <1>1, <2>2
<1>4. ASSUME NEW n \in Nat, n \in B PROVE n + 1 \in B
  <2>. SUFFICES ASSUME n + 1 <= d.count PROVE Good(n + 1)
    <3>. HIDE DEF Good
    <3>. QED
      OBVIOUS
  <2>1. n + 1 \in 0 .. d.count /\ n + 1 # 0 /\ (n + 1) - 1 = n /\ n <= d.count
    BY <1>1
  <2>2. Good(n)
    <3>. HIDE DEF Good
    <3>. QED
      BY <1>4, <2>1
  <2>3. g[n + 1] = GrowOnce(g[n], hash_of, k)
    BY <1>2, <2>1 DEF Grows
  <2>4. DictOk(g[n + 1], hash_of, S) /\ g[n + 1].count = d.count
    BY <2>2, <2>3, GrowOnceOk
  <2>5. Due(g[n + 1]) => g[n + 1].length >= 2 * (n + 1)
    <3>1. CASE Due(g[n])
      <4>1. /\ g[n].length \in Nat /\ GrowthFactor \in Nat /\ GrowthFactor >= 2
            /\ g[n].length >= 2 * n /\ g[n].length # 0
        <5>1. GrowthFactor \in Nat /\ GrowthFactor >= 2
          BY DictConstantsOk
        <5>2. g[n].length \in Nat \ {0}
          BY <2>2 DEF DictOk, TableOk
        <5>3. g[n].length >= 2 * n
          BY <2>2, <3>1
        <5>. QED
          BY <5>1, <5>2, <5>3
      <4>2. PICK m : m = g[n].length * GrowthFactor
        OBVIOUS
      <4>3. m \in Nat \ {0} /\ m >= 2 * g[n].length
        <5>1. \A x, y \in Nat : y >= 2 => x * y >= 2 * x
          OBVIOUS
        <5>2. \A x, y \in Nat : x * y \in Nat
          OBVIOUS
        <5>. QED
          BY <4>1, <4>2, <5>1, <5>2
      <4>4. g[n + 1] = dic_resize(g[n], hash_of, m)
        BY <2>3, <3>1, <4>2 DEF GrowOnce
      <4>5. g[n + 1].length = m
        BY <2>2, <4>3, <4>4, ResizeOk
      <4>. QED
        BY <4>1, <4>3, <4>5
    <3>2. CASE ~ Due(g[n])
      BY <2>3, <3>2 DEF GrowOnce
    <3>. QED
      BY <3>1, <3>2
  <2>. QED
    BY <2>4, <2>5
<1>5. B = Nat
  <2>. HIDE DEF B
  <2>. QED
    BY <1>3, <1>4, Induct DEF B
<1>6. Good(d.count)
  <2>. HIDE DEF Good
  <2>1. d.count \in B /\ d.count <= d.count
    BY <1>1, <1>5
  <2>. QED
    BY <2>1
<1>7. Due(g[d.count]) => FALSE
  <2>1. g[d.count].length \in Nat
    BY <1>6 DEF DictOk, TableOk
  <2>. QED
    BY <1>1, <1>6, <2>1 DEF Crowded
<1>. QED
  BY <1>2, <1>7

LEMMA AddOk ==
    ASSUME NEW hash_of, HashOk(hash_of), NEW d, NEW S, DictOk(d, hash_of, S), NEW k \in Keys
    PROVE  /\ DictOk(dic_add(d, hash_of, k), hash_of, S \cup {k})
           /\ dic_add(d, hash_of, k).count = IF k \in S THEN d.count ELSE d.count + 1
           /\ dic_add(d, hash_of, k).at = k
BY GrownOk, AddedOk DEF dic_add

LEMMA NewOk ==
    ASSUME NEW hash_of
    PROVE  DictOk(dic_new, hash_of, {}) /\ dic_new.count = 0
<1>1. InitialLength \in Nat \ {0}
  BY DictConstantsOk
<1>2. TableOk(Empty(InitialLength), InitialLength, hash_of, {})
  BY <1>1, EmptyOk
<1>3. PICK e : e = dic_new
  OBVIOUS
<1>4. Is(e, InitialLength, 0, Empty(InitialLength), NoKey)
  BY <1>3, Fields, Zenon DEF dic_new
<1>. QED
  BY <1>2, <1>3, <1>4 DEF DictOk, Is

-----------------------------------------------------------------------------
(* The write set *)

TypeInv ==
    /\ hash \in [Keys -> Hashes]
    /\ value \in [Keys -> Nat] /\ mem \in [Keys -> Nat] /\ last \in [Keys -> Nat]
    /\ writes \in Nat
    /\ todo \in Seq(Keys)
    /\ phase \in {"run", "commit", "destroy", "done"}

DicInv ==
    phase # "done" =>
        /\ DictOk(dic, hash, Written)
        /\ IsFiniteSet(Written) /\ dic.count = Cardinality(Written)

MemInv ==
    /\ phase = "run" => \A k \in Keys : mem[k] = NULL
    /\ phase = "commit" => \A k \in Keys : k \notin ToSet(todo) => mem[k] = last[k]

\* The node of a word holds its last buffer in every phase; the write-back has
\* done the words it does not still have to visit.
Inv == TypeInv /\ DicInv /\ MemInv /\ value = last /\ AllOrNothing

LEMMA HashesOk ==
    ASSUME TypeInv
    PROVE  HashOk(hash)
BY WriteSetConstantsOk DEF TypeInv, HashOk

LEMMA InvInit == Init => Inv
<1>. SUFFICES ASSUME Init PROVE Inv
  OBVIOUS
<1>. USE DEF Init
<1>1. TypeInv
  BY DEF TypeInv, NULL
<1>2. Written = {}
  BY DEF Written
<1>3. DicInv
  BY <1>2, NewOk, FS_EmptySet DEF DicInv
<1>4. MemInv /\ value = last /\ AllOrNothing
  BY DEF MemInv, AllOrNothing
<1>. QED
  BY <1>1, <1>3, <1>4 DEF Inv

\* What a pass over the dictionary starts with.
LEMMA PassStarts ==
    ASSUME Inv, phase # "done"
    PROVE  /\ dic_forEach(dic) \in Seq(Keys)
           /\ ToSet(dic_forEach(dic)) = Written
           /\ Len(dic_forEach(dic)) = Cardinality(Written)
<1>1. DictOk(dic, hash, Written) /\ HashOk(hash)
  BY HashesOk DEF Inv, DicInv
<1>2. Listing(dic_forEach(dic), Written)
  BY <1>1, ForEachIs
<1>. QED
  BY <1>2, ListingCounts DEF Listing

\* One step of a pass.
LEMMA PassSteps ==
    ASSUME NEW s \in Seq(Keys), s # <<>>
    PROVE  /\ Head(s) \in Keys /\ Tail(s) \in Seq(Keys)
           /\ ToSet(s) \subseteq {Head(s)} \cup ToSet(Tail(s))
<1>1. /\ Len(s) \in Nat \ {0} /\ Head(s) = s[1] /\ Head(s) \in Keys
      /\ Tail(s) \in Seq(Keys) /\ Len(Tail(s)) = Len(s) - 1
      /\ \A i \in 1 .. Len(s) - 1 : Tail(s)[i] = s[i + 1]
  OBVIOUS
<1>2. DOMAIN s = 1 .. Len(s) /\ DOMAIN Tail(s) = 1 .. Len(s) - 1
  BY <1>1
<1>3. ASSUME NEW i \in 1 .. Len(s) PROVE s[i] \in {Head(s)} \cup ToSet(Tail(s))
  <2>1. CASE i = 1
    BY <1>1, <2>1
  <2>2. CASE i # 1
    <3>1. i - 1 \in 1 .. Len(s) - 1 /\ (i - 1) + 1 = i
      BY <1>1, <2>2
    <3>2. Tail(s)[i - 1] = s[i]
      BY <1>1, <3>1
    <3>. QED
      BY <1>2, <3>1, <3>2 DEF ToSet
  <2>. QED
    BY <2>1, <2>2
<1>. QED
  BY <1>1, <1>2, <1>3 DEF ToSet

LEMMA InvWrite ==
    ASSUME Inv, NEW k \in Keys, tm_write(k)
    PROVE  Inv'
<1>. USE DEF tm_write
<1>1. /\ TypeInv /\ phase = "run" /\ phase' = "run" /\ hash' = hash
      /\ todo' = todo /\ mem' = mem
      /\ DictOk(dic, hash, Written) /\ HashOk(hash)
      /\ IsFiniteSet(Written) /\ dic.count = Cardinality(Written)
  BY HashesOk DEF Inv, DicInv
<1>2. dic' = dic_add(dic, hash, k)
  OBVIOUS
<1>3. /\ DictOk(dic', hash, Written \cup {k}) /\ dic'.at = k
      /\ dic'.count = IF k \in Written THEN dic.count ELSE dic.count + 1
  BY <1>1, <1>2, AddOk
<1>4. /\ value' = [value EXCEPT ![k] = writes + 1] /\ last' = [last EXCEPT ![k] = writes + 1]
      /\ writes' = writes + 1
  BY <1>3
<1>5. TypeInv'
  <2>1. /\ writes + 1 \in Nat
        /\ [value EXCEPT ![k] = writes + 1] \in [Keys -> Nat]
        /\ [last EXCEPT ![k] = writes + 1] \in [Keys -> Nat]
    BY <1>1 DEF TypeInv
  <2>. QED
    BY <1>1, <1>4, <2>1 DEF TypeInv
<1>6. Written' = Written \cup {k}
  BY <1>1, <1>4 DEF Written, TypeInv, NULL
<1>7. DicInv'
  BY <1>1, <1>3, <1>6, FS_AddElement DEF DicInv
<1>8. MemInv' /\ AllOrNothing' /\ value' = last'
  BY <1>1, <1>4 DEF Inv, MemInv, AllOrNothing
<1>. QED
  BY <1>5, <1>7, <1>8 DEF Inv

LEMMA InvRest ==
    ASSUME Inv, [Next]_vars, ~ \E k \in Keys : tm_write(k)
    PROVE  Inv'
<1>. USE DEF Inv
<1>1. ASSUME UNCHANGED <<hash, dic, value, writes, phase, todo, mem, last>> PROVE Inv'
  BY <1>1 DEF TypeInv, DicInv, MemInv, AllOrNothing, Written
<1>2. ASSUME tm_end PROVE Inv'
  <2>1. /\ phase = "run" /\ phase' = "commit" /\ todo' = dic_forEach(dic)
        /\ UNCHANGED <<hash, dic, value, writes, mem, last>> /\ Written' = Written
    BY <1>2 DEF tm_end, Written
  <2>2. todo' \in Seq(Keys) /\ ToSet(todo') = Written
    BY <2>1, PassStarts
  <2>3. TypeInv' /\ DicInv' /\ AllOrNothing' /\ value' = last'
    BY <2>1, <2>2 DEF TypeInv, DicInv, AllOrNothing
  <2>4. \A k \in Keys : k \notin Written => mem[k] = last[k]
    BY <2>1 DEF MemInv, Written
  <2>5. MemInv'
    BY <2>1, <2>2, <2>4 DEF MemInv
  <2>. QED
    BY <2>3, <2>5
<1>3. ASSUME write_writing_set PROVE Inv'
  <2>. DEFINE h == Head(todo)
  <2>1. /\ phase = "commit" /\ todo # <<>> /\ todo' = Tail(todo)
        /\ mem' = [mem EXCEPT ![h] = value[h]]
        /\ UNCHANGED <<hash, dic, value, writes, phase, last>> /\ Written' = Written
    BY <1>3 DEF write_writing_set, Written
  <2>2. h \in Keys /\ Tail(todo) \in Seq(Keys) /\ ToSet(todo) \subseteq {h} \cup ToSet(Tail(todo))
    BY <2>1, PassSteps DEF TypeInv
  <2>. HIDE DEF h
  <2>3. TypeInv' /\ DicInv' /\ AllOrNothing' /\ value' = last'
    BY <2>1, <2>2 DEF TypeInv, DicInv, AllOrNothing
  <2>4. ASSUME NEW k \in Keys, k \notin ToSet(todo') PROVE mem'[k] = last'[k]
    <3>1. CASE k = h
      BY <2>1, <2>2, <3>1 DEF TypeInv
    <3>2. CASE k # h
      BY <2>1, <2>2, <2>4, <3>2 DEF TypeInv, MemInv
    <3>. QED
      BY <3>1, <3>2
  <2>5. MemInv'
    BY <2>1, <2>4 DEF MemInv
  <2>. QED
    BY <2>3, <2>5
<1>4. ASSUME tx_destroy PROVE Inv'
  <2>1. /\ phase = "run" \/ (phase = "commit" /\ todo = <<>>)
        /\ phase' = "destroy" /\ todo' = dic_forEach(dic)
        /\ UNCHANGED <<hash, dic, value, writes, mem, last>> /\ Written' = Written
    BY <1>4 DEF tx_destroy, Written
  <2>2. todo' \in Seq(Keys)
    BY <2>1, PassStarts
  <2>3. TypeInv' /\ DicInv' /\ MemInv' /\ value' = last'
    BY <2>1, <2>2 DEF TypeInv, DicInv, MemInv
  <2>4. CASE phase = "run"
    BY <2>1, <2>3, <2>4 DEF MemInv, AllOrNothing
  <2>5. CASE phase = "commit" /\ todo = <<>>
    <3>1. \A k \in Keys : mem[k] = last[k]
      BY <2>5 DEF MemInv, ToSet
    <3>2. mem = last
      BY <3>1 DEF TypeInv
    <3>. QED
      BY <2>1, <2>3, <3>2 DEF AllOrNothing
  <2>. QED
    BY <2>1, <2>4, <2>5
<1>5. ASSUME nested_free_value_dict PROVE Inv'
  <2>1. /\ phase = "destroy" /\ todo # <<>> /\ todo' = Tail(todo)
        /\ UNCHANGED <<hash, dic, value, writes, phase, mem, last>> /\ Written' = Written
    BY <1>5 DEF nested_free_value_dict, Written
  <2>2. Tail(todo) \in Seq(Keys)
    BY <2>1, PassSteps DEF TypeInv
  <2>. QED
    BY <2>1, <2>2 DEF TypeInv, DicInv, MemInv, AllOrNothing
<1>6. ASSUME dic_delete PROVE Inv'
  <2>1. /\ phase = "destroy" /\ phase' = "done"
        /\ UNCHANGED <<hash, value, writes, todo, mem, last>> /\ Written' = Written
    BY <1>6 DEF dic_delete, Written
  <2>. QED
    BY <2>1 DEF TypeInv, DicInv, MemInv, AllOrNothing
<1>7. ASSUME NEW k \in Keys, tm_read(k) PROVE Inv'
  <2>1. /\ phase = "run" /\ dic' = Pointing(dic, k)
        /\ UNCHANGED <<hash, value, writes, phase, todo, mem, last>> /\ Written' = Written
    BY <1>7 DEF tm_read, Written
  <2>2. DictOk(dic, hash, Written) /\ dic.count = Cardinality(Written)
    BY <2>1 DEF DicInv
  <2>3. Is(dic', dic.length, dic.count, dic.table, k)
    BY <2>1, <2>2, PointingIs, Zenon DEF DictOk
  <2>4. DicInv'
    BY <2>1, <2>2, <2>3 DEF DicInv, DictOk, Is
  <2>. QED
    BY <2>1, <2>4 DEF TypeInv, MemInv, AllOrNothing
<1>8. ASSUME UNCHANGED vars PROVE Inv'
  BY <1>1, <1>8 DEF vars
<1>. QED
  BY <1>2, <1>3, <1>4, <1>5, <1>6, <1>7, <1>8 DEF Next, Done

LEMMA InvNext == Inv /\ [Next]_vars => Inv'
BY InvWrite, InvRest

LEMMA InvHolds == Spec => []Inv
BY InvInit, InvNext, PTL DEF Spec

\* A transaction reads its own last write of a word: for any words, any hash
\* function, any sequence of writes and any number of resizes, tm_read finds exactly
\* the words written, and the node holds the last buffer.
THEOREM ReadsOwnWritesHolds == Spec => []ReadsOwnWrites
<1>1. Inv => ReadsOwnWrites
  <2>. SUFFICES ASSUME Inv, phase = "run", NEW k \in Keys
                PROVE  (dic_find(dic, hash, k) <=> k \in Written) /\ value[k] = last[k]
    BY DEF ReadsOwnWrites
  <2>1. DictOk(dic, hash, Written) /\ HashOk(hash) /\ value = last
    BY HashesOk DEF Inv, DicInv
  <2>. QED
    BY <2>1, FindIs
<1>. QED
  BY <1>1, InvHolds, PTL

\* dic_forEach meets every word of the write set once, and count is their number.
THEOREM VisitsOnceHolds == Spec => []VisitsOnce
<1>1. Inv => VisitsOnce
  BY PassStarts DEF VisitsOnce, Inv, DicInv
<1>. QED
  BY <1>1, InvHolds, PTL

\* When tx_destroy runs every written word is written back, or none.
THEOREM AllOrNothingHolds == Spec => []AllOrNothing
BY InvHolds, PTL DEF Inv
=============================================================================
