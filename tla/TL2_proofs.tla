----------------------------- MODULE TL2_proofs -----------------------------
(***************************************************************************)
(* Theorems about the transactional memory of module TL2, for any number   *)
(* of threads, words, segments and locks and any map of addresses to locks:*)
(* locks are owned and given back, versions grow, a transaction alone      *)
(* commits, nothing is used after it is freed, tm_destroy leaves behind    *)
(* only what never got a list node, and committed read-write transactions  *)
(* are serializable.                                                       *)
(***************************************************************************)
EXTENDS TL2Properties, FiniteSetTheorems, TLAPS

-----------------------------------------------------------------------------
(* The arithmetic of version locks *)

\* lock_try_acquire's exchange value: locked, same version.
LEMMA SetLockBitFacts ==
    ASSUME NEW v \in Nat, ~ IsLocked(v)
    PROVE  /\ SetLockBit(v) \in Nat
           /\ SetLockBit(v) = v + 1
           /\ IsLocked(SetLockBit(v))
           /\ Version(SetLockBit(v)) = Version(v)
BY DEF IsLocked, SetLockBit, Version

\* lock_release on a lock that is held: free, same version.
LEMMA ReleaseFacts ==
    ASSUME NEW v \in Nat, IsLocked(v)
    PROVE  /\ lock_release(v) \in Nat
           /\ lock_release(v) = v - 1
           /\ ~ IsLocked(lock_release(v))
           /\ Version(lock_release(v)) = Version(v)
BY DEF IsLocked, lock_release, Version

\* An even value at most one above an even clock is not above it.
LEMMA EvenBelowClock ==
    ASSUME NEW v \in Nat, NEW g \in Nat, ~ IsLocked(v), g % 2 = 0, v <= g + 1
    PROVE  v + 1 <= g + 1
BY DEF IsLocked

\* Version is monotone.
LEMMA VersionMonotone ==
    ASSUME NEW v \in Nat, NEW w \in Nat, v <= w
    PROVE  Version(v) <= Version(w)
BY DEF Version

-----------------------------------------------------------------------------
(* The inductive invariant *)

\* The clock and the write versions have a clear bit 0, and so has the value
\* a compare-exchange expects.
Parity ==
    /\ global_version % 2 = 0
    /\ \A t \in Threads : write_version[t] % 2 = 0
    /\ \A t \in Threads : pc[t] = "cas" => ~ IsLocked(vl[t])

\* Locks and write versions never run ahead of the clock, and a committer
\* that has its write version holds only older locks.
VersionBound ==
    /\ \A l \in LockIds : locks[l] <= global_version + 1
    /\ \A t \in Threads : write_version[t] <= global_version
    /\ \A t \in Threads : pc[t] \in {"validate", "commit"} =>
         \A l \in held[t] : locks[l] < write_version[t]

LockInv == LockOwnership /\ NoLockLeft /\ Parity /\ VersionBound

Positions(t) == 1..Len(unique_locks[t])

\* The locks that a pass of dic_forEach at position at[t] says are held: while
\* locking those it has passed, at the commit those it has not, and so in a
\* roll-back, but only up to the lock that was refused.
HeldAt(t, i) ==
    CASE pc[t] \in {"lock", "cas"} -> i < at[t]
      [] pc[t] = "validate"        -> TRUE
      [] pc[t] = "commit"          -> at[t] <= i
      [] pc[t] = "rollback"        -> /\ at[t] <= i
                                      /\ \A j \in at[t]..i : unique_locks[t][j] # key[t]

\* The dictionary of tm_end has each lock of the write set once, and the
\* position in it tells which of them are held: that is why the roll-back
\* needs to know the refused lock only.
PassOf(t) ==
    pc[t] \in {"lock", "cas", "validate", "commit", "rollback"} =>
        /\ \A i, j \in Positions(t) : unique_locks[t][i] = unique_locks[t][j] => i = j
        /\ UniqueLocks(t) = {unique_locks[t][i] : i \in Positions(t)}
        /\ held[t] \subseteq UniqueLocks(t)
        /\ \A i \in Positions(t) : unique_locks[t][i] \in held[t] <=> HeldAt(t, i)
        /\ pc[t] = "cas" => ~ PassOver(t)
        /\ pc[t] = "commit" /\ word_todo[t] # {} => at[t] = 1

PassInv == \A t \in Threads : PassOf(t)

IInv == TypeOK /\ LockInv /\ PassInv

\* The initial state of tm_create satisfies the invariant.
LEMMA InitInv == Init => IInv
<1>. SUFFICES ASSUME Init PROVE IInv
  OBVIOUS
<1>. USE ConstantsOk DEF Init
<1>1. TypeOK
  BY DEF TypeOK, Addr, PcValues
<1>2. LockInv
  BY DEF LockInv, LockOwnership, NoLockLeft, Parity, VersionBound, IsLocked
<1>3. PassInv
  BY DEF PassInv, PassOf
<1>. QED
  BY <1>1, <1>2, <1>3 DEF IInv

\* dic_forEach calls its function with a lock.
LEMMA LockAtType ==
    ASSUME TypeOK, NEW t \in Threads, ~ PassOver(t)
    PROVE  /\ LockAt(t) \in LockIds
           /\ at[t] \in Positions(t)
<1>1. at[t] \in Nat \ {0} /\ unique_locks[t] \in Seq(LockIds)
  BY DEF TypeOK
<1>2. at[t] \in 1..Len(unique_locks[t])
  BY <1>1 DEF PassOver
<1>3. unique_locks[t][at[t]] \in LockIds
  BY <1>1, <1>2
<1>. QED
  BY <1>2, <1>3 DEF LockAt, Positions

\* What the position of a pass says of the locks that are held: a pass that
\* gives back locks finds each one held and leaves none, and the locking pass
\* takes each one once.
LEMMA PassFacts ==
    ASSUME IInv, NEW t \in Threads
    PROVE  /\ pc[t] = "rollback" /\ ToRelease(t) => LockAt(t) \in held[t]
           /\ pc[t] = "rollback" /\ ~ ToRelease(t) => held[t] = {}
           /\ pc[t] = "commit" /\ ~ PassOver(t) => LockAt(t) \in held[t]
           /\ pc[t] = "commit" /\ PassOver(t) => held[t] = {}
           /\ pc[t] \in {"lock", "cas"} /\ ~ PassOver(t) => LockAt(t) \notin held[t]
           /\ pc[t] = "lock" /\ PassOver(t) => held[t] = UniqueLocks(t)
           /\ pc[t] = "cas" => LockAt(t) \in LockIds
<1>. TypeOK /\ PassOf(t)
  BY DEF IInv, PassInv
<1>1. at[t] \in Nat /\ at[t] > 0 /\ unique_locks[t] \in Seq(LockIds)
  BY DEF TypeOK
<1>2. ~ PassOver(t) => at[t] \in Positions(t) /\ LockAt(t) = unique_locks[t][at[t]]
  BY <1>1 DEF PassOver, Positions, LockAt
<1>3. PassOver(t) => \A i \in Positions(t) : i < at[t]
  BY <1>1 DEF PassOver, Positions
<1>4. ASSUME pc[t] = "rollback", ToRelease(t) PROVE LockAt(t) \in held[t]
  <2>1. HeldAt(t, at[t])
    BY <1>1, <1>2, <1>4 DEF HeldAt, ToRelease
  <2>. QED
    BY <1>2, <1>4, <2>1 DEF PassOf, ToRelease
<1>5. ASSUME pc[t] = "rollback", ~ ToRelease(t) PROVE held[t] = {}
  <2>1. \A i \in Positions(t) : ~ HeldAt(t, i)
    BY <1>1, <1>2, <1>3, <1>5 DEF HeldAt, ToRelease, Positions
  <2>. QED
    BY <1>5, <2>1 DEF PassOf
<1>6. ASSUME pc[t] = "commit", ~ PassOver(t) PROVE LockAt(t) \in held[t]
  BY <1>1, <1>2, <1>6 DEF PassOf, HeldAt
<1>7. ASSUME pc[t] = "commit", PassOver(t) PROVE held[t] = {}
  <2>1. \A i \in Positions(t) : ~ HeldAt(t, i)
    BY <1>1, <1>3, <1>7 DEF HeldAt, Positions
  <2>. QED
    BY <1>7, <2>1 DEF PassOf
<1>8. ASSUME pc[t] \in {"lock", "cas"}, ~ PassOver(t) PROVE LockAt(t) \notin held[t]
  <2>1. ~ (at[t] < at[t])
    BY <1>1
  <2>2. CASE pc[t] = "lock"
    BY <1>2, <1>8, <2>1, <2>2 DEF PassOf, HeldAt
  <2>3. CASE pc[t] = "cas"
    BY <1>2, <1>8, <2>1, <2>3 DEF PassOf, HeldAt
  <2>. QED
    BY <1>8, <2>2, <2>3
<1>9. ASSUME pc[t] = "lock", PassOver(t) PROVE held[t] = UniqueLocks(t)
  <2>1. \A i \in Positions(t) : HeldAt(t, i)
    BY <1>3, <1>9 DEF HeldAt
  <2>. QED
    BY <1>9, <2>1 DEF PassOf
<1>10. pc[t] = "cas" => LockAt(t) \in LockIds
  BY LockAtType DEF PassOf
<1>. QED
  BY <1>4, <1>5, <1>6, <1>7, <1>8, <1>9, <1>10

\* An order of the table has every lock, each one once.
LEMMA OrderFacts ==
    ASSUME TypeOK, NEW t \in Threads, NEW order \in SetToSeqs(UniqueLocks(t))
    PROVE  /\ order \in Seq(LockIds)
           /\ \A i, j \in 1..Len(order) : order[i] = order[j] => i = j
           /\ UniqueLocks(t) = {order[i] : i \in 1..Len(order)}
<1>. DEFINE S == UniqueLocks(t)
            D == 1..Cardinality(S)
<1>1. S \subseteq LockIds
  BY ConstantsOk DEF TypeOK, UniqueLocks
<1>2. IsFiniteSet(S) /\ Cardinality(S) \in Nat
  BY <1>1, ConstantsOk, FS_Subset, FS_CardinalityType
<1>3. order \in [D -> S] /\ \A i, j \in D : i # j => order[i] # order[j]
  BY DEF SetToSeqs
<1>. HIDE DEF S
<1>4. order \in Seq(LockIds) /\ Len(order) = Cardinality(S)
  BY <1>1, <1>2, <1>3
<1>5. IsFiniteSet(D) /\ Cardinality(D) = Cardinality(S)
  BY <1>2, FS_Interval
<1>6. order \in Injection(D, S)
  BY <1>3 DEF Injection, IsInjective
<1>7. order \in Surjection(D, S)
  BY <1>2, <1>5, <1>6, FS_Injection
<1>8. S = {order[i] : i \in D}
  BY <1>3, <1>7 DEF Surjection
<1>. QED
  BY <1>3, <1>4, <1>8 DEF S

\* What tx_destroy leaves is well typed.
LEMMA DestroyType ==
    ASSUME TypeOK, NEW t \in Threads, NEW committed, tx_destroy(t, committed)
    PROVE  /\ live' \subseteq Segs \cup {FirstSeg}
           /\ unlisted' \subseteq Segs \cup {FirstSeg}
           /\ lost' \in [Threads -> SUBSET Segs]
           /\ leaked' \subseteq Segs \cup {FirstSeg}
           /\ read_version' \in [Threads -> Nat]
           /\ write_version' \in [Threads -> Nat]
           /\ read_only' \in [Threads -> BOOLEAN]
           /\ read_set' \in [Threads -> SUBSET Addr]
           /\ write_set' \in [Threads -> SUBSET Addr]
           /\ alloc_set' \in [Threads -> SUBSET Segs]
           /\ pc' \in [Threads -> PcValues]
           /\ word' \in [Threads -> Addr \cup {None}]
           /\ \A u \in Threads : pc'[u] \in {"reread", "copy"} => word'[u] \in Addr
           /\ vl' \in [Threads -> Nat]
           /\ unique_locks' \in [Threads -> Seq(LockIds)]
           /\ at' \in [Threads -> Nat \ {0}]
           /\ key' \in [Threads -> LockIds \cup {None}]
           /\ word_todo' \in [Threads -> SUBSET Addr]
           /\ held' \in [Threads -> SUBSET LockIds]
           /\ attempts' \in [Threads -> Nat]
           /\ overlap' \in [Threads -> BOOLEAN]
           /\ seen' \in [Threads -> SUBSET (Addr \X Nat)]
BY DEF TypeOK, tx_destroy, PcValues

\* Every step keeps the types.
LEMMA TypeNext == IInv /\ [Next]_vars => TypeOK'
<1>. SUFFICES ASSUME IInv, [Next]_vars PROVE TypeOK'
  OBVIOUS
<1>. TypeOK
  BY DEF IInv
<1>1. ASSUME NEW t \in Threads, NEW is_ro \in Kinds, tm_begin(t, is_ro)
      PROVE  TypeOK'
  <2>1. read_only' \in [Threads -> BOOLEAN]
    <3>1. is_ro \in BOOLEAN /\ read_only \in [Threads -> BOOLEAN]
      BY ConstantsOk DEF TypeOK
    <3>. QED
      BY <1>1, <3>1, Zenon DEF tm_begin
  <2>2. overlap' \in [Threads -> BOOLEAN]
    BY <1>1, Zenon DEF tm_begin
  <2>3. /\ read_version' \in [Threads -> Nat]
        /\ write_version' \in [Threads -> Nat]
        /\ attempts' \in [Threads -> Nat]
    BY <1>1 DEF TypeOK, tm_begin, shared, memory, table
  <2>4. /\ pc' \in [Threads -> PcValues]
        /\ \A u \in Threads : pc'[u] = "run" \/ pc'[u] = pc[u]
    BY <1>1 DEF TypeOK, tm_begin, PcValues
  <2>5. UNCHANGED <<shared, memory, read_set, write_set, alloc_set, word, vl,
                    word_todo, table, held, seen, commits>>
    BY <1>1 DEF tm_begin
  <2>. QED
    BY <2>1, <2>2, <2>3, <2>4, <2>5 DEF TypeOK, shared, memory, table
<1>2. ASSUME NEW t \in Threads, NEW a \in Addr, tm_read(t, a)
      PROVE  TypeOK'
  <2>1. CASE LockCheck(t, a)
    <3>1. /\ pc' = [pc EXCEPT ![t] = "reread"] /\ word' = [word EXCEPT ![t] = a]
          /\ read_set' \in {read_set, [read_set EXCEPT ![t] = @ \cup {a}]}
          /\ UNCHANGED <<shared, memory, read_version, write_version, read_only, write_set,
                         alloc_set, vl, word_todo, table, held, ghost>>
      BY <1>2, <2>1 DEF tm_read, tx_destroy
    <3>2. read_set' \in [Threads -> SUBSET Addr]
      <4>1. read_set \in [Threads -> SUBSET Addr]
        BY DEF TypeOK
      <4>. QED
        BY <3>1, <4>1
    <3>3. /\ pc' \in [Threads -> PcValues] /\ word' \in [Threads -> Addr \cup {None}]
          /\ \A u \in Threads : pc'[u] \in {"reread", "copy"} => word'[u] \in Addr
      BY <3>1 DEF TypeOK, PcValues
    <3>. QED
      BY <3>1, <3>2, <3>3 DEF TypeOK, shared, ghost, memory, table
  <2>2. CASE ~ LockCheck(t, a)
    BY <1>2, <2>2, DestroyType DEF TypeOK, tm_read, shared, memory, table
  <2>. QED
    BY <2>1, <2>2
<1>3. ASSUME NEW t \in Threads, tm_read_recheck(t)
      PROVE  TypeOK'
  <2>1. CASE LockCheck(t, word[t])
    <3>1. /\ pc[t] = "reread" /\ pc' = [pc EXCEPT ![t] = "copy"]
          /\ UNCHANGED <<shared, memory, txn, word, vl, word_todo, table, held, ghost>>
      BY <1>3, <2>1 DEF tm_read_recheck, tx_destroy
    <3>2. /\ pc' \in [Threads -> PcValues]
          /\ \A u \in Threads : pc'[u] \in {"reread", "copy"} => word[u] \in Addr
      BY <3>1 DEF TypeOK, PcValues
    <3>. QED
      BY <3>1, <3>2 DEF TypeOK, shared, memory, txn, table, ghost
  <2>2. CASE ~ LockCheck(t, word[t])
    BY <1>3, <2>2, DestroyType DEF TypeOK, tm_read_recheck, shared
  <2>. QED
    BY <2>1, <2>2
<1>4. ASSUME NEW t \in Threads, tm_read_copy(t)
      PROVE  TypeOK'
  <2>1. seen' \in [Threads -> SUBSET (Addr \X Nat)]
    <3>1. /\ word[t] \in Addr /\ mem \in [Addr -> Nat]
          /\ seen \in [Threads -> SUBSET (Addr \X Nat)]
      BY <1>4 DEF TypeOK, tm_read_copy
    <3>. QED
      BY <1>4, <3>1 DEF tm_read_copy
  <2>2. /\ pc' = [pc EXCEPT ![t] = "run"] /\ word' = [word EXCEPT ![t] = None]
        /\ UNCHANGED <<shared, memory, txn, vl, word_todo, table, held, attempts, overlap,
                       commits>>
    BY <1>4 DEF tm_read_copy
  <2>3. /\ pc' \in [Threads -> PcValues] /\ word' \in [Threads -> Addr \cup {None}]
        /\ \A u \in Threads : pc'[u] \in {"reread", "copy"} => word'[u] \in Addr
    BY <2>2 DEF TypeOK, PcValues
  <2>. QED
    BY <2>1, <2>2, <2>3 DEF TypeOK, shared, memory, txn, table
<1>5. ASSUME NEW t \in Threads, NEW a \in Addr, tm_write(t, a)
      PROVE  TypeOK'
  BY <1>5 DEF TypeOK, tm_write, shared, memory, txn, local, table, ghost
<1>6. ASSUME NEW t \in Threads, tm_write_misaligned(t)
      PROVE  TypeOK'
  BY <1>6, DestroyType
  DEF TypeOK, tm_write_misaligned, shared, memory, txn, local, table, ghost
<1>7. ASSUME NEW t \in Threads, NEW s \in Segs, tm_alloc(t, s)
      PROVE  TypeOK'
  <2>1. mem' \in [Addr -> Nat] /\ live' \subseteq Segs \cup {FirstSeg}
    BY <1>7 DEF TypeOK, tm_alloc
  <2>2. /\ alloc_set' \in [Threads -> SUBSET Segs]
        /\ lost' \in [Threads -> SUBSET Segs]
        /\ unlisted' \subseteq Segs \cup {FirstSeg}
    <3>1. /\ alloc_set \in [Threads -> SUBSET Segs]
          /\ lost \in [Threads -> SUBSET Segs]
          /\ unlisted \subseteq Segs \cup {FirstSeg}
      BY DEF TypeOK
    <3>. QED
      BY <1>7, <3>1 DEF tm_alloc
  <2>. QED
    BY <1>7, <2>1, <2>2 DEF TypeOK, tm_alloc, local, table, ghost
<1>8. ASSUME NEW t \in Threads, NEW s \in Segs, tm_free(t, s)
      PROVE  TypeOK'
  BY <1>8 DEF TypeOK, tm_free, vars, shared, memory, txn, local, table, ghost
<1>9. ASSUME NEW t \in Threads, tm_end_read_only(t)
      PROVE  TypeOK'
  <2>. DEFINE c == [at |-> read_version[t], ro |-> TRUE,
                    reads |-> seen[t], writes |-> {}]
  <2>1. c \in CommitRecord
    <3>1. read_version[t] \in Nat /\ seen[t] \in SUBSET (Addr \X Nat)
      BY DEF TypeOK
    <3>. QED
      BY <3>1 DEF CommitRecord
  <2>2. commits' \subseteq CommitRecord
    BY <1>9, <2>1 DEF TypeOK, tm_end_read_only
  <2>. QED
    BY <1>9, <2>2, DestroyType DEF TypeOK, tm_end_read_only, shared, memory, table
<1>10. ASSUME NEW t \in Threads, tm_end_nomem(t)
      PROVE  TypeOK'
  BY <1>10, DestroyType DEF TypeOK, tm_end_nomem, shared, memory, txn, local, table, ghost
<1>11. ASSUME NEW t \in Threads, tm_end(t)
      PROVE  TypeOK'
  <2>1. unique_locks' \in [Threads -> Seq(LockIds)]
    <3>1. PICK order \in SetToSeqs(UniqueLocks(t)) :
            unique_locks' = [unique_locks EXCEPT ![t] = order]
      BY <1>11 DEF tm_end
    <3>2. order \in Seq(LockIds)
      BY OrderFacts
    <3>3. unique_locks \in [Threads -> Seq(LockIds)]
      BY DEF TypeOK
    <3>. QED
      BY <3>1, <3>2, <3>3
  <2>2. at' \in [Threads -> Nat \ {0}] /\ key' \in [Threads -> LockIds \cup {None}]
    BY <1>11 DEF TypeOK, tm_end
  <2>. QED
    BY <1>11, <2>1, <2>2 DEF TypeOK, tm_end, shared, memory, txn, ghost, PcValues
<1>12. ASSUME NEW t \in Threads, lock_unique_lock_set(t)
      PROVE  TypeOK'
  <2>0. /\ pc \in [Threads -> PcValues]
        /\ at \in [Threads -> Nat \ {0}]
        /\ key \in [Threads -> LockIds \cup {None}]
        /\ vl \in [Threads -> Nat]
        /\ \A u \in Threads : pc[u] \in {"reread", "copy"} => word[u] \in Addr
    BY DEF TypeOK
  <2>1. LockAt(t) \in LockIds /\ locks[LockAt(t)] \in Nat
    BY <1>12, LockAtType DEF TypeOK, lock_unique_lock_set
  <2>2. \/ /\ pc' = [pc EXCEPT ![t] = "cas"]
           /\ vl' = [vl EXCEPT ![t] = locks[LockAt(t)]]
           /\ UNCHANGED <<at, key>>
        \/ /\ pc' = [pc EXCEPT ![t] = "rollback"]
           /\ at' = [at EXCEPT ![t] = 1]
           /\ key' = [key EXCEPT ![t] = LockAt(t)]
           /\ UNCHANGED vl
    BY <1>12 DEF lock_unique_lock_set, refused
  <2>3. /\ pc' \in [Threads -> PcValues]
        /\ vl' \in [Threads -> Nat]
        /\ at' \in [Threads -> Nat \ {0}]
        /\ key' \in [Threads -> LockIds \cup {None}]
        /\ \A u \in Threads : pc'[u] \in {"reread", "copy"} => word[u] \in Addr
    BY <2>0, <2>1, <2>2 DEF PcValues
  <2>. QED
    BY <1>12, <2>3 DEF TypeOK, lock_unique_lock_set, shared, memory, txn, ghost
<1>13. ASSUME NEW t \in Threads, lock_try_acquire(t)
      PROVE  TypeOK'
  <2>1. LockAt(t) \in LockIds /\ vl[t] \in Nat /\ ~ IsLocked(vl[t])
    BY <1>13, PassFacts DEF TypeOK, lock_try_acquire, IInv, LockInv, Parity
  <2>2. SetLockBit(vl[t]) \in Nat
    BY <2>1, SetLockBitFacts
  <2>3. /\ vl' = [vl EXCEPT ![t] = 0]
        /\ UNCHANGED <<global_version, mem, segments, list_lock, up, memory, txn, word,
                       unique_locks, word_todo, ghost>>
        /\ \/ /\ locks' = [locks EXCEPT ![LockAt(t)] = SetLockBit(vl[t])]
              /\ held' = [held EXCEPT ![t] = @ \cup {LockAt(t)}]
              /\ at' = [at EXCEPT ![t] = @ + 1]
              /\ pc' = [pc EXCEPT ![t] = "lock"]
              /\ UNCHANGED key
           \/ /\ pc' = [pc EXCEPT ![t] = "rollback"]
              /\ at' = [at EXCEPT ![t] = 1]
              /\ key' = [key EXCEPT ![t] = LockAt(t)]
              /\ UNCHANGED <<locks, held>>
    BY <1>13 DEF lock_try_acquire, refused
  <2>4. /\ locks' \in [LockIds -> Nat]
        /\ held' \in [Threads -> SUBSET LockIds]
        /\ at' \in [Threads -> Nat \ {0}]
        /\ key' \in [Threads -> LockIds \cup {None}]
    <3>1. /\ locks \in [LockIds -> Nat]
          /\ held \in [Threads -> SUBSET LockIds]
          /\ at \in [Threads -> Nat \ {0}]
          /\ key \in [Threads -> LockIds \cup {None}]
      BY DEF TypeOK
    <3>. QED
      BY <2>1, <2>2, <2>3, <3>1
  <2>5. /\ pc' \in [Threads -> PcValues]
        /\ vl' \in [Threads -> Nat]
        /\ \A u \in Threads : pc'[u] \in {"reread", "copy"} => word[u] \in Addr
    <3>1. /\ pc \in [Threads -> PcValues]
          /\ vl \in [Threads -> Nat]
          /\ \A u \in Threads : pc[u] \in {"reread", "copy"} => word[u] \in Addr
      BY DEF TypeOK
    <3>. QED
      BY <2>3, <3>1 DEF PcValues
  <2>. QED
    BY <2>3, <2>4, <2>5 DEF TypeOK, memory, txn, ghost
<1>14. ASSUME NEW t \in Threads, tm_end_fetch_add(t)
      PROVE  TypeOK'
  <2>1. word_todo' \in [Threads -> SUBSET Addr]
    BY <1>14 DEF TypeOK, tm_end_fetch_add, ToValidate
  <2>2. global_version' \in Nat /\ write_version' \in [Threads -> Nat]
    BY <1>14 DEF TypeOK, tm_end_fetch_add
  <2>. QED
    BY <1>14, <2>1, <2>2 DEF TypeOK, tm_end_fetch_add, ghost, PcValues, memory, table
<1>15. ASSUME NEW t \in Threads, NEW a \in Addr, validate_reading_set(t, a)
      PROVE  TypeOK'
  <2>0. /\ pc \in [Threads -> PcValues]
        /\ at \in [Threads -> Nat \ {0}]
        /\ key \in [Threads -> LockIds \cup {None}]
        /\ vl \in [Threads -> Nat]
        /\ \A u \in Threads : pc[u] \in {"reread", "copy"} => word[u] \in Addr
    BY DEF TypeOK
  <2>1. \/ UNCHANGED <<pc, at, key>>
        \/ /\ pc' = [pc EXCEPT ![t] = "rollback"]
           /\ at' = [at EXCEPT ![t] = 1]
           /\ key' = [key EXCEPT ![t] = None]
    BY <1>15 DEF validate_reading_set
  <2>2. /\ pc' \in [Threads -> PcValues]
        /\ at' \in [Threads -> Nat \ {0}]
        /\ key' \in [Threads -> LockIds \cup {None}]
        /\ \A u \in Threads : pc'[u] \in {"reread", "copy"} => word[u] \in Addr
    BY <2>0, <2>1 DEF PcValues
  <2>3. word_todo' \in [Threads -> SUBSET Addr]
    <3>1. word_todo \in [Threads -> SUBSET Addr]
      BY DEF TypeOK
    <3>. QED
      BY <1>15, <3>1 DEF validate_reading_set
  <2>4. UNCHANGED <<shared, memory, txn, word, vl, unique_locks, held, ghost>>
    BY <1>15 DEF validate_reading_set
  <2>. QED
    BY <2>2, <2>3, <2>4 DEF TypeOK, shared, memory, txn, ghost
<1>16. ASSUME NEW t \in Threads, tm_end_validated(t)
      PROVE  TypeOK'
  <2>. DEFINE c == [at |-> write_version[t], ro |-> FALSE,
                    reads |-> seen[t], writes |-> write_set[t]]
  <2>1. c \in CommitRecord
    <3>1. /\ write_version[t] \in Nat
          /\ seen[t] \in SUBSET (Addr \X Nat)
          /\ write_set[t] \in SUBSET Addr
      BY DEF TypeOK
    <3>. QED
      BY <3>1 DEF CommitRecord
  <2>2. commits' \subseteq CommitRecord
    BY <1>16, <2>1 DEF TypeOK, tm_end_validated
  <2>3. /\ pc' \in [Threads -> PcValues]
        /\ at' \in [Threads -> Nat \ {0}]
        /\ \A u \in Threads : pc'[u] \in {"reread", "copy"} => word[u] \in Addr
    BY <1>16 DEF TypeOK, tm_end_validated, PcValues
  <2>4. word_todo' \in [Threads -> SUBSET Addr]
    BY <1>16 DEF TypeOK, tm_end_validated
  <2>. QED
    BY <1>16, <2>2, <2>3, <2>4 DEF TypeOK, tm_end_validated, shared, memory, txn
<1>17. ASSUME NEW t \in Threads, NEW a \in Addr, write_writing_set(t, a)
      PROVE  TypeOK'
  BY <1>17 DEF TypeOK, write_writing_set, shared, memory, txn, local, table, ghost
<1>18. ASSUME NEW t \in Threads, update_unique_lock_set(t)
      PROVE  TypeOK'
  <2>1. locks' \in [LockIds -> Nat]
    BY <1>18 DEF TypeOK, update_unique_lock_set, lock_update_and_release
  <2>2. held' \in [Threads -> SUBSET LockIds] /\ at' \in [Threads -> Nat \ {0}]
    BY <1>18 DEF TypeOK, update_unique_lock_set
  <2>. QED
    BY <1>18, <2>1, <2>2 DEF TypeOK, update_unique_lock_set, memory, txn, ghost
<1>19. ASSUME NEW t \in Threads, tm_end_committed(t)
      PROVE  TypeOK'
  <2>1. segments' \subseteq Segs \cup {FirstSeg} /\ list_lock' \in Threads \cup {None}
    BY <1>19 DEF TypeOK, tm_end_committed, ll_concat_safe, ListLockAfter
  <2>. QED
    BY <1>19, <2>1, DestroyType DEF TypeOK, tm_end_committed
<1>20. ASSUME NEW t \in Threads, unlock_unique_lock_set_until(t)
      PROVE  TypeOK'
  <2>1. /\ LockAt(t) \in held[t]
        /\ LockAt(t) \in LockIds
        /\ locks' = [locks EXCEPT ![LockAt(t)] = lock_release(@)]
        /\ held' = [held EXCEPT ![t] = @ \ {LockAt(t)}]
        /\ at' = [at EXCEPT ![t] = @ + 1]
    BY <1>20, PassFacts DEF TypeOK, unlock_unique_lock_set_until
  <2>2. IsLocked(locks[LockAt(t)]) /\ locks[LockAt(t)] \in Nat
    BY <2>1 DEF TypeOK, IInv, LockInv, LockOwnership
  <2>3. locks' \in [LockIds -> Nat]
    BY <2>1, <2>2, ReleaseFacts DEF TypeOK
  <2>4. held' \in [Threads -> SUBSET LockIds] /\ at' \in [Threads -> Nat \ {0}]
    BY <2>1 DEF TypeOK
  <2>. QED
    BY <1>20, <2>3, <2>4 DEF TypeOK, unlock_unique_lock_set_until, memory, txn, ghost
<1>21. ASSUME NEW t \in Threads, tm_end_failed(t)
      PROVE  TypeOK'
  BY <1>21, DestroyType DEF TypeOK, tm_end_failed, shared, memory, txn, local, table, ghost
<1>24. ASSUME NEW t \in Threads, lock_acquire(t)
      PROVE  TypeOK'
  BY <1>24 DEF TypeOK, lock_acquire, memory, txn, table, ghost, PcValues
<1>22. CASE tm_destroy
  BY <1>22 DEF TypeOK, tm_destroy, txn, local, ghost, memory, table
<1>23. CASE UNCHANGED vars
  BY <1>23 DEF TypeOK, vars, shared, memory, txn, local, table, ghost
<1>. QED
  BY <1>1, <1>2, <1>3, <1>4, <1>5, <1>6, <1>7, <1>8, <1>9, <1>10, <1>11, <1>12, <1>13,
     <1>14, <1>15, <1>16, <1>17, <1>18, <1>19, <1>20, <1>21, <1>22, <1>23, <1>24
  DEF Next, Call, Step, Done

\* The types that the locks are about.
LockTypes ==
    /\ global_version \in Nat
    /\ locks \in [LockIds -> Nat]
    /\ pc \in [Threads -> PcValues]
    /\ vl \in [Threads -> Nat]
    /\ held \in [Threads -> SUBSET LockIds]
    /\ write_version \in [Threads -> Nat]

\* tx_destroy by a thread without locks keeps the locks consistent.
LEMMA DestroyLocks ==
    ASSUME LockTypes, LockInv, NEW t \in Threads, held[t] = {}, NEW committed,
           tx_destroy(t, committed), UNCHANGED <<global_version, locks>>,
           list_lock' = None \/ (pc[t] # "concat" /\ UNCHANGED list_lock)
    PROVE  LockInv'
<1>1. /\ pc' = [pc EXCEPT ![t] = "idle"]
      /\ write_version' = [write_version EXCEPT ![t] = 0]
      /\ UNCHANGED <<global_version, locks, held, vl>>
  BY DEF tx_destroy
<1>2. NoLockLeft'
  BY <1>1, ConstantsOk DEF LockTypes, LockInv, NoLockLeft
<1>. QED
  BY <1>1, <1>2 DEF LockTypes, LockInv, LockOwnership, Parity, VersionBound

\* A step of a thread that only moves its pc, outside a commit or within
\* tm_end, keeps the locks consistent.
LEMMA MoveLocks ==
    ASSUME LockTypes, LockInv, NEW t \in Threads, NEW p,
           pc' = [pc EXCEPT ![t] = p], pc[t] # "concat",
           p \in {"validate", "commit"} => pc[t] = "validate",
           p = "cas" => ~ IsLocked(vl'[t]),
           \A u \in Threads \ {t} : vl'[u] = vl[u],
           held[t] # {} => p \in {"lock", "cas", "commit", "rollback"},
           UNCHANGED <<global_version, locks, held, write_version, list_lock>>
    PROVE  LockInv'
BY DEF LockTypes, LockInv, LockOwnership, NoLockLeft, Parity, VersionBound

\* Every step keeps the locks consistent.
LEMMA LockNext == IInv /\ [Next]_vars => LockInv'
<1>. SUFFICES ASSUME IInv, [Next]_vars PROVE LockInv'
  OBVIOUS
<1>. LockTypes /\ LockInv
  BY DEF IInv, TypeOK, LockTypes
<1>. USE DEF LockInv, LockOwnership, NoLockLeft, Parity, VersionBound
<1>1. ASSUME NEW t \in Threads, NEW is_ro \in Kinds, tm_begin(t, is_ro)
      PROVE  LockInv'
  BY <1>1 DEF LockTypes, tm_begin, tx_destroy, shared, memory, txn, local, table, ghost
<1>2. ASSUME NEW t \in Threads, NEW a \in Addr, tm_read(t, a)
      PROVE  LockInv'
  <2>1. CASE LockCheck(t, a)
    <3>1. pc[t] = "run" /\ pc' = [pc EXCEPT ![t] = "reread"]
      BY <1>2, <2>1 DEF tm_read
    <3>2. UNCHANGED <<global_version, locks, held, write_version, vl, list_lock>>
      BY <1>2, <2>1 DEF tm_read, shared, memory, table
    <3>. QED
      BY <3>1, <3>2, MoveLocks
  <2>2. CASE ~ LockCheck(t, a)
    BY <1>2, <2>2, DestroyLocks DEF tm_read, shared, memory, table
  <2>. QED
    BY <2>1, <2>2
<1>3. ASSUME NEW t \in Threads, tm_read_recheck(t)
      PROVE  LockInv'
  <2>1. CASE LockCheck(t, word[t])
    <3>1. pc[t] = "reread" /\ pc' = [pc EXCEPT ![t] = "copy"]
      BY <1>3, <2>1 DEF tm_read_recheck, tx_destroy, TypeOK
    <3>2. UNCHANGED <<global_version, locks, held, write_version, vl, list_lock>>
      BY <1>3, <2>1 DEF tm_read_recheck, shared, txn, memory, table
    <3>. QED
      BY <3>1, <3>2, MoveLocks
  <2>2. CASE ~ LockCheck(t, word[t])
    BY <1>3, <2>2, DestroyLocks DEF tm_read_recheck, shared, memory, table
  <2>. QED
    BY <2>1, <2>2
<1>4. ASSUME NEW t \in Threads, tm_read_copy(t)
      PROVE  LockInv'
  BY <1>4 DEF LockTypes, tm_read_copy, tx_destroy, shared, memory, txn, local, table, ghost
<1>5. ASSUME NEW t \in Threads, NEW a \in Addr, tm_write(t, a)
      PROVE  LockInv'
  BY <1>5 DEF LockTypes, tm_write, tx_destroy, shared, memory, txn, local, table, ghost
<1>6. ASSUME NEW t \in Threads, tm_write_misaligned(t)
      PROVE  LockInv'
  BY <1>6
  DEF LockTypes, tm_write_misaligned, tx_destroy, shared, memory, txn, local, table, ghost
<1>7. ASSUME NEW t \in Threads, NEW s \in Segs, tm_alloc(t, s)
      PROVE  LockInv'
  BY <1>7 DEF LockTypes, tm_alloc, tx_destroy, shared, memory, txn, local, table, ghost
<1>8. ASSUME NEW t \in Threads, NEW s \in Segs, tm_free(t, s)
      PROVE  LockInv'
  BY <1>8 DEF LockTypes, tm_free, tx_destroy, vars, shared, memory, txn, local, table, ghost
<1>9. ASSUME NEW t \in Threads, tm_end_read_only(t)
      PROVE  LockInv'
  BY <1>9
  DEF LockTypes, tm_end_read_only, tx_destroy, shared, memory, txn, local, table, ghost
<1>10. ASSUME NEW t \in Threads, tm_end_nomem(t)
      PROVE  LockInv'
  BY <1>10 DEF LockTypes, tm_end_nomem, tx_destroy, shared, memory, txn, local, table, ghost
<1>11. ASSUME NEW t \in Threads, tm_end(t)
      PROVE  LockInv'
  BY <1>11 DEF LockTypes, tm_end, tx_destroy, shared, memory, txn, local, table, ghost
<1>12. ASSUME NEW t \in Threads, lock_unique_lock_set(t)
      PROVE  LockInv'
  <2>. pc[t] = "lock" /\ UNCHANGED <<global_version, locks, held, write_version, list_lock>>
    BY <1>12 DEF lock_unique_lock_set, shared, txn
  <2>1. CASE TryLoadOk(locks[LockAt(t)])
    <3>1. pc' = [pc EXCEPT ![t] = "cas"] /\ vl' = [vl EXCEPT ![t] = locks[LockAt(t)]]
      BY <1>12, <2>1 DEF lock_unique_lock_set
    <3>2. ~ IsLocked(vl'[t]) /\ \A u \in Threads \ {t} : vl'[u] = vl[u]
      BY <2>1, <3>1 DEF LockTypes, TryLoadOk
    <3>. QED
      BY <3>1, <3>2, MoveLocks
  <2>2. CASE ~ TryLoadOk(locks[LockAt(t)])
    <3>1. pc' = [pc EXCEPT ![t] = "rollback"] /\ UNCHANGED vl
      BY <1>12, <2>2 DEF lock_unique_lock_set, refused
    <3>. QED
      BY <3>1, MoveLocks
  <2>. QED
    BY <2>1, <2>2
<1>13. ASSUME NEW t \in Threads, lock_try_acquire(t)
      PROVE  LockInv'
  <2>0. pc[t] = "cas" /\ LockAt(t) \in LockIds /\ UNCHANGED list_lock
    BY <1>13, PassFacts DEF lock_try_acquire
  <2>1. CASE CasOk(locks[LockAt(t)], vl[t])
    <3>. DEFINE l == LockAt(t)
    <3>1. /\ l \in LockIds
          /\ locks[l] = vl[t]
          /\ vl[t] \in Nat
          /\ ~ IsLocked(vl[t])
      BY <2>0, <2>1 DEF LockTypes, CasOk
    <3>2. \A u \in Threads : l \notin held[u]
      BY <3>1
    <3>3. /\ locks' = [locks EXCEPT ![l] = vl[t] + 1]
          /\ IsLocked(vl[t] + 1)
      BY <1>13, <2>1, <3>1, SetLockBitFacts DEF lock_try_acquire
    <3>4. /\ held' = [held EXCEPT ![t] = @ \cup {l}]
          /\ pc' = [pc EXCEPT ![t] = "lock"]
          /\ vl' = [vl EXCEPT ![t] = 0]
          /\ UNCHANGED <<global_version, write_version>>
      BY <1>13, <2>1 DEF lock_try_acquire, txn
    <3>. HIDE DEF l
    <3>5. LockOwnership'
      BY <3>1, <3>2, <3>3, <3>4 DEF LockTypes
    <3>6. NoLockLeft' /\ Parity'
      BY <2>0, <3>1, <3>3, <3>4 DEF LockTypes
    <3>7. VersionBound'
      <4>1. vl[t] + 1 <= global_version + 1
        BY <3>1, EvenBelowClock DEF LockTypes
      <4>. QED
        BY <3>1, <3>2, <3>3, <3>4, <4>1 DEF LockTypes
    <3>. QED
      BY <3>5, <3>6, <3>7
  <2>2. CASE ~ CasOk(locks[LockAt(t)], vl[t])
    <3>1. /\ pc' = [pc EXCEPT ![t] = "rollback"]
          /\ vl' = [vl EXCEPT ![t] = 0]
          /\ UNCHANGED <<global_version, locks, held, write_version>>
      BY <1>13, <2>2 DEF lock_try_acquire, txn, refused
    <3>. QED
      BY <2>0, <3>1, MoveLocks DEF LockTypes
  <2>. QED
    BY <2>1, <2>2
<1>14. ASSUME NEW t \in Threads, tm_end_fetch_add(t)
      PROVE  LockInv'
  <2>1. /\ global_version' = global_version + 2
        /\ write_version' = [write_version EXCEPT ![t] = global_version + 2]
        /\ pc' = [pc EXCEPT ![t] = "validate"]
        /\ UNCHANGED <<locks, held, vl, list_lock>>
    BY <1>14 DEF tm_end_fetch_add
  <2>2. LockOwnership' /\ NoLockLeft'
    BY <1>14, <2>1 DEF LockTypes, tm_end_fetch_add
  <2>3. Parity'
    <3>1. (global_version + 2) % 2 = 0
      BY DEF LockTypes
    <3>2. global_version' % 2 = 0
      BY <2>1, <3>1
    <3>3. ASSUME NEW u \in Threads
          PROVE  write_version'[u] % 2 = 0
      <4>1. CASE u = t
        BY <2>1, <3>1, <4>1 DEF LockTypes
      <4>2. CASE u # t
        BY <2>1, <4>2 DEF LockTypes
      <4>. QED
        BY <4>1, <4>2
    <3>4. ASSUME NEW u \in Threads, pc'[u] = "cas"
          PROVE  ~ IsLocked(vl'[u])
      BY <2>1, <3>4 DEF LockTypes
    <3>. QED
      BY <3>2, <3>3, <3>4
  <2>4. VersionBound'
    BY <2>1 DEF LockTypes
  <2>. QED
    BY <2>2, <2>3, <2>4
<1>15. ASSUME NEW t \in Threads, NEW a \in Addr, validate_reading_set(t, a)
      PROVE  LockInv'
  <2>1. \E p \in {"validate", "rollback"} : pc[t] = "validate" /\ pc' = [pc EXCEPT ![t] = p]
    BY <1>15 DEF LockTypes, validate_reading_set
  <2>2. UNCHANGED <<global_version, locks, held, write_version, vl, list_lock>>
    BY <1>15 DEF validate_reading_set, shared, txn, memory, table
  <2>. QED
    BY <2>1, <2>2, MoveLocks DEF NoLockLeft
<1>16. ASSUME NEW t \in Threads, tm_end_validated(t)
      PROVE  LockInv'
  BY <1>16
  DEF LockTypes, tm_end_validated, tx_destroy, shared, memory, txn, local, table, ghost
<1>17. ASSUME NEW t \in Threads, NEW a \in Addr, write_writing_set(t, a)
      PROVE  LockInv'
  BY <1>17
  DEF LockTypes, write_writing_set, tx_destroy, shared, memory, txn, local, table, ghost
<1>18. ASSUME NEW t \in Threads, update_unique_lock_set(t)
      PROVE  LockInv'
  <2>. DEFINE l == LockAt(t)
  <2>1. /\ locks' = [locks EXCEPT ![l] = write_version[t]]
        /\ held' = [held EXCEPT ![t] = @ \ {l}]
        /\ l \in held[t]
        /\ pc[t] = "commit"
        /\ UNCHANGED <<global_version, write_version, pc, vl, list_lock>>
    BY <1>18, PassFacts DEF update_unique_lock_set, lock_update_and_release, txn
  <2>2. ~ IsLocked(write_version[t])
    BY DEF IsLocked
  <2>. HIDE DEF l
  <2>3. LockOwnership'
    BY <2>1, <2>2 DEF LockTypes
  <2>4. NoLockLeft' /\ Parity'
    BY <2>1 DEF LockTypes
  <2>5. VersionBound'
    BY <2>1 DEF LockTypes
  <2>. QED
    BY <2>3, <2>4, <2>5
<1>24. ASSUME NEW t \in Threads, lock_acquire(t)
      PROVE  LockInv'
  <2>1. /\ held[t] = {}
        /\ pc' = [pc EXCEPT ![t] = "concat"] /\ list_lock' = t
        /\ UNCHANGED <<global_version, locks, held, write_version, vl>>
    BY <1>24, PassFacts DEF lock_acquire, txn
  <2>2. NoLockLeft'
    BY <1>24, <2>1, ConstantsOk DEF LockTypes, lock_acquire
  <2>. QED
    BY <2>1, <2>2 DEF LockTypes
<1>19. ASSUME NEW t \in Threads, tm_end_committed(t)
      PROVE  LockInv'
  <2>1. held[t] = {} /\ list_lock' = None /\ UNCHANGED <<global_version, locks>>
    BY <1>19 DEF tm_end_committed, ListLockAfter
  <2>. QED
    BY <1>19, <2>1, DestroyLocks DEF tm_end_committed
<1>20. ASSUME NEW t \in Threads, unlock_unique_lock_set_until(t)
      PROVE  LockInv'
  <2>. DEFINE l == LockAt(t)
  <2>1. /\ locks' = [locks EXCEPT ![l] = lock_release(locks[l])]
        /\ held' = [held EXCEPT ![t] = @ \ {l}]
        /\ l \in held[t]
        /\ pc[t] = "rollback"
        /\ UNCHANGED <<global_version, write_version, pc, vl, list_lock>>
    BY <1>20, PassFacts DEF unlock_unique_lock_set_until, txn
  <2>. HIDE DEF l
  <2>2. /\ ~ IsLocked(lock_release(locks[l]))
        /\ lock_release(locks[l]) = locks[l] - 1
    BY <2>1, ReleaseFacts DEF LockTypes
  <2>3. LockOwnership'
    BY <2>1, <2>2 DEF LockTypes
  <2>4. NoLockLeft' /\ Parity'
    BY <2>1 DEF LockTypes
  <2>5. VersionBound'
    BY <2>1, <2>2 DEF LockTypes
  <2>. QED
    BY <2>3, <2>4, <2>5
<1>21. ASSUME NEW t \in Threads, tm_end_failed(t)
      PROVE  LockInv'
  BY <1>21, PassFacts, DestroyLocks DEF tm_end_failed, shared
<1>22. CASE tm_destroy
  BY <1>22 DEF tm_destroy, txn, local, ghost, memory, table
<1>23. CASE UNCHANGED vars
  BY <1>23 DEF vars, shared, memory, txn, local, table, ghost
<1>. QED
  BY <1>1, <1>2, <1>3, <1>4, <1>5, <1>6, <1>7, <1>8, <1>9, <1>10, <1>11, <1>12, <1>13,
     <1>14, <1>15, <1>16, <1>17, <1>18, <1>19, <1>20, <1>21, <1>22, <1>23, <1>24
  DEF Next, Call, Step, Done

\* The types that the passes over the dictionary are about.
PassTypes ==
    /\ pc \in [Threads -> PcValues]
    /\ unique_locks \in [Threads -> Seq(LockIds)]
    /\ at \in [Threads -> Nat \ {0}]
    /\ key \in [Threads -> LockIds \cup {None}]
    /\ held \in [Threads -> SUBSET LockIds]
    /\ write_set \in [Threads -> SUBSET Addr]
    /\ word_todo \in [Threads -> SUBSET Addr]

\* What a pass of thread t depends on.
PassView(t) ==
    <<pc[t], unique_locks[t], at[t], key[t], held[t], write_set[t], word_todo[t]>>

\* A step of u does not touch the pass of another thread t.
LEMMA PassOfAnother ==
    ASSUME TypeOK, NEW u \in Threads, NEW t \in Threads \ {u}, Call(u) \/ Step(u)
    PROVE  PassView(t)' = PassView(t)
<1>. PassTypes
  BY DEF TypeOK, PassTypes
<1>1. ASSUME NEW is_ro \in Kinds, tm_begin(u, is_ro)
      PROVE  PassView(t)' = PassView(t)
  BY <1>1 DEF PassTypes, PassView, tm_begin, table
<1>2. ASSUME NEW committed, tx_destroy(u, committed)
      PROVE  PassView(t)' = PassView(t)
  BY <1>2 DEF PassTypes, PassView, tx_destroy
<1>3. ASSUME NEW a \in Addr, tm_read(u, a)
      PROVE  PassView(t)' = PassView(t)
  BY <1>2, <1>3 DEF PassTypes, PassView, tm_read, table
<1>4. ASSUME tm_read_recheck(u)
      PROVE  PassView(t)' = PassView(t)
  BY <1>2, <1>4 DEF PassTypes, PassView, tm_read_recheck, table, txn
<1>5. ASSUME tm_read_copy(u)
      PROVE  PassView(t)' = PassView(t)
  BY <1>5 DEF PassTypes, PassView, tm_read_copy, table, txn
<1>6. ASSUME NEW a \in Addr, tm_write(u, a)
      PROVE  PassView(t)' = PassView(t)
  BY <1>6 DEF PassTypes, PassView, tm_write, table, local
<1>7. ASSUME NEW s \in Segs, tm_alloc(u, s) \/ tm_free(u, s)
      PROVE  PassView(t)' = PassView(t)
  BY <1>7 DEF PassView, tm_alloc, tm_free, table, local, vars, txn
<1>8. ASSUME \/ tm_write_misaligned(u) \/ tm_end_read_only(u) \/ tm_end_nomem(u)
             \/ tm_end_committed(u) \/ tm_end_failed(u)
      PROVE  PassView(t)' = PassView(t)
  BY <1>2, <1>8 DEF tm_write_misaligned, tm_end_read_only, tm_end_nomem,
     tm_end_committed, tm_end_failed
<1>9. ASSUME tm_end(u)
      PROVE  PassView(t)' = PassView(t)
  BY <1>9 DEF PassTypes, PassView, tm_end, txn
<1>10. ASSUME lock_unique_lock_set(u)
      PROVE  PassView(t)' = PassView(t)
  BY <1>10 DEF PassTypes, PassView, lock_unique_lock_set, refused, txn
<1>11. ASSUME lock_try_acquire(u)
      PROVE  PassView(t)' = PassView(t)
  BY <1>11 DEF PassTypes, PassView, lock_try_acquire, refused, txn
<1>12. ASSUME tm_end_fetch_add(u)
      PROVE  PassView(t)' = PassView(t)
  BY <1>12 DEF PassTypes, PassView, tm_end_fetch_add, table
<1>13. ASSUME NEW a \in Addr, validate_reading_set(u, a)
      PROVE  PassView(t)' = PassView(t)
  BY <1>13 DEF PassTypes, PassView, validate_reading_set, txn
<1>14. ASSUME tm_end_validated(u)
      PROVE  PassView(t)' = PassView(t)
  BY <1>14 DEF PassTypes, PassView, tm_end_validated, txn
<1>15. ASSUME NEW a \in Addr, write_writing_set(u, a)
      PROVE  PassView(t)' = PassView(t)
  BY <1>15 DEF PassTypes, PassView, write_writing_set, table, txn
<1>16. ASSUME update_unique_lock_set(u)
      PROVE  PassView(t)' = PassView(t)
  BY <1>16 DEF PassTypes, PassView, update_unique_lock_set, txn
<1>17. ASSUME lock_acquire(u)
      PROVE  PassView(t)' = PassView(t)
  BY <1>17 DEF PassTypes, PassView, lock_acquire, table, txn
<1>18. ASSUME unlock_unique_lock_set_until(u)
      PROVE  PassView(t)' = PassView(t)
  BY <1>18 DEF PassTypes, PassView, unlock_unique_lock_set_until, txn
<1>. QED
  BY <1>1, <1>3, <1>4, <1>5, <1>6, <1>7, <1>8, <1>9, <1>10, <1>11, <1>12, <1>13,
     <1>14, <1>15, <1>16, <1>17, <1>18 DEF Call, Step

\* A pass depends on nothing else.
LEMMA PassFrame ==
    ASSUME NEW t \in Threads, PassOf(t), PassView(t)' = PassView(t)
    PROVE  PassOf(t)'
<1>1. /\ pc'[t] = pc[t] /\ unique_locks'[t] = unique_locks[t] /\ at'[t] = at[t]
      /\ key'[t] = key[t] /\ held'[t] = held[t] /\ write_set'[t] = write_set[t]
      /\ word_todo'[t] = word_todo[t]
  BY DEF PassView
<1>2. /\ UniqueLocks(t)' = UniqueLocks(t) /\ Positions(t)' = Positions(t)
      /\ PassOver(t)' = PassOver(t)
  BY <1>1 DEF UniqueLocks, Positions, PassOver
<1>3. ASSUME NEW i \in Positions(t)
      PROVE  HeldAt(t, i)' = HeldAt(t, i)
  BY <1>1 DEF HeldAt
<1>. QED
  BY <1>1, <1>2, <1>3 DEF PassOf

\* A thread that starts a pass of another kind, or moves on, keeps the facts
\* about the dictionary itself; what is left is which locks are held.
LEMMA PassMove ==
    ASSUME TypeOK, NEW t \in Threads, PassOf(t),
           pc[t] \in {"lock", "cas", "validate", "commit", "rollback"},
           unique_locks'[t] = unique_locks[t], write_set'[t] = write_set[t],
           held'[t] \subseteq UniqueLocks(t),
           \A i \in Positions(t) : unique_locks[t][i] \in held'[t] <=> HeldAt(t, i)',
           pc'[t] = "cas" => ~ PassOver(t)',
           pc'[t] = "commit" /\ word_todo'[t] # {} => at'[t] = 1
    PROVE  PassOf(t)'
<1>1. UniqueLocks(t)' = UniqueLocks(t) /\ Positions(t)' = Positions(t)
  BY DEF UniqueLocks, Positions
<1>. QED
  BY <1>1 DEF PassOf

\* What a step does to the pass of its own thread.
LEMMA PassStep ==
    ASSUME IInv, NEW t \in Threads, Call(t) \/ Step(t)
    PROVE  PassOf(t)'
<1>. TypeOK /\ PassTypes /\ PassOf(t) /\ LockInv
  BY DEF IInv, TypeOK, PassTypes, PassInv
<1>. at[t] \in Nat /\ at[t] > 0 /\ unique_locks[t] \in Seq(LockIds)
  BY DEF PassTypes
<1>0. ASSUME pc'[t] \in {"idle", "run", "reread", "copy", "concat"}
      PROVE  PassOf(t)'
  BY <1>0 DEF PassOf
<1>1. ASSUME NEW committed, tx_destroy(t, committed)
      PROVE  PassOf(t)'
  BY <1>0, <1>1 DEF PassTypes, tx_destroy
<1>2. ASSUME \/ \E is_ro \in Kinds : tm_begin(t, is_ro)
             \/ \E a \in Addr : tm_read(t, a) \/ tm_write(t, a)
             \/ \E s \in Segs : tm_alloc(t, s) \/ tm_free(t, s)
             \/ tm_write_misaligned(t) \/ tm_end_read_only(t) \/ tm_end_nomem(t)
             \/ tm_read_recheck(t) \/ tm_read_copy(t) \/ lock_acquire(t)
             \/ tm_end_committed(t) \/ tm_end_failed(t)
      PROVE  PassOf(t)'
  BY <1>0, <1>1, <1>2 DEF PassTypes, tm_begin, tm_read, tm_write, tm_alloc, tm_free,
     tm_write_misaligned, tm_end_read_only, tm_end_nomem, tm_read_recheck, tm_read_copy,
     lock_acquire, tm_end_committed, tm_end_failed, local, vars
<1>3. ASSUME tm_end(t)
      PROVE  PassOf(t)'
  <2>1. PICK order \in SetToSeqs(UniqueLocks(t)) :
          unique_locks' = [unique_locks EXCEPT ![t] = order]
    BY <1>3 DEF tm_end
  <2>2. /\ unique_locks'[t] = order /\ pc'[t] = "lock" /\ at'[t] = 1
        /\ held'[t] = {} /\ write_set' = write_set
    BY <1>3, <2>1 DEF tm_end, txn, PassTypes, LockInv, NoLockLeft
  <2>3. /\ UniqueLocks(t)' = UniqueLocks(t)
        /\ Positions(t)' = 1..Len(order)
    BY <2>2 DEF UniqueLocks, Positions
  <2>4. ASSUME NEW i \in Positions(t)' PROVE ~ HeldAt(t, i)'
    <3>1. ~ (i < 1) /\ HeldAt(t, i)' = (i < 1)
      BY <2>2, <2>3, <2>4 DEF HeldAt
    <3>. QED
      BY <3>1
  <2>. QED
    BY <2>2, <2>3, <2>4, OrderFacts DEF PassOf
<1>4. ASSUME pc[t] \in {"lock", "cas"}, ~ PassOver(t), pc'[t] = "rollback", at'[t] = 1,
             key'[t] = LockAt(t), UNCHANGED <<unique_locks, held, write_set>>
      PROVE  PassOf(t)'
  <2>0. at[t] \in Positions(t) /\ LockAt(t) = unique_locks[t][at[t]]
    BY <1>4 DEF PassOver, Positions, LockAt
  <2>1. ASSUME NEW i \in Positions(t)
        PROVE  HeldAt(t, i)' <=> i < at[t]
    <3>1. HeldAt(t, i)' <=> \A j \in 1..i : unique_locks[t][j] # unique_locks[t][at[t]]
      BY <1>4, <2>0, <2>1 DEF HeldAt, Positions
    <3>2. ASSUME i < at[t], NEW j \in 1..i
          PROVE  unique_locks[t][j] # unique_locks[t][at[t]]
      BY <1>4, <2>0, <2>1, <3>2 DEF PassOf, Positions
    <3>3. i >= at[t] => at[t] \in 1..i
      BY <2>1 DEF Positions
    <3>. QED
      BY <2>1, <3>1, <3>2, <3>3 DEF Positions
  <2>2. ASSUME NEW i \in Positions(t)
        PROVE  unique_locks[t][i] \in held'[t] <=> i < at[t]
    BY <1>4, <2>2 DEF PassOf, HeldAt
  <2>. QED
    BY <1>4, <2>1, <2>2, PassMove DEF PassOf
<1>5. ASSUME lock_unique_lock_set(t)
      PROVE  PassOf(t)'
  <2>0. pc[t] = "lock" /\ ~ PassOver(t) /\ UNCHANGED <<unique_locks, held, write_set>>
    BY <1>5 DEF lock_unique_lock_set, txn
  <2>1. CASE pc' = [pc EXCEPT ![t] = "cas"] /\ UNCHANGED <<at, key>>
    <3>1. pc'[t] = "cas" /\ at'[t] = at[t] /\ PassOver(t)' = PassOver(t)
      BY <2>0, <2>1 DEF PassTypes, PassOver
    <3>2. ASSUME NEW i \in Positions(t)
          PROVE  HeldAt(t, i)' <=> HeldAt(t, i)
      BY <2>0, <3>1 DEF HeldAt
    <3>. QED
      BY <2>0, <3>1, <3>2, PassMove DEF PassOf
  <2>2. CASE refused(t)
    BY <1>4, <2>0, <2>2 DEF PassTypes, refused
  <2>. QED
    BY <1>5, <2>1, <2>2 DEF lock_unique_lock_set
<1>6. ASSUME lock_try_acquire(t)
      PROVE  PassOf(t)'
  <2>0. pc[t] = "cas" /\ ~ PassOver(t) /\ UNCHANGED <<unique_locks, write_set>>
    BY <1>6 DEF lock_try_acquire, txn, PassOf
  <2>1. CASE CasOk(locks[LockAt(t)], vl[t])
    <3>0. at[t] \in Positions(t) /\ LockAt(t) = unique_locks[t][at[t]]
      BY <2>0 DEF PassOver, Positions, LockAt
    <3>1. /\ pc'[t] = "lock" /\ at'[t] = at[t] + 1
          /\ held'[t] = held[t] \cup {LockAt(t)}
      BY <1>6, <2>1 DEF lock_try_acquire, PassTypes
    <3>2. ASSUME NEW i \in Positions(t)
          PROVE  unique_locks[t][i] \in held'[t] <=> i < at[t] \/ i = at[t]
      BY <2>0, <3>0, <3>1, <3>2 DEF PassOf, HeldAt
    <3>3. ASSUME NEW i \in Positions(t)
          PROVE  HeldAt(t, i)' <=> i < at[t] \/ i = at[t]
      BY <3>1, <3>3 DEF HeldAt, Positions
    <3>4. held'[t] \subseteq UniqueLocks(t)
      BY <2>0, <3>0, <3>1 DEF PassOf
    <3>. QED
      BY <2>0, <3>1, <3>2, <3>3, <3>4, PassMove
  <2>2. CASE ~ CasOk(locks[LockAt(t)], vl[t])
    <3>1. pc'[t] = "rollback" /\ at'[t] = 1 /\ key'[t] = LockAt(t) /\ UNCHANGED held
      BY <1>6, <2>2 DEF lock_try_acquire, refused, PassTypes
    <3>. QED
      BY <1>4, <2>0, <3>1
  <2>. QED
    BY <2>1, <2>2
<1>7. ASSUME tm_end_fetch_add(t)
      PROVE  PassOf(t)'
  <2>1. /\ pc[t] = "lock" /\ PassOver(t) /\ pc'[t] = "validate"
        /\ UNCHANGED <<unique_locks, held, write_set>>
    BY <1>7 DEF tm_end_fetch_add, table, PassTypes
  <2>2. ASSUME NEW i \in Positions(t)
        PROVE  unique_locks[t][i] \in held[t] /\ HeldAt(t, i)'
    BY <2>1, <2>2 DEF PassOf, HeldAt, PassOver, Positions
  <2>. QED
    BY <2>1, <2>2, PassMove DEF PassOf
<1>8. ASSUME NEW a \in Addr, validate_reading_set(t, a)
      PROVE  PassOf(t)'
  <2>1. /\ pc[t] = "validate" /\ UNCHANGED <<unique_locks, held, write_set>>
        /\ \/ pc'[t] = "validate"
           \/ pc'[t] = "rollback" /\ at'[t] = 1 /\ key'[t] = None
    BY <1>8 DEF validate_reading_set, txn, PassTypes
  <2>2. ASSUME NEW i \in Positions(t)
        PROVE  unique_locks[t][i] \in held[t]
    BY <2>1, <2>2 DEF PassOf, HeldAt
  <2>3. ASSUME NEW i \in Positions(t)
        PROVE  HeldAt(t, i)'
    <3>1. CASE pc'[t] = "validate"
      BY <3>1 DEF HeldAt
    <3>2. CASE pc'[t] = "rollback" /\ at'[t] = 1 /\ key'[t] = None
      <4>1. \A j \in 1..i : unique_locks[t][j] # None
        BY <2>3, ConstantsOk DEF Positions
      <4>. QED
        BY <2>1, <2>3, <3>2, <4>1 DEF HeldAt, Positions
    <3>. QED
      BY <2>1, <3>1, <3>2
  <2>. QED
    BY <2>1, <2>2, <2>3, PassMove DEF PassOf
<1>9. ASSUME tm_end_validated(t)
      PROVE  PassOf(t)'
  <2>1. /\ pc[t] = "validate" /\ pc'[t] = "commit" /\ at'[t] = 1
        /\ UNCHANGED <<unique_locks, held, write_set>>
    BY <1>9 DEF tm_end_validated, txn, PassTypes
  <2>2. ASSUME NEW i \in Positions(t)
        PROVE  unique_locks[t][i] \in held[t] /\ HeldAt(t, i)'
    BY <2>1, <2>2 DEF PassOf, HeldAt, Positions
  <2>. QED
    BY <2>1, <2>2, PassMove DEF PassOf
<1>10. ASSUME NEW a \in Addr, write_writing_set(t, a)
      PROVE  PassOf(t)'
  <2>1. /\ pc[t] = "commit" /\ word_todo[t] # {}
        /\ UNCHANGED <<pc, unique_locks, at, key, held, write_set>>
    BY <1>10 DEF write_writing_set, table, txn
  <2>2. ASSUME NEW i \in Positions(t)
        PROVE  HeldAt(t, i)' <=> HeldAt(t, i)
    BY <2>1 DEF HeldAt
  <2>. QED
    BY <2>1, <2>2, PassMove DEF PassOf
<1>11. ASSUME pc[t] \in {"commit", "rollback"}, ~ PassOver(t), UNCHANGED pc,
              pc[t] = "commit" => word_todo'[t] = {},
              pc[t] = "rollback" => LockAt(t) # key[t],
              at'[t] = at[t] + 1, held'[t] = held[t] \ {LockAt(t)},
              UNCHANGED <<unique_locks, key, write_set>>
       PROVE  PassOf(t)'
  <2>0. at[t] \in Positions(t) /\ LockAt(t) = unique_locks[t][at[t]]
    BY <1>11 DEF PassOver, Positions, LockAt
  <2>1. ASSUME NEW i \in Positions(t)
        PROVE  unique_locks[t][i] \in held'[t] <=> HeldAt(t, i) /\ i # at[t]
    BY <1>11, <2>0, <2>1 DEF PassOf
  <2>2. ASSUME NEW i \in Positions(t)
        PROVE  HeldAt(t, i)' <=> HeldAt(t, i) /\ i # at[t]
    <3>0. i \in Nat /\ (at[t] + 1 <= i <=> at[t] <= i /\ i # at[t])
      BY <2>2 DEF Positions
    <3>1. CASE pc[t] = "commit"
      <4>1. (HeldAt(t, i)' <=> at[t] + 1 <= i) /\ (HeldAt(t, i) <=> at[t] <= i)
        BY <1>11, <3>1 DEF HeldAt
      <4>. QED
        BY <3>0, <4>1
    <3>2. CASE pc[t] = "rollback"
      <4>1. /\ HeldAt(t, i)' <=> /\ at[t] + 1 <= i
                                 /\ \A j \in at[t] + 1..i : unique_locks[t][j] # key[t]
            /\ HeldAt(t, i)  <=> /\ at[t] <= i
                                 /\ \A j \in at[t]..i : unique_locks[t][j] # key[t]
        BY <1>11, <3>2 DEF HeldAt
      <4>2. \A j \in at[t]..i : j = at[t] \/ j \in at[t] + 1..i
        BY <3>0
      <4>3. \A j \in at[t] + 1..i : j \in at[t]..i
        BY <3>0
      <4>4. unique_locks[t][at[t]] # key[t]
        BY <1>11, <2>0, <3>2
      <4>. QED
        BY <3>0, <4>1, <4>2, <4>3, <4>4
    <3>. QED
      BY <1>11, <3>1, <3>2
  <2>3. held'[t] \subseteq UniqueLocks(t)
    BY <1>11 DEF PassOf
  <2>. QED
    BY <1>11, <2>1, <2>2, <2>3, PassMove
<1>12. ASSUME update_unique_lock_set(t)
       PROVE  PassOf(t)'
  <2>1. /\ pc[t] = "commit" /\ ~ PassOver(t) /\ word_todo'[t] = {} /\ UNCHANGED pc
        /\ at'[t] = at[t] + 1 /\ held'[t] = held[t] \ {LockAt(t)}
        /\ UNCHANGED <<unique_locks, key, write_set>>
    BY <1>12 DEF update_unique_lock_set, WriteBackDone, PassTypes, txn
  <2>. QED
    BY <1>11, <2>1
<1>13. ASSUME unlock_unique_lock_set_until(t)
       PROVE  PassOf(t)'
  <2>1. /\ pc[t] = "rollback" /\ ~ PassOver(t) /\ LockAt(t) # key[t] /\ UNCHANGED pc
        /\ at'[t] = at[t] + 1 /\ held'[t] = held[t] \ {LockAt(t)}
        /\ UNCHANGED <<unique_locks, key, write_set>>
    BY <1>13 DEF unlock_unique_lock_set_until, ToRelease, PassTypes, txn
  <2>. QED
    BY <1>11, <2>1
<1>. QED
  BY <1>2, <1>3, <1>5, <1>6, <1>7, <1>8, <1>9, <1>10, <1>12, <1>13 DEF Call, Step

\* Every step keeps the passes consistent.
LEMMA PassNext == IInv /\ [Next]_vars => PassInv'
<1>. SUFFICES ASSUME IInv, [Next]_vars, NEW t \in Threads PROVE PassOf(t)'
  BY DEF PassInv
<1>. TypeOK /\ PassOf(t)
  BY DEF IInv, PassInv
<1>1. ASSUME Call(t) \/ Step(t) PROVE PassOf(t)'
  BY <1>1, PassStep
<1>2. ASSUME NEW u \in Threads \ {t}, Call(u) \/ Step(u) PROVE PassOf(t)'
  BY <1>2, PassOfAnother, PassFrame
<1>3. CASE tm_destroy \/ UNCHANGED vars
  <2>1. PassView(t)' = PassView(t)
    BY <1>3 DEF tm_destroy, vars, txn, local, table, PassView
  <2>. QED
    BY <2>1, PassFrame
<1>. QED
  BY <1>1, <1>2, <1>3 DEF Next, Done

LEMMA NextInv == IInv /\ [Next]_vars => IInv'
BY TypeNext, LockNext, PassNext DEF IInv
-----------------------------------------------------------------------------
(* Theorems *)

\* The inductive invariant holds in every reachable state.
THEOREM Invariance == Spec => []IInv
<1>. QED
  BY InitInv, NextInv, PTL DEF Spec

\* Type correctness of the region, the transactions and the history: in
\* particular no roll-back of tm_end drives a lock below zero.
THEOREM TypeCorrect == Spec => []TypeOK
<1>1. IInv => TypeOK
  BY DEF IInv
<1>. QED
  BY <1>1, Invariance, PTL

\* Committers exclude each other: a lock bit of version_types.c is set
\* exactly while one transaction holds the lock.
THEOREM LocksOwned == Spec => []LockOwnership
<1>1. IInv => LockOwnership
  BY DEF IInv, LockInv
<1>. QED
  BY <1>1, Invariance, PTL

\* Every way out of tm_end released the locks it had acquired.
THEOREM LocksReturned == Spec => []NoLockLeft
<1>1. IInv => NoLockLeft
  BY DEF IInv, LockInv
<1>. QED
  BY <1>1, Invariance, PTL

-----------------------------------------------------------------------------
(* Versions only grow *)

\* No step takes the version of a lock back.
LEMMA VersionsStep == IInv /\ [Next]_vars => [VersionsKept]_locks
<1>. SUFFICES ASSUME IInv, [Next]_vars, NEW k \in LockIds, UNCHANGED locks => FALSE
              PROVE  Version(locks[k]) <= Version(locks'[k])
  BY DEF VersionsKept
<1>. TypeOK /\ LockInv
  BY DEF IInv
<1>1. \A v \in Nat : Version(v) <= Version(v)
  BY VersionMonotone
<1>2. ASSUME NEW t \in Threads, lock_try_acquire(t)
      PROVE  Version(locks[k]) <= Version(locks'[k])
  <2>1. /\ LockAt(t) \in LockIds
        /\ locks[LockAt(t)] = vl[t]
        /\ locks' = [locks EXCEPT ![LockAt(t)] = SetLockBit(vl[t])]
    BY <1>2, PassFacts DEF lock_try_acquire, CasOk
  <2>2. Version(SetLockBit(vl[t])) = Version(vl[t])
    BY <1>2, SetLockBitFacts DEF TypeOK, lock_try_acquire, LockInv, Parity
  <2>. QED
    BY <1>1, <2>1, <2>2 DEF TypeOK
<1>3. ASSUME NEW t \in Threads, update_unique_lock_set(t)
      PROVE  Version(locks[k]) <= Version(locks'[k])
  <2>. DEFINE l == LockAt(t)
  <2>1. /\ l \in LockIds
        /\ locks' = [locks EXCEPT ![l] = write_version[t]]
        /\ locks[l] < write_version[t]
    BY <1>3, PassFacts, LockAtType
    DEF update_unique_lock_set, lock_update_and_release, LockInv, VersionBound
  <2>. HIDE DEF l
  <2>2. Version(locks[l]) <= Version(write_version[t])
    BY <2>1, VersionMonotone DEF TypeOK
  <2>. QED
    BY <1>1, <2>1, <2>2 DEF TypeOK
<1>4. ASSUME NEW t \in Threads, unlock_unique_lock_set_until(t)
      PROVE  Version(locks[k]) <= Version(locks'[k])
  <2>. DEFINE l == LockAt(t)
  <2>1. /\ l \in LockIds
        /\ locks' = [locks EXCEPT ![l] = lock_release(locks[l])]
        /\ IsLocked(locks[l])
    BY <1>4, PassFacts, LockAtType
    DEF unlock_unique_lock_set_until, ToRelease, LockInv, LockOwnership
  <2>. HIDE DEF l
  <2>2. Version(lock_release(locks[l])) = Version(locks[l])
    BY <2>1, ReleaseFacts DEF TypeOK
  <2>. QED
    BY <1>1, <2>1, <2>2 DEF TypeOK
<1>5. ASSUME NEW t \in Threads, Call(t)
      PROVE  UNCHANGED locks
  BY <1>5 DEF Call, tm_begin, tm_read, tm_write, tm_alloc, tm_free,
     tm_write_misaligned, tm_end_read_only, tm_end_nomem, tm_end, shared, vars, memory, table
<1>6. CASE tm_destroy \/ Done \/ UNCHANGED vars
  BY <1>6 DEF tm_destroy, Done, vars, shared, memory, table
<1>7. ASSUME NEW t \in Threads, Step(t)
      PROVE  Version(locks[k]) <= Version(locks'[k])
  <2>1. \/ UNCHANGED locks
        \/ lock_try_acquire(t)
        \/ update_unique_lock_set(t)
        \/ unlock_unique_lock_set_until(t)
    BY <1>7 DEF Step, shared, tm_read_recheck, tm_read_copy, lock_unique_lock_set,
       tm_end_fetch_add, validate_reading_set, tm_end_validated, write_writing_set,
       lock_acquire, tm_end_committed, tm_end_failed
  <2>. QED
    BY <1>2, <1>3, <1>4, <2>1
<1>. QED
  BY <1>5, <1>6, <1>7 DEF Next

\* The version of a lock never goes backwards, whatever commits and aborts:
\* roll-back restores it and commit replaces it by a newer one.
THEOREM VersionsGrow == Spec => LockVersionsGrow
<1>. QED
  BY Invariance, VersionsStep, PTL DEF Spec, LockVersionsGrow

-----------------------------------------------------------------------------
(* A transaction alone *)

\* A transaction that has met no other one: nobody else is in the library, its
\* read version is the clock, its locks are free, and it skips the validation.
Alone(t) ==
    /\ \A u \in Threads \ {t} : pc[u] = "idle"
    /\ pc[t] # "rollback"
    /\ pc[t] \in {"run", "reread", "copy", "lock", "cas"} => read_version[t] = global_version
    /\ pc[t] = "validate" => word_todo[t] = {}
    /\ pc[t] = "cas" => vl[t] = locks[LockAt(t)]

SoloInv == \A t \in Threads : pc[t] # "idle" /\ ~ overlap[t] => Alone(t)

\* Locks that a transaction alone does not hold are free and no newer than the
\* clock.
LEMMA FreeAlone ==
    ASSUME IInv, NEW t \in Threads, \A u \in Threads \ {t} : pc[u] = "idle",
           NEW l \in LockIds, l \notin held[t]
    PROVE  ~ IsLocked(locks[l]) /\ Version(locks[l]) <= Version(global_version)
<1>1. ~ IsLocked(locks[l])
  BY DEF IInv, LockInv, LockOwnership, NoLockLeft
<1>2. /\ locks[l] \in Nat /\ global_version \in Nat /\ global_version % 2 = 0
      /\ locks[l] <= global_version + 1
  BY DEF IInv, TypeOK, LockInv, Parity, VersionBound
<1>3. locks[l] <= global_version
  BY <1>1, <1>2, EvenBelowClock
<1>. QED
  BY <1>1, <1>2, <1>3, VersionMonotone

\* A transaction alone finds the lock of the region's list free.
LEMMA ListAlone ==
    ASSUME IInv, NEW t \in Threads, Alone(t), pc[t] = "commit"
    PROVE  list_lock = None
BY DEF IInv, TypeOK, LockInv, NoLockLeft, Alone

LEMMA CheckAlone ==
    ASSUME IInv, NEW t \in Threads, Alone(t), pc[t] \in {"run", "reread"}, NEW a \in Addr
    PROVE  LockCheck(t, a)
<1>1. LockOf[a] \in LockIds /\ held[t] = {}
  BY ConstantsOk DEF IInv, LockInv, NoLockLeft
<1>. QED
  BY <1>1, FreeAlone DEF Alone, LockCheck, lock_check

\* What a step of u does to another transaction t.
LEMMA StepOfAnother ==
    ASSUME TypeOK, NEW u \in Threads, NEW t \in Threads \ {u}, Call(u) \/ Step(u)
    PROVE  /\ pc'[t] = pc[t]
           /\ overlap[t] => overlap'[t]
           /\ pc[u] = "idle" /\ pc[t] # "idle" => overlap'[t]
<1>1. ASSUME NEW is_ro \in Kinds, tm_begin(u, is_ro)
      PROVE  pc'[t] = pc[t] /\ overlap'[t] = (overlap[t] \/ pc[t] # "idle")
  BY <1>1 DEF TypeOK, tm_begin
<1>2. ASSUME NEW committed, tx_destroy(u, committed)
      PROVE  pc'[t] = pc[t] /\ overlap'[t] = overlap[t]
  BY <1>2 DEF TypeOK, tx_destroy
<1>3. CASE Step(u)
  BY <1>2, <1>3 DEF TypeOK, Step, tm_read_recheck, tm_read_copy, lock_unique_lock_set,
     lock_try_acquire, tm_end_fetch_add, validate_reading_set, tm_end_validated,
     write_writing_set, update_unique_lock_set, lock_acquire, tm_end_committed,
     unlock_unique_lock_set_until, tm_end_failed, refused, ghost
<1>4. CASE Call(u) /\ \A is_ro \in Kinds : ~ tm_begin(u, is_ro)
  BY <1>2, <1>4 DEF TypeOK, Call, tm_read, tm_write, tm_alloc, tm_free,
     tm_write_misaligned, tm_end_read_only, tm_end_nomem, tm_end, ghost, local, vars
<1>. QED
  BY <1>1, <1>3, <1>4
\* What a step of a transaction that stays alone does to it: it is never refused.
LEMMA StepAlone ==
    ASSUME IInv, NEW t \in Threads, pc[t] # "idle" => overlap[t] \/ Alone(t),
           Call(t) \/ Step(t), pc'[t] # "idle", ~ overlap'[t],
           \A u \in Threads \ {t} : pc'[u] = pc[u]
    PROVE  Alone(t)'
<1>. TypeOK
  BY DEF IInv
<1>1. ASSUME NEW is_ro \in Kinds, tm_begin(t, is_ro)
      PROVE  Alone(t)'
  <2>1. overlap'[t] = (\E v \in Threads \ {t} : pc[v] # "idle")
    BY <1>1, Zenon DEF tm_begin
  <2>2. /\ pc' = [pc EXCEPT ![t] = "run"] /\ UNCHANGED global_version
        /\ read_version' = [read_version EXCEPT ![t] = global_version]
    BY <1>1 DEF tm_begin, shared, memory, table
  <2>. QED
    BY <2>1, <2>2 DEF TypeOK, Alone
<1>2. ASSUME pc[t] # "idle", UNCHANGED overlap PROVE Alone(t)
  BY <1>2
<1>3. ASSUME NEW committed, tx_destroy(t, committed) PROVE FALSE
  BY <1>3 DEF TypeOK, tx_destroy
<1>4. ASSUME NEW a \in Addr, tm_read(t, a) PROVE Alone(t)'
  <2>1. /\ pc[t] = "run" /\ pc' = [pc EXCEPT ![t] = "reread"]
        /\ UNCHANGED <<global_version, read_version, overlap>>
    BY <1>3, <1>4 DEF tm_read, shared, ghost, memory, table
  <2>. QED
    BY <1>2, <2>1 DEF TypeOK, Alone
<1>5. ASSUME tm_read_recheck(t) PROVE Alone(t)'
  <2>1. /\ pc[t] = "reread" /\ pc' = [pc EXCEPT ![t] = "copy"]
        /\ UNCHANGED <<global_version, read_version, overlap>>
    BY <1>3, <1>5 DEF tm_read_recheck, shared, txn, ghost, memory, table
  <2>. QED
    BY <1>2, <2>1 DEF TypeOK, Alone
<1>6. ASSUME \/ tm_read_copy(t)
             \/ \E a \in Addr : tm_write(t, a)
             \/ \E s \in Segs : tm_alloc(t, s) \/ tm_free(t, s)
      PROVE  Alone(t)'
  <2>1. /\ pc[t] \in {"copy", "run"} /\ pc'[t] = "run"
        /\ UNCHANGED <<global_version, read_version, overlap>>
    BY <1>6
    DEF TypeOK, tm_read_copy, tm_write, tm_alloc, tm_free, vars, shared, memory, txn, local,
        table, ghost
  <2>. QED
    BY <1>2, <2>1 DEF TypeOK, Alone
<1>7. ASSUME tm_end(t) PROVE Alone(t)'
  <2>1. /\ pc[t] = "run" /\ pc' = [pc EXCEPT ![t] = "lock"] /\ held[t] = {}
        /\ UNCHANGED <<global_version, read_version, held, overlap>>
    BY <1>7 DEF tm_end, shared, txn, ghost, IInv, LockInv, NoLockLeft, memory, table
  <2>. QED
    BY <1>2, <2>1 DEF TypeOK, Alone
<1>8. ASSUME lock_unique_lock_set(t) PROVE Alone(t)'
  <2>1. /\ pc[t] = "lock" /\ Alone(t)
        /\ LockAt(t) \in LockIds /\ LockAt(t) \notin held[t]
        /\ UNCHANGED <<global_version, locks, read_version, unique_locks, overlap>>
    BY <1>2, <1>8, PassFacts, LockAtType DEF lock_unique_lock_set, shared, txn, ghost
  <2>2. TryLoadOk(locks[LockAt(t)])
    BY <2>1, FreeAlone DEF Alone, TryLoadOk
  <2>3. /\ pc' = [pc EXCEPT ![t] = "cas"] /\ UNCHANGED at
        /\ vl' = [vl EXCEPT ![t] = locks[LockAt(t)]]
    BY <1>8, <2>2 DEF lock_unique_lock_set
  <2>4. LockAt(t)' = LockAt(t)
    BY <2>1, <2>3 DEF LockAt
  <2>. QED
    BY <2>1, <2>3, <2>4 DEF TypeOK, Alone
<1>9. ASSUME lock_try_acquire(t) PROVE Alone(t)'
  <2>1. /\ pc[t] = "cas" /\ Alone(t)
        /\ UNCHANGED <<global_version, read_version, overlap>>
    BY <1>2, <1>9 DEF lock_try_acquire, txn, ghost
  <2>2. CasOk(locks[LockAt(t)], vl[t])
    BY <2>1 DEF Alone, CasOk
  <2>3. pc' = [pc EXCEPT ![t] = "lock"]
    BY <1>9, <2>2 DEF lock_try_acquire
  <2>. QED
    BY <2>1, <2>3 DEF TypeOK, Alone
<1>10. ASSUME tm_end_fetch_add(t) PROVE Alone(t)'
  <2>1. /\ pc[t] = "lock" /\ Alone(t) /\ pc' = [pc EXCEPT ![t] = "validate"]
        /\ word_todo' = [word_todo EXCEPT ![t] = ToValidate(t, global_version + 2)]
    BY <1>2, <1>10 DEF tm_end_fetch_add, ghost, memory, table
  <2>2. ToValidate(t, global_version + 2) = {}
    BY <2>1 DEF Alone, ToValidate
  <2>. QED
    BY <2>1, <2>2 DEF TypeOK, Alone
<1>11. ASSUME NEW a \in Addr, validate_reading_set(t, a) PROVE FALSE
  BY <1>2, <1>11 DEF validate_reading_set, ghost, Alone, memory, table
<1>12. ASSUME \/ tm_end_validated(t)
              \/ \E a \in Addr : write_writing_set(t, a)
              \/ update_unique_lock_set(t)
              \/ lock_acquire(t)
       PROVE  Alone(t)'
  <2>1. /\ pc[t] \in {"validate", "commit"} /\ pc'[t] \in {"commit", "concat"}
        /\ UNCHANGED overlap
    BY <1>12 DEF TypeOK, tm_end_validated, write_writing_set, update_unique_lock_set,
       lock_acquire, ghost
  <2>. QED
    BY <1>2, <2>1 DEF Alone
<1>13. ASSUME unlock_unique_lock_set_until(t) PROVE FALSE
  BY <1>2, <1>13 DEF unlock_unique_lock_set_until, ghost, Alone, memory, table
<1>14. ~ tm_write_misaligned(t) /\ ~ tm_end_read_only(t) /\ ~ tm_end_nomem(t)
       /\ ~ tm_end_committed(t) /\ ~ tm_end_failed(t)
  BY <1>3 DEF tm_write_misaligned, tm_end_read_only, tm_end_nomem, tm_end_committed,
     tm_end_failed
<1>. QED
  BY <1>1, <1>4, <1>5, <1>6, <1>7, <1>8, <1>9, <1>10, <1>11, <1>12, <1>13, <1>14
  DEF Call, Step

LEMMA SoloNext == IInv /\ SoloInv /\ [Next]_vars => SoloInv'
<1>. SUFFICES ASSUME IInv, SoloInv, [Next]_vars, NEW t \in Threads,
                     pc'[t] # "idle", ~ overlap'[t]
              PROVE  Alone(t)'
  BY DEF SoloInv
<1>1. ASSUME Call(t) \/ Step(t) PROVE Alone(t)'
  BY <1>1, StepOfAnother, StepAlone DEF IInv, SoloInv
<1>2. ASSUME NEW u \in Threads \ {t}, Call(u) \/ Step(u) PROVE FALSE
  <2>1. pc[t] # "idle" /\ ~ overlap[t] /\ pc[u] # "idle"
    BY <1>2, StepOfAnother DEF IInv
  <2>. QED
    BY <1>2, <2>1 DEF SoloInv, Alone
<1>3. CASE tm_destroy \/ UNCHANGED vars
  <2>1. /\ UNCHANGED <<global_version, locks, txn, local, ghost>>
        /\ pc[t] # "idle" /\ ~ overlap[t]
    BY <1>3 DEF tm_destroy, vars, shared, local, ghost
  <2>2. LockAt(t)' = LockAt(t) /\ Alone(t)
    BY <2>1 DEF LockAt, local, table, SoloInv
  <2>. QED
    BY <2>1, <2>2 DEF txn, local, Alone
<1>. QED
  BY <1>1, <1>2, <1>3 DEF Next, Done

\* A transaction that has met no other one is not aborted by a conflict:
\* tm_read refuses nothing, tm_end does not roll back and finds the list's lock
\* free, whatever earlier transactions left in the locks and in the clock.
THEOREM AloneCommits == Spec => []SoloCommits
<1>1. Init => SoloInv
  BY DEF Init, SoloInv
<1>2. IInv /\ SoloInv => SoloCommits
  BY CheckAlone, ListAlone DEF SoloInv, SoloCommits, Alone, Accessible
<1>. QED
  BY <1>1, <1>2, Invariance, SoloNext, PTL DEF Spec

-----------------------------------------------------------------------------
(* Memory: the inductive invariant *)

\* The types that memory is about.
MemoryTypes ==
    /\ pc \in [Threads -> PcValues]
    /\ word \in [Threads -> Addr \cup {None}]
    /\ word_todo \in [Threads -> SUBSET Addr]
    /\ read_only \in [Threads -> BOOLEAN]
    /\ read_set \in [Threads -> SUBSET Addr]
    /\ write_set \in [Threads -> SUBSET Addr]
    /\ alloc_set \in [Threads -> SUBSET Segs]
    /\ lost \in [Threads -> SUBSET Segs]
    /\ seen \in [Threads -> SUBSET (Addr \X Nat)]

\* Live segments are those of the region, those in no list and those of running
\* transactions, and each belongs to one of them only.
SegmentsOwned ==
    /\ segments \subseteq live
    /\ unlisted \subseteq live \ segments
    /\ \A t \in Threads : alloc_set[t] \subseteq live \ (segments \cup unlisted)
    /\ \A t, u \in Threads : t # u => alloc_set[t] \cap alloc_set[u] = {}
    /\ \A s \in live : s \in segments \/ s \in unlisted \/ \E t \in Threads : s \in alloc_set[t]
    /\ \A t \in Threads : read_only[t] => alloc_set[t] = {}

\* A segment in no list is known to one transaction, or to all, or to nobody.
UnlistedOwned ==
    /\ leaked \subseteq unlisted
    /\ \A t \in Threads : lost[t] \subseteq unlisted \ leaked
    /\ \A t, u \in Threads : t # u => lost[t] \cap lost[u] = {}

\* What tx_destroy leaves and tm_begin finds.
IdleEmpty ==
    \A t \in Threads : pc[t] = "idle" =>
        /\ read_set[t] = {} /\ write_set[t] = {} /\ seen[t] = {}
        /\ alloc_set[t] = {} /\ lost[t] = {}

\* tm_destroy comes last.
DownIsIdle == ~ up => segments = {} /\ \A t \in Threads : pc[t] = "idle"

\* A transaction names only what it may access.
NamesAccessible ==
    \A t \in Threads :
        /\ write_set[t] \subseteq Accessible(t)
        /\ pc[t] \in {"reread", "copy"} => word[t] \in Accessible(t)
        /\ pc[t] = "commit" => word_todo[t] \subseteq write_set[t]

\* What was written by a committed transaction is in the region or about to be.
WritesPublished ==
    up => \A c \in commits : \A a \in c.writes : SegOf(a) \in Published

MemoryInv ==
    /\ SegmentsOwned /\ UnlistedOwned /\ IdleEmpty /\ DownIsIdle
    /\ NamesAccessible /\ WritesPublished

LEMMA InitMemory == Init => MemoryInv
<1>. SUFFICES ASSUME Init PROVE MemoryInv
  OBVIOUS
<1>1. SegmentsOwned
  BY DEF Init, SegmentsOwned
<1>2. UnlistedOwned /\ IdleEmpty /\ DownIsIdle /\ NamesAccessible /\ WritesPublished
  BY DEF Init, UnlistedOwned, IdleEmpty, DownIsIdle, NamesAccessible, WritesPublished
<1>. QED
  BY <1>1, <1>2 DEF MemoryInv

LEMMA PublishedIs ==
    /\ \A s : s \in Published <=>
          \/ s \in segments \/ s \in leaked
          \/ \E u \in Threads : pc[u] \in {"commit", "concat"} /\ s \in Allocated(u)
    /\ \A s : s \in Published' <=>
          \/ s \in segments' \/ s \in leaked'
          \/ \E u \in Threads : pc'[u] \in {"commit", "concat"} /\ s \in Allocated(u)'
BY DEF Published

\* The other threads stay where they are.
OthersKeep(t) ==
    \A u \in Threads \ {t} :
        /\ pc'[u] = pc[u] /\ word'[u] = word[u] /\ word_todo'[u] = word_todo[u]
        /\ read_only'[u] = read_only[u] /\ read_set'[u] = read_set[u]
        /\ write_set'[u] = write_set[u] /\ alloc_set'[u] = alloc_set[u]
        /\ lost'[u] = lost[u] /\ seen'[u] = seen[u]

\* A step of t inside its transaction that neither allocates nor frees.
LEMMA QuietMemory ==
    ASSUME MemoryInv, NEW t \in Threads, OthersKeep(t),
           UNCHANGED <<segments, live, unlisted, leaked, up>>,
           alloc_set'[t] = alloc_set[t], lost'[t] = lost[t], read_only'[t] = read_only[t],
           pc[t] # "idle", pc'[t] # "idle",
           pc[t] \in {"commit", "concat"} => pc'[t] \in {"commit", "concat"},
           write_set'[t] \subseteq Accessible(t),
           pc'[t] \in {"reread", "copy"} => word'[t] \in Accessible(t),
           pc'[t] = "commit" => word_todo'[t] \subseteq write_set'[t],
           \A c \in commits' : \/ c \in commits
                               \/ pc'[t] = "commit" /\ c.writes \subseteq write_set[t]
    PROVE  MemoryInv'
<1>1. \A u \in Threads : /\ alloc_set'[u] = alloc_set[u] /\ lost'[u] = lost[u]
                         /\ read_only'[u] = read_only[u]
                         /\ Allocated(u)' = Allocated(u)
  BY DEF OthersKeep, Allocated
<1>2. \A s : s \in Published => s \in Published'
  BY <1>1, PublishedIs DEF OthersKeep
<1>3. \A u \in Threads : Accessible(u) \subseteq Accessible(u)'
  BY <1>1, <1>2 DEF Accessible
<1>4. SegmentsOwned' /\ UnlistedOwned'
  BY <1>1 DEF MemoryInv, SegmentsOwned, UnlistedOwned
<1>5. IdleEmpty' /\ DownIsIdle'
  BY DEF MemoryInv, IdleEmpty, DownIsIdle, OthersKeep
<1>6. NamesAccessible'
  BY <1>3 DEF MemoryInv, NamesAccessible, OthersKeep
<1>7. WritesPublished'
  <2>. SUFFICES ASSUME up', NEW c \in commits', NEW a \in c.writes
                PROVE  SegOf(a) \in Published'
    BY DEF WritesPublished
  <2>1. CASE c \in commits
    BY <1>2, <2>1 DEF MemoryInv, WritesPublished
  <2>2. CASE pc'[t] = "commit" /\ a \in write_set[t]
    <3>1. SegOf(a) \in Published \/ SegOf(a) \in Allocated(t)'
      BY <1>1, <2>2 DEF MemoryInv, NamesAccessible, Accessible
    <3>. QED
      BY <1>2, <2>2, <3>1, PublishedIs
  <2>. QED
    BY <2>1, <2>2
<1>. QED
  BY <1>4, <1>5, <1>6, <1>7 DEF MemoryInv

\* The end of a transaction: its segments go to the region or are freed.
LEMMA DestroyMemory ==
    ASSUME MemoryTypes, MemoryInv, NEW t \in Threads, NEW committed \in BOOLEAN,
           tx_destroy(t, committed), pc[t] # "idle",
           ~ committed => pc[t] \notin {"commit", "concat"},
           segments' = IF committed THEN segments \cup alloc_set[t] ELSE segments,
           UNCHANGED up,
           \A c \in commits' : c \in commits \/ c.writes = {}
    PROVE  MemoryInv'
<1>1. /\ pc'[t] = "idle" /\ read_set'[t] = {} /\ write_set'[t] = {}
      /\ alloc_set'[t] = {} /\ lost'[t] = {} /\ seen'[t] = {}
      /\ UNCHANGED <<read_only, unlisted>> /\ OthersKeep(t)
  BY DEF tx_destroy, MemoryTypes, OthersKeep
<1>2. /\ live' = IF committed THEN live ELSE live \ alloc_set[t]
      /\ leaked' = IF committed THEN leaked \cup lost[t] ELSE leaked
  BY DEF tx_destroy, FreeOnDestroy
<1>a. \A u \in Threads \ {t} : Allocated(u)' = Allocated(u)
  BY <1>1 DEF OthersKeep, Allocated
<1>3. ASSUME NEW s, s \in Published PROVE s \in Published'
  <2>1. CASE s \in segments \/ s \in leaked
    BY <1>2, <2>1, PublishedIs
  <2>2. ASSUME NEW u \in Threads, pc[u] \in {"commit", "concat"}, s \in Allocated(u)
        PROVE  s \in Published'
    <3>1. CASE u = t
      BY <1>2, <2>2, <3>1, PublishedIs DEF Allocated
    <3>2. CASE u # t
      BY <1>1, <1>a, <2>2, <3>2, PublishedIs DEF OthersKeep
    <3>. QED
      BY <3>1, <3>2
  <2>. QED
    BY <1>3, <2>1, <2>2, PublishedIs
<1>4. \A u \in Threads \ {t} : Accessible(u) \subseteq Accessible(u)'
  BY <1>a, <1>3 DEF Accessible
<1>5. SegmentsOwned'
  <2>. USE DEF MemoryInv, SegmentsOwned, OthersKeep
  <2>1. segments' \subseteq live'
    BY <1>2
  <2>2. ASSUME NEW u \in Threads
        PROVE  alloc_set'[u] \subseteq live' \ (segments' \cup unlisted')
    BY <1>1, <1>2
  <2>3. ASSUME NEW u \in Threads, NEW v \in Threads, u # v
        PROVE  alloc_set'[u] \cap alloc_set'[v] = {}
    BY <1>1, <2>3
  <2>4. ASSUME NEW s \in live'
        PROVE  s \in segments' \/ s \in unlisted' \/ \E u \in Threads : s \in alloc_set'[u]
    BY <1>1, <1>2
  <2>5. ASSUME NEW u \in Threads, read_only'[u] PROVE alloc_set'[u] = {}
    BY <1>1, <2>5
  <2>6. unlisted' \subseteq live' \ segments'
    BY <1>1, <1>2
  <2>. QED
    BY <2>1, <2>2, <2>3, <2>4, <2>5, <2>6
<1>b. UnlistedOwned'
  <2>. USE DEF MemoryInv, UnlistedOwned, OthersKeep
  <2>1. leaked' \subseteq unlisted'
    BY <1>1, <1>2
  <2>2. ASSUME NEW u \in Threads PROVE lost'[u] \subseteq unlisted' \ leaked'
    BY <1>1, <1>2
  <2>3. ASSUME NEW u \in Threads, NEW v \in Threads, u # v PROVE lost'[u] \cap lost'[v] = {}
    BY <1>1, <2>3
  <2>. QED
    BY <2>1, <2>2, <2>3
<1>6. IdleEmpty' /\ DownIsIdle'
  BY <1>1 DEF MemoryInv, IdleEmpty, DownIsIdle, OthersKeep
<1>7. NamesAccessible'
  BY <1>1, <1>4 DEF MemoryInv, NamesAccessible, OthersKeep
<1>8. WritesPublished'
  BY <1>3 DEF MemoryInv, WritesPublished
<1>. QED
  BY <1>5, <1>b, <1>6, <1>7, <1>8 DEF MemoryInv

-----------------------------------------------------------------------------
(* The steps *)

LEMMA BeginMemory ==
    ASSUME MemoryTypes, MemoryInv, NEW t \in Threads, NEW is_ro \in Kinds, tm_begin(t, is_ro)
    PROVE  MemoryInv'
<1>1. /\ up /\ pc[t] = "idle" /\ pc'[t] = "run"
      /\ \A u \in Threads \ {t} : pc'[u] = pc[u] /\ read_only'[u] = read_only[u]
      /\ UNCHANGED <<segments, live, unlisted, lost, leaked, up, read_set, write_set,
                     alloc_set, word, word_todo, seen, commits>>
  BY DEF tm_begin, shared, memory, MemoryTypes
<1>2. \A s : s \in Published' <=> s \in Published
  BY <1>1, PublishedIs DEF Allocated
<1>3. \A u \in Threads : Accessible(u)' = Accessible(u)
  BY <1>1, <1>2 DEF Accessible, Allocated
<1>4. SegmentsOwned' /\ UnlistedOwned'
  <2>1. alloc_set[t] = {}
    BY <1>1 DEF MemoryInv, IdleEmpty
  <2>. QED
    BY <1>1, <2>1 DEF MemoryInv, SegmentsOwned, UnlistedOwned
<1>5. IdleEmpty' /\ DownIsIdle' /\ NamesAccessible' /\ WritesPublished'
  BY <1>1, <1>2, <1>3
  DEF MemoryInv, IdleEmpty, DownIsIdle, NamesAccessible, WritesPublished
<1>. QED
  BY <1>4, <1>5 DEF MemoryInv

LEMMA AllocMemory ==
    ASSUME MemoryTypes, MemoryInv, NEW t \in Threads, NEW s \in Segs, tm_alloc(t, s)
    PROVE  MemoryInv'
<1>1. /\ pc[t] = "run" /\ ~ read_only[t] /\ s \notin live
      /\ live' = live \cup {s}
      /\ \A u \in Threads \ {t} : alloc_set'[u] = alloc_set[u] /\ lost'[u] = lost[u]
      /\ UNCHANGED <<segments, leaked, up, pc, read_only, read_set, write_set, word,
                     word_todo, seen, commits>>
  BY DEF tm_alloc, local, ghost, MemoryTypes
<1>a. \/ /\ alloc_set'[t] = alloc_set[t] \cup {s} /\ lost'[t] = lost[t]
         /\ unlisted' = unlisted
      \/ /\ alloc_set'[t] = alloc_set[t] /\ lost'[t] = lost[t] \cup {s}
         /\ unlisted' = unlisted \cup {s}
  BY DEF tm_alloc, MemoryTypes
<1>b. \A u \in Threads : /\ Allocated(u) \subseteq Allocated(u)'
                         /\ u # t => Allocated(u)' = Allocated(u)
  BY <1>1, <1>a DEF Allocated
<1>2. \A r : r \in Published' <=> r \in Published
  BY <1>1, <1>b, PublishedIs
<1>3. \A u \in Threads : Accessible(u) \subseteq Accessible(u)'
  BY <1>b, <1>2 DEF Accessible
<1>4. SegmentsOwned'
  BY <1>1, <1>a DEF MemoryInv, SegmentsOwned
<1>c. UnlistedOwned'
  BY <1>1, <1>a DEF MemoryInv, SegmentsOwned, UnlistedOwned
<1>5. IdleEmpty' /\ DownIsIdle' /\ NamesAccessible' /\ WritesPublished'
  BY <1>1, <1>2, <1>3
  DEF MemoryInv, IdleEmpty, DownIsIdle, NamesAccessible, WritesPublished
<1>. QED
  BY <1>4, <1>c, <1>5 DEF MemoryInv

LEMMA MemoryNext == IInv /\ MemoryInv /\ [Next]_vars => MemoryInv'
<1>. SUFFICES ASSUME IInv, MemoryInv, [Next]_vars PROVE MemoryInv'
  OBVIOUS
<1>. MemoryTypes
  BY DEF IInv, TypeOK, MemoryTypes
<1>. USE DEF OthersKeep, MemoryTypes, shared, txn, local, ghost, memory, table
<1>1. ASSUME NEW t \in Threads, NEW is_ro \in Kinds, tm_begin(t, is_ro)
      PROVE  MemoryInv'
  BY <1>1, BeginMemory
<1>2. ASSUME NEW t \in Threads, NEW a \in Addr, tm_read(t, a)
      PROVE  MemoryInv'
  <2>1. CASE LockCheck(t, a)
    <3>1. /\ a \in Accessible(t) /\ pc[t] = "run"
          /\ pc' = [pc EXCEPT ![t] = "reread"] /\ word' = [word EXCEPT ![t] = a]
          /\ read_set' \in {read_set, [read_set EXCEPT ![t] = @ \cup {a}]}
          /\ UNCHANGED <<segments, memory, up, read_only, write_set, alloc_set, word_todo, seen,
                         commits>>
      BY <1>2, <2>1 DEF tm_read, tx_destroy
    <3>2. OthersKeep(t)
      BY <3>1
    <3>. QED
      BY <3>1, <3>2, QuietMemory DEF MemoryInv, NamesAccessible
  <2>2. CASE ~ LockCheck(t, a)
    BY <1>2, <2>2, DestroyMemory DEF tm_read
  <2>. QED
    BY <2>1, <2>2
<1>3. ASSUME NEW t \in Threads, tm_read_recheck(t)
      PROVE  MemoryInv'
  <2>1. CASE LockCheck(t, word[t])
    BY <1>3, <2>1, QuietMemory DEF tm_read_recheck, tx_destroy, MemoryInv, NamesAccessible
  <2>2. CASE ~ LockCheck(t, word[t])
    BY <1>3, <2>2, DestroyMemory DEF tm_read_recheck
  <2>. QED
    BY <2>1, <2>2
<1>4. ASSUME NEW t \in Threads, tm_read_copy(t)
      PROVE  MemoryInv'
  BY <1>4, QuietMemory DEF tm_read_copy, MemoryInv, NamesAccessible
<1>5. ASSUME NEW t \in Threads, NEW a \in Addr, tm_write(t, a)
      PROVE  MemoryInv'
  BY <1>5, QuietMemory DEF tm_write, MemoryInv, NamesAccessible
<1>6. ASSUME NEW t \in Threads, tm_write_misaligned(t) \/ tm_end_nomem(t) \/ tm_end_failed(t)
      PROVE  MemoryInv'
  BY <1>6, DestroyMemory DEF tm_write_misaligned, tm_end_nomem, tm_end_failed
<1>7. ASSUME NEW t \in Threads, NEW s \in Segs, tm_alloc(t, s)
      PROVE  MemoryInv'
  BY <1>7, AllocMemory
<1>8. ASSUME NEW t \in Threads, tm_end_read_only(t)
      PROVE  MemoryInv'
  <2>1. segments' = segments \cup alloc_set[t]
    BY <1>8 DEF tm_end_read_only, MemoryInv, SegmentsOwned
  <2>2. \A c \in commits' : c \in commits \/ c.writes = {}
    BY <1>8 DEF tm_end_read_only
  <2>. QED
    BY <1>8, <2>1, <2>2, DestroyMemory DEF tm_end_read_only
<1>9. ASSUME NEW t \in Threads, tm_end(t)
      PROVE  MemoryInv'
  BY <1>9, QuietMemory DEF tm_end, MemoryInv, NamesAccessible
<1>10. ASSUME NEW t \in Threads, lock_unique_lock_set(t)
      PROVE  MemoryInv'
  <2>1. pc[t] = "lock" /\ \E p \in {"cas", "rollback"} : pc' = [pc EXCEPT ![t] = p]
    BY <1>10 DEF lock_unique_lock_set, refused
  <2>2. UNCHANGED <<segments, memory, up, read_only, read_set, write_set, alloc_set, word,
                    word_todo, seen, commits>>
    BY <1>10 DEF lock_unique_lock_set
  <2>. QED
    BY <2>1, <2>2, QuietMemory DEF MemoryInv, NamesAccessible
<1>11. ASSUME NEW t \in Threads, lock_try_acquire(t)
      PROVE  MemoryInv'
  <2>1. pc[t] = "cas" /\ \E p \in {"lock", "rollback"} : pc' = [pc EXCEPT ![t] = p]
    BY <1>11 DEF lock_try_acquire, refused
  <2>2. UNCHANGED <<segments, memory, up, read_only, read_set, write_set, alloc_set, word,
                    word_todo, seen, commits>>
    BY <1>11 DEF lock_try_acquire
  <2>. QED
    BY <2>1, <2>2, QuietMemory DEF MemoryInv, NamesAccessible
<1>12. ASSUME NEW t \in Threads, tm_end_fetch_add(t)
      PROVE  MemoryInv'
  BY <1>12, QuietMemory DEF tm_end_fetch_add, MemoryInv, NamesAccessible
<1>13. ASSUME NEW t \in Threads, NEW a \in Addr, validate_reading_set(t, a)
      PROVE  MemoryInv'
  <2>1. /\ pc[t] = "validate"
        /\ UNCHANGED pc \/ pc' = [pc EXCEPT ![t] = "rollback"]
        /\ \E todo : word_todo' = [word_todo EXCEPT ![t] = todo]
    BY <1>13 DEF validate_reading_set
  <2>2. UNCHANGED <<segments, memory, up, read_only, read_set, write_set, alloc_set, word,
                    seen, commits>>
    BY <1>13 DEF validate_reading_set
  <2>. QED
    BY <2>1, <2>2, QuietMemory DEF MemoryInv, NamesAccessible
<1>14. ASSUME NEW t \in Threads, tm_end_validated(t)
      PROVE  MemoryInv'
  <2>1. \A c \in commits' : c \in commits \/ c.writes = write_set[t]
    BY <1>14 DEF tm_end_validated
  <2>. QED
    BY <1>14, <2>1, QuietMemory DEF tm_end_validated, MemoryInv, NamesAccessible
<1>15. ASSUME NEW t \in Threads, NEW a \in Addr, write_writing_set(t, a)
      PROVE  MemoryInv'
  BY <1>15, QuietMemory DEF write_writing_set, MemoryInv, NamesAccessible
<1>16. ASSUME NEW t \in Threads, update_unique_lock_set(t)
      PROVE  MemoryInv'
  BY <1>16, QuietMemory DEF update_unique_lock_set, MemoryInv, NamesAccessible
<1>22. ASSUME NEW t \in Threads, lock_acquire(t)
      PROVE  MemoryInv'
  BY <1>22, QuietMemory DEF lock_acquire, MemoryInv, NamesAccessible
<1>17. ASSUME NEW t \in Threads, tm_end_committed(t)
      PROVE  MemoryInv'
  BY <1>17, DestroyMemory DEF tm_end_committed, ll_concat_safe
<1>18. ASSUME NEW t \in Threads, unlock_unique_lock_set_until(t)
      PROVE  MemoryInv'
  BY <1>18, QuietMemory DEF unlock_unique_lock_set_until, MemoryInv, NamesAccessible
<1>19. ASSUME tm_destroy
      PROVE  MemoryInv'
  <2>1. /\ \A t \in Threads : pc[t] = "idle"
        /\ segments' = {} /\ live' = live \ segments /\ ~ up'
        /\ UNCHANGED <<unlisted, lost, leaked, read_only, read_set, write_set, alloc_set, pc,
                       word, word_todo, seen>>
    BY <1>19 DEF tm_destroy
  <2>. QED
    BY <2>1 DEF MemoryInv, SegmentsOwned, UnlistedOwned, IdleEmpty, DownIsIdle,
                NamesAccessible, WritesPublished
<1>20. ASSUME UNCHANGED vars
      PROVE  MemoryInv'
  BY <1>20 DEF vars, MemoryInv, SegmentsOwned, UnlistedOwned, IdleEmpty, DownIsIdle,
              NamesAccessible, WritesPublished, Accessible, Published, Allocated
<1>21. ASSUME NEW t \in Threads, NEW s \in Segs, tm_free(t, s)
      PROVE  MemoryInv'
  BY <1>20, <1>21 DEF tm_free
<1>. HIDE DEF OthersKeep, MemoryTypes, shared, txn, local, ghost, memory, table
<1>. QED
  BY <1>1, <1>2, <1>3, <1>4, <1>5, <1>6, <1>7, <1>8, <1>9, <1>10, <1>11, <1>12, <1>13,
     <1>14, <1>15, <1>16, <1>17, <1>18, <1>19, <1>20, <1>21, <1>22 DEF Next, Call, Step, Done

LEMMA MemoryInvariance == Spec => []MemoryInv
<1>. QED
  BY InitMemory, Invariance, MemoryNext, PTL DEF Spec

-----------------------------------------------------------------------------
(* Theorems *)

\* tm_read copies from, and tm_end writes back to, segments that are allocated,
\* and tm_destroy frees each segment of the region once: tx_destroy frees the
\* segments of aborted transactions only, and nobody else knows them.
THEOREM MemoryIsSafe == Spec => []MemorySafe
<1>1. IInv /\ MemoryInv => MemorySafe
  <2>. SUFFICES ASSUME IInv, MemoryInv PROVE MemorySafe
    OBVIOUS
  <2>1. ASSUME NEW t \in Threads PROVE Allocated(t) \subseteq live
    BY DEF MemoryInv, SegmentsOwned, UnlistedOwned, Allocated
  <2>2. \A s \in Published : s \in live
    BY <2>1, PublishedIs DEF MemoryInv, SegmentsOwned, UnlistedOwned
  <2>3. ASSUME NEW t \in Threads, NEW a \in Accessible(t) PROVE SegOf(a) \in live
    BY <2>1, <2>2 DEF Accessible
  <2>. QED
    BY <2>3 DEF MemoryInv, SegmentsOwned, NamesAccessible, MemorySafe
<1>. QED
  BY <1>1, Invariance, MemoryInvariance, PTL

\* After tm_destroy only segments for which ll_append had no node are allocated,
\* and all of those: every other one was freed with its aborted transaction or
\* reached the region's list.
THEOREM AllReclaimed == Spec => []SegmentsReclaimed
<1>1. MemoryInv => SegmentsReclaimed
  BY DEF MemoryInv, SegmentsOwned, IdleEmpty, DownIsIdle, SegmentsReclaimed
<1>. QED
  BY <1>1, MemoryInvariance, PTL

-----------------------------------------------------------------------------
(* The inductive invariant: locks and the clock *)

\* The version of a lock as a clock value: the lock without its bit.
Base(v) == 2 * Version(v)

\* t has its write version.
Versioned(t) == pc[t] \in {"validate", "commit"}

\* Which locks a committer holds (the position of its pass tells).
LocksOf(t) ==
    /\ held[t] \subseteq UniqueLocks(t)
    /\ pc[t] = "validate" => UniqueLocks(t) \subseteq held[t]
    /\ pc[t] = "commit" /\ word_todo[t] # {} => UniqueLocks(t) \subseteq held[t]

\* Read and write versions against the clock.
ClockOf(t) ==
    /\ read_version[t] % 2 = 0 /\ read_version[t] <= global_version
    /\ Versioned(t) => read_version[t] < write_version[t]
    /\ pc[t] \in {"lock", "cas", "validate", "commit", "rollback"} => ~ read_only[t]

CommitsPast == \A c \in commits : ~ c.ro => c.at <= global_version

-----------------------------------------------------------------------------
(* The words and their locks *)

\* t is to write back the value of commit c to a.
Pending(t, a, c) == pc[t] = "commit" /\ a \in word_todo[t] /\ c.at = write_version[t]

\* A word holds a committed value ...
MemStamped == \A a \in Addr : mem[a] = 0 \/ \E c \in Writers(a) : c.at = mem[a]

\* ... the newest one but for what is still to be written back.
MemCurrent ==
    \A a \in Addr : \A c \in Writers(a) :
        c.at <= mem[a] \/ \E t \in Threads : Pending(t, a, c)

\* A lock has the version of the newest commit that gave it back ...
LockCurrent ==
    \A a \in Addr : \A c \in Writers(a) :
        \/ c.at <= Base(locks[LockOf[a]])
        \/ \E t \in Threads : /\ pc[t] = "commit" /\ LockOf[a] \in held[t]
                              /\ c.at = write_version[t]

\* ... and that one is in one of its words.
LockTruthful ==
    \A l \in LockIds :
        \/ Base(locks[l]) = 0
        \/ \E b \in Addr : LockOf[b] = l /\ mem[b] = Base(locks[l])
        \/ \E t \in Threads : pc[t] = "commit" /\ l \in held[t]

\* What a committer has written back stays until it releases the lock.
WrittenBack(t) ==
    pc[t] = "commit" =>
        \A a \in write_set[t] \ word_todo[t] :
            LockOf[a] \in held[t] => mem[a] = write_version[t]

StoreInv ==
    MemStamped /\ MemCurrent /\ LockCurrent /\ LockTruthful
    /\ \A t \in Threads : WrittenBack(t)

-----------------------------------------------------------------------------
(* Reads *)

\* No committer that is older than the transaction of t has the lock of a.
NoOlderHolder(t, a) ==
    \A u \in Threads : Versioned(u) /\ LockOf[a] \in held[u] =>
        read_version[t] < write_version[u]

\* What holds of every copy tm_read made.  That its lock was free when checked
\* stays of use: who takes the lock later has a later write version.
ReadOk(t, p) ==
    /\ p[2] = 0 \/ \E c \in Writers(p[1]) : c.at = p[2]
    /\ \A c \in Writers(p[1]) : c.at <= read_version[t] => c.at <= p[2]
    /\ NoOlderHolder(t, p[1])
    /\ ~ read_only[t] => p[1] \in read_set[t]

ReadsOf(t) ==
    /\ \A p \in seen[t] : ReadOk(t, p)
    /\ pc[t] = "copy" => NoOlderHolder(t, word[t])
    /\ pc[t] \in {"reread", "copy"} /\ ~ read_only[t] => word[t] \in read_set[t]

-----------------------------------------------------------------------------
(* Commits *)

\* Value s of a is what t would have read had it run at its write version,
\* and it stays so: who is still to commit a has a later version.
ReadStands(t, a, s) ==
    /\ s < write_version[t]
    /\ \A c \in Writers(a) : c.at < write_version[t] => c.at <= s
    /\ \A u \in Threads \ {t} : pc[u] = "validate" /\ LockOf[a] \in held[u] =>
           write_version[t] < write_version[u]

ValidatedOf(t) ==
    pc[t] = "validate" =>
        \A p \in seen[t] : p[1] \notin word_todo[t] => ReadStands(t, p[1], p[2])

\* Nobody will write under the reads of a committed transaction.
NoLateWriter ==
    \A c \in commits : ~ c.ro => \A p \in c.reads : \A u \in Threads :
        pc[u] = "validate" /\ p[1] \in write_set[u] => c.at < write_version[u]

CommitInv == NoLateWriter /\ UpdatesSerializable

\* A committer that writes back has decided to.
DecidedOf(t) ==
    pc[t] = "commit" =>
        \E c \in commits : ~ c.ro /\ c.at = write_version[t] /\ c.writes = write_set[t]

ThreadInv(t) == ClockOf(t) /\ ReadsOf(t) /\ ValidatedOf(t) /\ DecidedOf(t)

IsolationInv == (\A t \in Threads : ThreadInv(t)) /\ CommitsPast /\ StoreInv /\ CommitInv

-----------------------------------------------------------------------------
(* Facts *)

LEMMA BaseFacts ==
    ASSUME NEW v \in Nat
    PROVE  /\ Base(v) \in Nat /\ Base(v) <= v /\ v <= Base(v) + 1
           /\ ~ IsLocked(v) => Base(v) = v /\ Base(v + 1) = v
           /\ IsLocked(v) => Base(v - 1) = Base(v)
           /\ \A w \in Nat : w % 2 = 0 /\ Version(v) <= Version(w) => Base(v) <= w
BY DEF Base, Version, IsLocked

\* The types of the history.
LEMMA HistoryTypes ==
    ASSUME TypeOK
    PROVE  /\ \A c \in commits : c.at \in Nat /\ c.ro \in BOOLEAN /\ c.writes \subseteq Addr
           /\ \A c \in commits : \A p \in c.reads : p[1] \in Addr /\ p[2] \in Nat
           /\ \A t \in Threads : \A p \in seen[t] : p[1] \in Addr /\ p[2] \in Nat
<1>1. commits \subseteq CommitRecord /\ seen \in [Threads -> SUBSET (Addr \X Nat)]
  BY DEF TypeOK
<1>2. ASSUME NEW c \in CommitRecord
      PROVE  /\ c.at \in Nat /\ c.ro \in BOOLEAN /\ c.writes \subseteq Addr
             /\ c.reads \in SUBSET (Addr \X Nat)
  BY DEF CommitRecord
<1>. QED
  BY <1>1, <1>2

LEMMA WritersIs ==
    /\ \A a, c : c \in Writers(a) <=> c \in commits /\ ~ c.ro /\ a \in c.writes
    /\ \A a, c : c \in Writers(a)' <=> c \in commits' /\ ~ c.ro /\ a \in c.writes
BY DEF Writers

\* Two threads never hold the same lock.
LEMMA OneHolder ==
    ASSUME LockInv, NEW t \in Threads, NEW u \in Threads, NEW l, l \in held[t], l \in held[u]
    PROVE  t = u
BY DEF LockInv, LockOwnership

LEMMA HeldLocks ==
    ASSUME IInv, NEW t \in Threads
    PROVE  LocksOf(t)
<1>. TypeOK /\ PassOf(t) /\ NoLockLeft
  BY DEF IInv, PassInv, LockInv
<1>1. held[t] \subseteq UniqueLocks(t)
  BY DEF PassOf, NoLockLeft
<1>2. ASSUME pc[t] = "validate" \/ (pc[t] = "commit" /\ word_todo[t] # {})
      PROVE  UniqueLocks(t) \subseteq held[t]
  <2>1. ASSUME NEW i \in Positions(t) PROVE HeldAt(t, i)
    <3>1. CASE pc[t] = "validate"
      BY <3>1 DEF HeldAt
    <3>2. CASE pc[t] = "commit"
      <4>1. at[t] = 1
        BY <1>2, <3>2 DEF PassOf
      <4>2. at[t] <= i
        BY <4>1, <2>1 DEF Positions
      <4>. QED
        BY <3>2, <4>2 DEF HeldAt
    <3>. QED
      BY <1>2, <3>1, <3>2
  <2>. QED
    BY <1>2, <2>1 DEF PassOf
<1>. QED
  BY <1>1, <1>2 DEF LocksOf

\* The lock of a word that waits to be written back, or of any word in the
\* write set of a committer that validates, is held.
LEMMA TodoHeld ==
    ASSUME IInv, MemoryInv, NEW t \in Threads, NEW a \in Addr,
           \/ pc[t] = "validate" /\ a \in write_set[t]
           \/ pc[t] = "commit" /\ a \in word_todo[t]
    PROVE  LockOf[a] \in held[t]
BY HeldLocks DEF LocksOf, UniqueLocks, MemoryInv, NamesAccessible

LEMMA InitIsolation == Init => IsolationInv
<1>. SUFFICES ASSUME Init PROVE IsolationInv
  OBVIOUS
<1>1. \A a : Writers(a) = {}
  BY DEF Init, Writers
<1>2. Base(0) = 0
  BY DEF Base, Version
<1>3. ASSUME NEW t \in Threads PROVE ThreadInv(t)
  BY DEF Init, ThreadInv, ClockOf, Versioned, ReadsOf, ValidatedOf, DecidedOf
<1>4. StoreInv
  BY <1>1, <1>2, ConstantsOk
  DEF Init, StoreInv, MemStamped, MemCurrent, LockCurrent, LockTruthful, WrittenBack
<1>5. CommitsPast /\ CommitInv
  BY DEF Init, CommitsPast, CommitInv, NoLateWriter, UpdatesSerializable
<1>. QED
  BY <1>3, <1>4, <1>5 DEF IsolationInv

-----------------------------------------------------------------------------
(* Steps that leave the store alone *)

\* The other threads, with their locks and versions, stay where they are.
OthersStay(t) ==
    \A u \in Threads \ {t} :
        /\ pc'[u] = pc[u] /\ word'[u] = word[u] /\ word_todo'[u] = word_todo[u]
        /\ read_only'[u] = read_only[u] /\ read_set'[u] = read_set[u]
        /\ write_set'[u] = write_set[u] /\ seen'[u] = seen[u]
        /\ held'[u] = held[u]
        /\ read_version'[u] = read_version[u] /\ write_version'[u] = write_version[u]

\* t is not about to change the store, nor is it after the step; at most it
\* takes or gives back a lock.
AwayFromStore(t) ==
    /\ pc'[t] \notin {"validate", "commit"}
    /\ pc[t] = "commit" => held[t] = {} /\ word_todo[t] = {}
    /\ UNCHANGED <<global_version, mem>>
    /\ \A l \in LockIds : Base(locks'[l]) = Base(locks[l])
    /\ commits \subseteq commits' /\ \A c \in commits' : c \in commits \/ c.ro

LEMMA AwayKeepsStore ==
    ASSUME TypeOK, IsolationInv, NEW t \in Threads, OthersStay(t), AwayFromStore(t)
    PROVE  StoreInv' /\ CommitsPast' /\ CommitInv'
           /\ \A u \in Threads \ {t} : ThreadInv(u)'
<1>. USE DEF OthersStay, AwayFromStore
<1>1. \A a : Writers(a)' = Writers(a)
  BY DEF Writers
<1>2. \A u \in Threads : Versioned(u)' => u # t /\ Versioned(u)
  BY DEF Versioned
<1>3. \A a \in Addr : LockOf[a] \in LockIds
  BY ConstantsOk
<1>4. StoreInv'
  <2>. USE DEF IsolationInv, StoreInv
  <2>1. MemStamped'
    BY <1>1 DEF MemStamped
  <2>2. MemCurrent'
    BY <1>1 DEF MemCurrent, Pending
  <2>3. LockCurrent'
    BY <1>1, <1>3 DEF LockCurrent
  <2>4. LockTruthful'
    BY DEF LockTruthful
  <2>5. ASSUME NEW u \in Threads PROVE WrittenBack(u)'
    BY DEF WrittenBack
  <2>. QED
    BY <2>1, <2>2, <2>3, <2>4, <2>5
<1>5. CommitsPast'
  BY DEF IsolationInv, CommitsPast
<1>6. CommitInv'
  <2>1. NoLateWriter'
    BY DEF IsolationInv, CommitInv, NoLateWriter
  <2>2. UpdatesSerializable'
    BY <1>1 DEF IsolationInv, CommitInv, UpdatesSerializable, NewestAsOf
  <2>. QED
    BY <2>1, <2>2 DEF CommitInv
<1>7. ASSUME NEW u \in Threads \ {t} PROVE ThreadInv(u)'
  <2>. ThreadInv(u)
    BY DEF IsolationInv
  <2>2. ClockOf(u)'
    BY DEF ThreadInv, ClockOf, Versioned
  <2>3. \A a : NoOlderHolder(u, a) => NoOlderHolder(u, a)'
    BY <1>2 DEF NoOlderHolder
  <2>4. ReadsOf(u)'
    BY <1>1, <2>3 DEF ThreadInv, ReadsOf, ReadOk
  <2>5. ValidatedOf(u)' /\ DecidedOf(u)'
    BY <1>1 DEF ThreadInv, ValidatedOf, ReadStands, DecidedOf
  <2>. QED
    BY <2>2, <2>4, <2>5 DEF ThreadInv
<1>. QED
  BY <1>4, <1>5, <1>6, <1>7

\* The end of a transaction that holds no lock.
LEMMA DestroyIsolation ==
    ASSUME TypeOK, IsolationInv, NEW t \in Threads, NEW committed,
           tx_destroy(t, committed), held[t] = {}, pc[t] = "commit" => word_todo[t] = {},
           UNCHANGED <<global_version, mem, locks>>,
           commits \subseteq commits', \A c \in commits' : c \in commits \/ c.ro
    PROVE  IsolationInv'
<1>1. OthersStay(t) /\ AwayFromStore(t)
  BY DEF tx_destroy, TypeOK, OthersStay, AwayFromStore
<1>2. /\ pc'[t] = "idle" /\ held'[t] = {} /\ seen'[t] = {} /\ read_version'[t] = 0
      /\ global_version' \in Nat
  BY DEF tx_destroy, TypeOK
<1>3. ThreadInv(t)'
  BY <1>2 DEF ThreadInv, ClockOf, Versioned, ReadsOf, ValidatedOf, DecidedOf
<1>. QED
  BY <1>1, <1>3, AwayKeepsStore DEF IsolationInv

LEMMA BeginIsolation ==
    ASSUME IInv, MemoryInv, IsolationInv, NEW t \in Threads, NEW is_ro \in Kinds,
           tm_begin(t, is_ro)
    PROVE  IsolationInv'
<1>1. OthersStay(t) /\ AwayFromStore(t)
  BY DEF tm_begin, shared, IInv, TypeOK, OthersStay, AwayFromStore, memory, table
<1>2. /\ pc[t] = "idle" /\ pc'[t] = "run" /\ held' = held /\ seen' = seen
      /\ read_version'[t] = global_version /\ UNCHANGED global_version
  BY DEF tm_begin, shared, IInv, TypeOK, memory, table
<1>3. held[t] = {} /\ seen[t] = {} /\ global_version \in Nat /\ global_version % 2 = 0
  BY <1>2 DEF IInv, TypeOK, LockInv, NoLockLeft, Parity, MemoryInv, IdleEmpty
<1>4. ThreadInv(t)'
  BY <1>2, <1>3 DEF ThreadInv, ClockOf, Versioned, ReadsOf, ValidatedOf, DecidedOf
<1>. QED
  BY <1>1, <1>4, AwayKeepsStore DEF IInv, IsolationInv

\* tm_alloc clears words that nobody has written.
LEMMA AllocIsolation ==
    ASSUME IInv, MemoryInv, IsolationInv, NEW t \in Threads, NEW s \in Segs, tm_alloc(t, s)
    PROVE  IsolationInv'
<1>1. pc[t] = "run" /\ s \notin live /\ mem' = [mem EXCEPT ![s] = 0]
  BY DEF tm_alloc
<1>2. UNCHANGED <<global_version, locks, read_version, write_version, read_only, read_set,
                  write_set, local, ghost>>
  BY DEF tm_alloc
<1>3. mem[s] = 0
  <2>1. SegOf(s) = s /\ s \in Addr
    BY ConstantsOk DEF SegOf, Addr
  <2>2. up
    BY <1>1 DEF MemoryInv, DownIsIdle
  <2>3. s \notin Published
    <3>1. \A u \in Threads : s \notin Allocated(u)
      BY <1>1 DEF Allocated, MemoryInv, SegmentsOwned, UnlistedOwned
    <3>. QED
      BY <1>1, <3>1 DEF Published, MemoryInv, SegmentsOwned, UnlistedOwned
  <2>4. Writers(s) = {}
    BY <2>1, <2>2, <2>3 DEF Writers, MemoryInv, WritesPublished
  <2>. QED
    BY <2>1, <2>4 DEF IsolationInv, StoreInv, MemStamped
<1>4. mem' = mem
  BY <1>1, <1>3 DEF IInv, TypeOK
<1>5. OthersStay(t) /\ AwayFromStore(t)
  BY <1>1, <1>2, <1>4 DEF OthersStay, AwayFromStore, local, ghost, memory, table
<1>6. ThreadInv(t)'
  <2>1. ThreadInv(t)
    BY DEF IsolationInv
  <2>. QED
    BY <1>1, <1>2, <1>4, <2>1 DEF ThreadInv, ClockOf, Versioned, ReadsOf,
       ReadOk, NoOlderHolder, Writers, ValidatedOf, ReadStands, DecidedOf, local, ghost
<1>. QED
  BY <1>5, <1>6, AwayKeepsStore DEF IInv, IsolationInv

-----------------------------------------------------------------------------
(* Reading *)

\* A lock that passes the check has no holder and guards nothing newer than
\* the transaction.
LEMMA CheckedLock ==
    ASSUME IInv, IsolationInv, NEW t \in Threads, NEW a \in Addr, LockCheck(t, a)
    PROVE  /\ NoOlderHolder(t, a)
           /\ \A u \in Threads : LockOf[a] \notin held[u]
           /\ \A c \in Writers(a) : c.at <= read_version[t]
<1>1. LockOf[a] \in LockIds /\ ~ IsLocked(locks[LockOf[a]])
  BY ConstantsOk DEF LockCheck, lock_check
<1>2. \A u \in Threads : LockOf[a] \notin held[u]
  BY <1>1 DEF IInv, LockInv, LockOwnership
<1>3. Base(locks[LockOf[a]]) <= read_version[t]
  <2>1. /\ Version(locks[LockOf[a]]) <= Version(read_version[t])
        /\ read_version[t] \in Nat /\ read_version[t] % 2 = 0 /\ locks[LockOf[a]] \in Nat
    BY <1>1 DEF LockCheck, lock_check, IInv, TypeOK, IsolationInv, ThreadInv, ClockOf
  <2>. QED
    BY <2>1, BaseFacts
<1>4. ASSUME NEW c \in Writers(a) PROVE c.at <= read_version[t]
  <2>1. c.at <= Base(locks[LockOf[a]])
    BY <1>2 DEF IsolationInv, StoreInv, LockCurrent
  <2>2. c.at \in Nat /\ Base(locks[LockOf[a]]) \in Nat /\ read_version[t] \in Nat
    BY <1>1, HistoryTypes, BaseFacts DEF IInv, TypeOK, Writers
  <2>. QED
    BY <1>3, <2>1, <2>2
<1>. QED
  BY <1>2, <1>4 DEF NoOlderHolder

LEMMA ReadIsolation ==
    ASSUME IInv, IsolationInv, NEW t \in Threads, NEW a \in Addr, tm_read(t, a), LockCheck(t, a)
    PROVE  IsolationInv'
<1>1. /\ pc[t] = "run" /\ pc' = [pc EXCEPT ![t] = "reread"] /\ word' = [word EXCEPT ![t] = a]
      /\ read_set' = IF read_only[t] THEN read_set ELSE [read_set EXCEPT ![t] = @ \cup {a}]
      /\ UNCHANGED <<shared, memory, read_version, write_version, read_only, write_set,
                     alloc_set, vl, word_todo, held, ghost>>
  BY DEF tm_read, tx_destroy
<1>2. OthersStay(t) /\ AwayFromStore(t)
  BY <1>1 DEF IInv, TypeOK, OthersStay, AwayFromStore, shared, ghost, memory, table
<1>3. ThreadInv(t)'
  <2>1. ThreadInv(t) /\ TypeOK
    BY DEF IInv, IsolationInv
  <2>2. ClockOf(t)' /\ ValidatedOf(t)' /\ DecidedOf(t)'
    BY <1>1, <2>1 DEF ThreadInv, ClockOf, Versioned, ValidatedOf,
       DecidedOf, TypeOK, shared, memory, table
  <2>3. \A b : NoOlderHolder(t, b) => NoOlderHolder(t, b)'
    BY <1>1, <2>1 DEF NoOlderHolder, Versioned, TypeOK
  <2>4. ReadsOf(t)'
    BY <1>1, <2>1, <2>3
    DEF ThreadInv, ReadsOf, ReadOk, Writers, TypeOK, ghost, memory, table
  <2>. QED
    BY <2>2, <2>4 DEF ThreadInv
<1>. QED
  BY <1>2, <1>3, AwayKeepsStore DEF IInv, IsolationInv

LEMMA RecheckIsolation ==
    ASSUME IInv, IsolationInv, NEW t \in Threads, tm_read_recheck(t), LockCheck(t, word[t])
    PROVE  IsolationInv'
<1>1. /\ pc[t] = "reread" /\ pc' = [pc EXCEPT ![t] = "copy"]
      /\ UNCHANGED <<shared, memory, txn, word, vl, word_todo, table, held, ghost>>
  BY DEF tm_read_recheck, tx_destroy
<1>2. OthersStay(t) /\ AwayFromStore(t)
  BY <1>1 DEF IInv, TypeOK, OthersStay, AwayFromStore, shared, txn, ghost, memory, table
<1>3. ThreadInv(t)'
  <2>1. ThreadInv(t) /\ TypeOK
    BY DEF IInv, IsolationInv
  <2>2. ClockOf(t)' /\ ValidatedOf(t)' /\ DecidedOf(t)'
    BY <1>1, <2>1 DEF ThreadInv, ClockOf, Versioned, ValidatedOf,
       DecidedOf, TypeOK, shared, txn, memory, table
  <2>3. \A b : NoOlderHolder(t, b) => NoOlderHolder(t, b)'
    BY <1>1, <2>1 DEF NoOlderHolder, Versioned, TypeOK, txn, memory, table
  <2>4. NoOlderHolder(t, word[t])
    BY <1>1, <2>1, CheckedLock DEF TypeOK
  <2>5. ReadsOf(t)'
    BY <1>1, <2>1, <2>3, <2>4
    DEF ThreadInv, ReadsOf, ReadOk, Writers, TypeOK, txn, ghost, memory, table
  <2>. QED
    BY <2>2, <2>5 DEF ThreadInv
<1>. QED
  BY <1>2, <1>3, AwayKeepsStore DEF IInv, IsolationInv

\* The copy is of a committed value, and of one that was current when the
\* transaction began, if not newer: a committer that has still to write the
\* word has its lock, and so is not older.
LEMMA CopyIsolation ==
    ASSUME IInv, MemoryInv, IsolationInv, NEW t \in Threads, tm_read_copy(t)
    PROVE  IsolationInv'
<1>. DEFINE a == word[t]
            p == <<a, mem[a]>>
<1>1. /\ pc[t] = "copy" /\ pc' = [pc EXCEPT ![t] = "run"]
      /\ seen' = seen \/ seen' = [seen EXCEPT ![t] = @ \cup {p}]
      /\ word' = [word EXCEPT ![t] = None]
      /\ UNCHANGED <<shared, memory, txn, vl, word_todo, held, commits>>
  BY DEF tm_read_copy
<1>2. OthersStay(t) /\ AwayFromStore(t)
  BY <1>1 DEF IInv, TypeOK, OthersStay, AwayFromStore, shared, txn, memory, table
<1>3. ReadOk(t, p)
  <2>1. a \in Addr /\ p[1] = a /\ p[2] = mem[a]
    BY <1>1 DEF IInv, TypeOK
  <2>2. NoOlderHolder(t, a) /\ (~ read_only[t] => a \in read_set[t])
    BY <1>1 DEF IsolationInv, ThreadInv, ReadsOf
  <2>3. mem[a] = 0 \/ \E c \in Writers(a) : c.at = mem[a]
    BY <2>1 DEF IsolationInv, StoreInv, MemStamped
  <2>4. ASSUME NEW c \in Writers(a), c.at <= read_version[t], ~ c.at <= mem[a]
        PROVE  FALSE
    <3>1. PICK u \in Threads : Pending(u, a, c)
      BY <2>1, <2>4 DEF IsolationInv, StoreInv, MemCurrent
    <3>2. LockOf[a] \in held[u]
      BY <2>1, <3>1, TodoHeld DEF Pending
    <3>3. read_version[t] < c.at
      BY <2>2, <3>1, <3>2 DEF NoOlderHolder, Versioned, Pending
    <3>4. c.at \in Nat /\ read_version[t] \in Nat
      <4>1. c \in commits /\ TypeOK /\ read_version \in [Threads -> Nat]
        BY WritersIs DEF IInv, TypeOK
      <4>. QED
        BY <4>1, HistoryTypes
    <3>. QED
      BY <2>4, <3>3, <3>4
  <2>. QED
    BY <2>1, <2>2, <2>3, <2>4 DEF ReadOk
<1>. HIDE DEF p, a
<1>4. ThreadInv(t)'
  <2>1. ThreadInv(t) /\ TypeOK
    BY DEF IInv, IsolationInv
  <2>2. ClockOf(t)' /\ ValidatedOf(t)' /\ DecidedOf(t)'
    BY <1>1, <2>1 DEF ThreadInv, ClockOf, Versioned, ValidatedOf,
       DecidedOf, TypeOK, shared, txn, memory, table
  <2>3. \A b : NoOlderHolder(t, b) => NoOlderHolder(t, b)'
    BY <1>1, <2>1 DEF NoOlderHolder, Versioned, TypeOK, txn, memory, table
  <2>4. \A q \in seen'[t] : ReadOk(t, q)
    BY <1>1, <1>3, <2>1 DEF ThreadInv, ReadsOf, TypeOK
  <2>5. \A q : ReadOk(t, q) => ReadOk(t, q)'
    BY <1>1, <2>3 DEF ReadOk, Writers, txn, memory, table
  <2>6. ReadsOf(t)'
    BY <1>1, <2>1, <2>4, <2>5 DEF ReadsOf, TypeOK
  <2>. QED
    BY <2>2, <2>6 DEF ThreadInv
<1>. QED
  BY <1>2, <1>4, AwayKeepsStore DEF IInv, IsolationInv

-----------------------------------------------------------------------------
(* Locking *)

\* A step of t between its calls or among its locks.
LEMMA MoveIsolation ==
    ASSUME TypeOK, IsolationInv, NEW t \in Threads, OthersStay(t), AwayFromStore(t),
           UNCHANGED <<read_version, read_only, read_set, seen, commits>>,
           pc'[t] \notin {"reread", "copy"},
           pc'[t] \in {"lock", "cas", "rollback"} => ~ read_only[t]
    PROVE  IsolationInv'
<1>1. ThreadInv(t)
  BY DEF IsolationInv
<1>2. ClockOf(t)' /\ ValidatedOf(t)' /\ DecidedOf(t)'
  BY <1>1 DEF ThreadInv, ClockOf, Versioned, ValidatedOf, DecidedOf, AwayFromStore
<1>3. \A b : NoOlderHolder(t, b) => NoOlderHolder(t, b)'
  BY DEF NoOlderHolder, Versioned, OthersStay, AwayFromStore
<1>4. ReadsOf(t)'
  BY <1>1, <1>3 DEF ThreadInv, ReadsOf, ReadOk, Writers
<1>. QED
  BY <1>2, <1>4, AwayKeepsStore DEF ThreadInv, IsolationInv

LEMMA WriteIsolation ==
    ASSUME IInv, IsolationInv, NEW t \in Threads, NEW a \in Addr, tm_write(t, a)
    PROVE  IsolationInv'
<1>1. /\ pc[t] = "run" /\ write_set' = [write_set EXCEPT ![t] = @ \cup {a}]
      /\ UNCHANGED <<shared, memory, read_version, write_version, read_only, read_set,
                     alloc_set, local, ghost>>
  BY DEF tm_write
<1>2. OthersStay(t) /\ AwayFromStore(t)
  BY <1>1 DEF IInv, TypeOK, OthersStay, AwayFromStore, shared, local, ghost, memory, table
<1>. QED
  BY <1>1, <1>2, MoveIsolation DEF IInv, local, ghost

LEMMA EndIsolation ==
    ASSUME IInv, IsolationInv, NEW t \in Threads, tm_end(t)
    PROVE  IsolationInv'
<1>1. /\ pc[t] = "run" /\ ~ read_only[t] /\ pc' = [pc EXCEPT ![t] = "lock"]
      /\ UNCHANGED <<shared, memory, txn, word, vl, word_todo, held, ghost>>
  BY DEF tm_end
<1>2. OthersStay(t) /\ AwayFromStore(t)
  BY <1>1 DEF IInv, TypeOK, OthersStay, AwayFromStore, shared, txn, ghost
<1>3. pc'[t] = "lock"
  BY <1>1 DEF IInv, TypeOK
<1>. QED
  BY <1>1, <1>2, <1>3, MoveIsolation DEF IInv, txn, ghost

LEMMA LoadIsolation ==
    ASSUME IInv, IsolationInv, NEW t \in Threads, lock_unique_lock_set(t)
    PROVE  IsolationInv'
<1>1. /\ pc[t] = "lock"
      /\ \/ pc' = [pc EXCEPT ![t] = "cas"]
         \/ pc' = [pc EXCEPT ![t] = "rollback"]
      /\ UNCHANGED <<shared, memory, txn, word, word_todo, held, ghost>>
  BY DEF lock_unique_lock_set, refused
<1>2. OthersStay(t) /\ AwayFromStore(t)
  BY <1>1 DEF IInv, TypeOK, OthersStay, AwayFromStore, shared, txn, ghost
<1>3. pc'[t] \in {"cas", "rollback"}
  BY <1>1 DEF IInv, TypeOK
<1>4. ~ read_only[t]
  BY <1>1 DEF IsolationInv, ThreadInv, ClockOf
<1>. QED
  BY <1>1, <1>2, <1>3, <1>4, MoveIsolation DEF IInv, txn, ghost

LEMMA AcquireIsolation ==
    ASSUME IInv, IsolationInv, NEW t \in Threads, lock_try_acquire(t)
    PROVE  IsolationInv'
<1>. DEFINE l == LockAt(t)
<1>1. pc[t] = "cas" /\ l \in LockIds /\ TypeOK
  BY PassFacts DEF lock_try_acquire, IInv
<1>2. UNCHANGED <<global_version, mem, txn, word, word_todo, ghost>>
  BY DEF lock_try_acquire
<1>3. CASE CasOk(locks[l], vl[t])
  <2>1. /\ locks' = [locks EXCEPT ![l] = SetLockBit(vl[t])]
        /\ held' = [held EXCEPT ![t] = @ \cup {l}]
        /\ pc' = [pc EXCEPT ![t] = "lock"]
    BY <1>3 DEF lock_try_acquire
  <2>2. locks[l] \in Nat /\ locks[l] = vl[t] /\ ~ IsLocked(vl[t])
    BY <1>1, <1>3 DEF CasOk, TypeOK, IInv, LockInv, Parity
  <2>3. SetLockBit(vl[t]) = locks[l] + 1 /\ Base(locks[l] + 1) = Base(locks[l])
    BY <2>2, SetLockBitFacts, BaseFacts
  <2>4. \A k \in LockIds : Base(locks'[k]) = Base(locks[k])
    BY <1>1, <2>1, <2>3 DEF TypeOK
  <2>. HIDE DEF l
  <2>5. OthersStay(t)
    BY <1>1, <1>2, <2>1 DEF TypeOK, OthersStay, txn, ghost, memory, table
  <2>6. AwayFromStore(t)
    BY <1>1, <1>2, <2>1, <2>4 DEF TypeOK, AwayFromStore, ghost, memory, table
  <2>7. pc'[t] = "lock"
    BY <1>1, <2>1 DEF TypeOK
  <2>8. ~ read_only[t]
    BY <1>1 DEF IsolationInv, ThreadInv, ClockOf
  <2>. QED
    BY <1>1, <1>2, <2>5, <2>6, <2>7, <2>8, MoveIsolation DEF txn, ghost, memory, table
<1>4. CASE ~ CasOk(locks[l], vl[t])
  <2>1. pc' = [pc EXCEPT ![t] = "rollback"] /\ UNCHANGED <<locks, held>>
    BY <1>4 DEF lock_try_acquire, refused
  <2>2. OthersStay(t) /\ AwayFromStore(t)
    BY <1>1, <1>2, <2>1 DEF TypeOK, OthersStay, AwayFromStore, txn, ghost, memory, table
  <2>3. pc'[t] = "rollback"
    BY <1>1, <2>1 DEF TypeOK
  <2>4. ~ read_only[t]
    BY <1>1 DEF IsolationInv, ThreadInv, ClockOf
  <2>. QED
    BY <1>1, <1>2, <2>2, <2>3, <2>4, MoveIsolation DEF txn, ghost, memory, table
<1>. QED
  BY <1>3, <1>4

LEMMA RollbackIsolation ==
    ASSUME IInv, IsolationInv, NEW t \in Threads, unlock_unique_lock_set_until(t)
    PROVE  IsolationInv'
<1>. DEFINE l == LockAt(t)
<1>1. /\ pc[t] = "rollback" /\ l \in held[t] /\ TypeOK
      /\ locks' = [locks EXCEPT ![l] = lock_release(@)]
      /\ held' = [held EXCEPT ![t] = @ \ {l}]
      /\ UNCHANGED <<global_version, mem, txn, pc, word, word_todo, ghost>>
  BY PassFacts DEF unlock_unique_lock_set_until, IInv
<1>. HIDE DEF l
<1>2. locks[l] \in Nat /\ IsLocked(locks[l])
  BY <1>1 DEF IInv, TypeOK, LockInv, LockOwnership
<1>3. lock_release(locks[l]) = locks[l] - 1 /\ Base(locks[l] - 1) = Base(locks[l])
  BY <1>2, ReleaseFacts, BaseFacts
<1>4. \A k \in LockIds : Base(locks'[k]) = Base(locks[k])
  BY <1>1, <1>3 DEF TypeOK
<1>5. OthersStay(t) /\ AwayFromStore(t)
  BY <1>1, <1>4 DEF TypeOK, OthersStay, AwayFromStore, txn, ghost
<1>6. ~ read_only[t]
  BY <1>1 DEF IsolationInv, ThreadInv, ClockOf
<1>. QED
  BY <1>1, <1>5, <1>6, MoveIsolation DEF txn, ghost

\* A committer that gets the lock of the region's list has released all others.
LEMMA ListIsolation ==
    ASSUME IInv, IsolationInv, NEW t \in Threads, lock_acquire(t)
    PROVE  IsolationInv'
<1>1. /\ pc[t] = "commit" /\ word_todo[t] = {} /\ held[t] = {}
      /\ pc' = [pc EXCEPT ![t] = "concat"]
      /\ UNCHANGED <<global_version, locks, mem, txn, word, word_todo, held, ghost>>
  BY PassFacts DEF lock_acquire
<1>2. OthersStay(t) /\ AwayFromStore(t)
  BY <1>1 DEF IInv, TypeOK, OthersStay, AwayFromStore, txn, ghost
<1>3. pc'[t] = "concat"
  BY <1>1 DEF IInv, TypeOK
<1>. QED
  BY <1>1, <1>2, <1>3, MoveIsolation DEF IInv, txn, ghost

-----------------------------------------------------------------------------
(* The write version and validation *)

\* The write version is above everything: the reads of other transactions, the
\* write versions of other committers, and what has been committed.  When it
\* is the next one after the read version, all reads stand without a look.
LEMMA FetchAddIsolation ==
    ASSUME IInv, IsolationInv, NEW t \in Threads, tm_end_fetch_add(t)
    PROVE  IsolationInv'
<1>. DEFINE wv == global_version + 2
<1>1. /\ pc[t] = "lock" /\ TypeOK
      /\ global_version' = wv
      /\ write_version' = [write_version EXCEPT ![t] = wv]
      /\ word_todo' = [word_todo EXCEPT ![t] = ToValidate(t, wv)]
      /\ pc' = [pc EXCEPT ![t] = "validate"]
      /\ UNCHANGED <<locks, mem, read_version, read_only, read_set, write_set, word,
                     held, seen, commits>>
  BY DEF tm_end_fetch_add, ghost, IInv, memory, table
<1>2. global_version \in Nat /\ wv \in Nat /\ global_version < wv
  BY <1>1 DEF TypeOK
<1>3. /\ pc'[t] = "validate" /\ write_version'[t] = wv /\ word_todo'[t] = ToValidate(t, wv)
      /\ \A u \in Threads \ {t} : /\ pc'[u] = pc[u] /\ word_todo'[u] = word_todo[u]
                                 /\ write_version'[u] = write_version[u]
      /\ \A u \in Threads : read_version[u] \in Nat /\ write_version[u] \in Nat
  BY <1>1, <1>2 DEF TypeOK
<1>. HIDE DEF wv
<1>4. \A a : Writers(a)' = Writers(a)
  BY <1>1 DEF Writers
<1>5. ASSUME NEW u \in Threads
      PROVE  read_version[u] <= global_version /\ write_version[u] <= global_version
  BY DEF IsolationInv, ThreadInv, ClockOf, IInv, LockInv, VersionBound
<1>6. \A c \in commits : ~ c.ro => c.at <= global_version /\ c.at \in Nat
  BY <1>1, HistoryTypes DEF IsolationInv, CommitsPast
<1>7. StoreInv'
  <2>. USE DEF IsolationInv, StoreInv
  <2>1. MemStamped'
    BY <1>1, <1>4 DEF MemStamped
  <2>2. MemCurrent'
    BY <1>1, <1>3, <1>4 DEF MemCurrent, Pending
  <2>3. LockCurrent'
    BY <1>1, <1>3, <1>4 DEF LockCurrent
  <2>4. LockTruthful'
    BY <1>1, <1>3 DEF LockTruthful
  <2>5. ASSUME NEW u \in Threads PROVE WrittenBack(u)'
    BY <1>1, <1>3 DEF WrittenBack
  <2>. QED
    BY <2>1, <2>2, <2>3, <2>4, <2>5
<1>8. CommitsPast'
  BY <1>1, <1>2, <1>6 DEF CommitsPast
<1>9. CommitInv'
  <2>1. NoLateWriter'
    BY <1>1, <1>2, <1>3, <1>6 DEF IsolationInv, CommitInv, NoLateWriter
  <2>2. UpdatesSerializable'
    BY <1>1, <1>4 DEF IsolationInv, CommitInv, UpdatesSerializable, NewestAsOf
  <2>. QED
    BY <2>1, <2>2 DEF CommitInv
<1>10. ASSUME NEW u \in Threads PROVE ThreadInv(u)'
  <2>. ThreadInv(u)
    BY DEF IsolationInv
  <2>2. ClockOf(u)'
    BY <1>1, <1>2, <1>3, <1>5 DEF ThreadInv, ClockOf, Versioned
  <2>3. \A b : NoOlderHolder(u, b) => NoOlderHolder(u, b)'
    BY <1>1, <1>2, <1>3, <1>5 DEF NoOlderHolder, Versioned
  <2>4. ReadsOf(u)'
    BY <1>1, <1>3, <1>4, <2>3 DEF ThreadInv, ReadsOf, ReadOk
  <2>5. DecidedOf(u)'
    BY <1>1, <1>3 DEF ThreadInv, DecidedOf
  <2>6. CASE u # t
    <3>1. ValidatedOf(u)'
      BY <1>1, <1>2, <1>3, <1>4, <1>5, <2>6 DEF ThreadInv, ValidatedOf, ReadStands
    <3>. QED
      BY <2>2, <2>4, <2>5, <3>1 DEF ThreadInv
  <2>7. CASE u = t /\ wv = read_version[t] + 2
    <3>1. read_version[t] = global_version
      BY <1>2, <1>3, <2>7 DEF wv
    <3>2. ASSUME NEW p \in seen[t] PROVE ReadStands(t, p[1], p[2])'
      <4>1. ReadOk(t, p) /\ p[2] \in Nat
        BY <1>1, <2>7, HistoryTypes DEF ThreadInv, ReadsOf
      <4>2. p[2] < wv
        BY <1>2, <1>6, <4>1 DEF ReadOk, Writers
      <4>3. \A c \in Writers(p[1]) : c.at <= p[2]
        BY <1>6, <3>1, <4>1 DEF ReadOk, Writers
      <4>4. ASSUME NEW v \in Threads \ {t}, pc[v] = "validate", LockOf[p[1]] \in held[v]
            PROVE  FALSE
        <5>1. read_version[t] < write_version[v]
          BY <4>1, <4>4 DEF ReadOk, NoOlderHolder, Versioned
        <5>. QED
          BY <1>2, <1>3, <1>5, <3>1, <5>1
      <4>. QED
        BY <1>1, <1>3, <1>4, <4>2, <4>3, <4>4 DEF ReadStands
    <3>3. ValidatedOf(t)'
      BY <1>1, <3>2 DEF ValidatedOf
    <3>. QED
      BY <2>2, <2>4, <2>7, <2>5, <3>3 DEF ThreadInv
  <2>8. CASE u = t /\ wv # read_version[t] + 2
    <3>1. word_todo'[t] = read_set[t] /\ ~ read_only[t]
      BY <1>1, <1>3, <2>8 DEF ToValidate, ThreadInv, ClockOf
    <3>2. ValidatedOf(t)'
      BY <1>1, <2>8, <3>1 DEF ValidatedOf, ThreadInv, ReadsOf, ReadOk
    <3>. QED
      BY <2>2, <2>4, <2>8, <2>5, <3>2 DEF ThreadInv
  <2>. QED
    BY <2>6, <2>7, <2>8
<1>. QED
  BY <1>7, <1>8, <1>9, <1>10 DEF IsolationInv

\* A word that passes validation stands: its lock is free, or held by t itself,
\* and has no version above the read version.
LEMMA ValidWord ==
    ASSUME IInv, MemoryInv, IsolationInv, NEW t \in Threads, pc[t] = "validate",
           NEW p \in seen[t], ReadSetOk(t, p[1])
    PROVE  ReadStands(t, p[1], p[2])
<1>1. /\ p[1] \in Addr /\ p[2] \in Nat /\ ReadOk(t, p) /\ TypeOK
      /\ read_version[t] \in Nat /\ write_version[t] \in Nat
      /\ read_version[t] < write_version[t] /\ read_version[t] % 2 = 0
      /\ LockOf[p[1]] \in LockIds /\ locks[LockOf[p[1]]] \in Nat
  <2>1. TypeOK /\ ThreadInv(t)
    BY DEF IInv, IsolationInv
  <2>2. p[1] \in Addr /\ p[2] \in Nat /\ ReadOk(t, p)
    BY <2>1, HistoryTypes DEF ThreadInv, ReadsOf
  <2>3. /\ read_version[t] \in Nat /\ write_version[t] \in Nat
        /\ locks \in [LockIds -> Nat]
    BY <2>1 DEF TypeOK
  <2>4. read_version[t] < write_version[t] /\ read_version[t] % 2 = 0
    BY <2>1 DEF ThreadInv, ClockOf, Versioned
  <2>. QED
    BY <2>1, <2>2, <2>3, <2>4, ConstantsOk
<1>2. \A u \in Threads \ {t} : LockOf[p[1]] \notin held[u]
  <2>1. CASE p[1] \in write_set[t]
    BY <1>1, <2>1, TodoHeld, OneHolder DEF IInv
  <2>2. CASE p[1] \notin write_set[t]
    BY <1>1, <2>2, CheckedLock DEF ReadSetOk
  <2>. QED
    BY <2>1, <2>2
<1>3. Base(locks[LockOf[p[1]]]) <= read_version[t]
  <2>1. Version(locks[LockOf[p[1]]]) <= Version(read_version[t])
    BY DEF ReadSetOk, LockCheck, lock_check, lock_check_version
  <2>. QED
    BY <1>1, <2>1, BaseFacts
<1>4. ASSUME NEW c \in Writers(p[1]) PROVE c.at <= read_version[t] /\ c.at \in Nat
  <2>1. c.at <= Base(locks[LockOf[p[1]]])
    BY <1>1, <1>2 DEF IsolationInv, StoreInv, LockCurrent
  <2>2. c.at \in Nat /\ Base(locks[LockOf[p[1]]]) \in Nat
    BY <1>1, HistoryTypes, BaseFacts DEF Writers
  <2>. QED
    BY <1>1, <1>3, <2>1, <2>2
<1>5. p[2] < write_version[t]
  BY <1>1, <1>4 DEF ReadOk
<1>6. \A c \in Writers(p[1]) : c.at <= p[2]
  BY <1>1, <1>4 DEF ReadOk
<1>. QED
  BY <1>2, <1>5, <1>6 DEF ReadStands

LEMMA ValidateIsolation ==
    ASSUME IInv, MemoryInv, IsolationInv, NEW t \in Threads, NEW a \in Addr,
           validate_reading_set(t, a)
    PROVE  IsolationInv'
<1>1. /\ pc[t] = "validate" /\ TypeOK
      /\ UNCHANGED <<shared, memory, txn, word, vl, held, ghost>>
  BY DEF validate_reading_set, IInv
<1>2. CASE ~ ReadSetOk(t, a)
  <2>1. /\ word_todo' = [word_todo EXCEPT ![t] = {}]
        /\ pc' = [pc EXCEPT ![t] = "rollback"]
    BY <1>2 DEF validate_reading_set
  <2>2. OthersStay(t) /\ AwayFromStore(t)
    BY <1>1, <2>1 DEF TypeOK, OthersStay, AwayFromStore, shared, txn, ghost, memory, table
  <2>3. pc'[t] = "rollback"
    BY <2>1, <1>1 DEF TypeOK
  <2>4. ~ read_only[t]
    BY <1>1 DEF IsolationInv, ThreadInv, ClockOf
  <2>. QED
    BY <1>1, <2>2, <2>3, <2>4, MoveIsolation DEF txn, ghost, memory, table
<1>3. CASE ReadSetOk(t, a)
  <2>1. /\ word_todo' = [word_todo EXCEPT ![t] = @ \ {a}] /\ UNCHANGED pc
    BY <1>3 DEF validate_reading_set, ReadSetOk
  <2>2. /\ word_todo'[t] = word_todo[t] \ {a}
        /\ \A u \in Threads \ {t} : word_todo'[u] = word_todo[u]
    BY <1>1, <2>1 DEF TypeOK
  <2>3. UNCHANGED <<global_version, locks, mem, read_version, write_version, read_only,
                    read_set, write_set, word, held, seen, commits>>
    BY <1>1 DEF shared, txn, ghost, memory, table
  <2>4. StoreInv' /\ CommitsPast' /\ CommitInv'
    BY <1>1, <2>1, <2>2, <2>3
    DEF IsolationInv, StoreInv, MemStamped, MemCurrent, Pending, LockCurrent, LockTruthful,
        WrittenBack, Writers, CommitsPast, CommitInv, NoLateWriter, UpdatesSerializable,
        NewestAsOf
  <2>5. ASSUME NEW u \in Threads PROVE ThreadInv(u)'
    <3>. ThreadInv(u)
      BY DEF IsolationInv
    <3>1. ClockOf(u)' /\ DecidedOf(u)'
      BY <1>1, <2>1, <2>2, <2>3 DEF ThreadInv, ClockOf, Versioned, DecidedOf
    <3>2. ReadsOf(u)'
      BY <2>1, <2>3 DEF ThreadInv, ReadsOf, ReadOk, NoOlderHolder, Versioned, Writers
    <3>3. \A b, s : ReadStands(u, b, s) => ReadStands(u, b, s)'
      BY <2>1, <2>3 DEF ReadStands, Writers
    <3>4. ValidatedOf(u)'
      <4>. SUFFICES ASSUME pc'[u] = "validate", NEW p \in seen'[u], p[1] \notin word_todo'[u]
                    PROVE  ReadStands(u, p[1], p[2])'
        BY DEF ValidatedOf
      <4>1. CASE u = t /\ p[1] = a
        BY <1>1, <1>3, <2>3, <3>3, <4>1, ValidWord
      <4>2. CASE u # t \/ p[1] # a
        BY <2>1, <2>2, <2>3, <3>3, <4>2 DEF ThreadInv, ValidatedOf
      <4>. QED
        BY <4>1, <4>2
    <3>. QED
      BY <3>1, <3>2, <3>4 DEF ThreadInv
  <2>. QED
    BY <2>4, <2>5 DEF IsolationInv
<1>. QED
  BY <1>2, <1>3

-----------------------------------------------------------------------------
(* The decision and the write-back *)

\* The decision to commit: all reads stand, the locks of all written words are
\* held, and no committed transaction has read what is to be written, unless it
\* comes later.
LEMMA DecideIsolation ==
    ASSUME IInv, MemoryInv, IsolationInv, NEW t \in Threads, tm_end_validated(t)
    PROVE  IsolationInv'
<1>. DEFINE wv == write_version[t]
            new == [at |-> wv, ro |-> FALSE, reads |-> seen[t], writes |-> write_set[t]]
<1>1. /\ pc[t] = "validate" /\ word_todo[t] = {} /\ TypeOK
      /\ word_todo' = [word_todo EXCEPT ![t] = write_set[t]]
      /\ pc' = [pc EXCEPT ![t] = "commit"]
      /\ commits' = commits \cup {new}
      /\ UNCHANGED <<global_version, locks, mem, read_version, write_version, read_only,
                     read_set, write_set, word, held, seen>>
  BY DEF tm_end_validated, shared, txn, IInv, memory, table
<1>2. /\ pc'[t] = "commit" /\ word_todo'[t] = write_set[t]
      /\ \A u \in Threads \ {t} : pc'[u] = pc[u] /\ word_todo'[u] = word_todo[u]
      /\ \A u \in Threads : read_version[u] \in Nat /\ write_version[u] \in Nat
  BY <1>1 DEF TypeOK
<1>3. new.at = wv /\ new.ro = FALSE /\ new.reads = seen[t] /\ new.writes = write_set[t]
  OBVIOUS
<1>. HIDE DEF new
<1>4. \A a, c : c \in Writers(a)' <=> c \in Writers(a) \/ (c = new /\ a \in write_set[t])
  BY <1>1, <1>3 DEF Writers
<1>5. \A a \in write_set[t] : LockOf[a] \in held[t]
  BY <1>1, TodoHeld DEF TypeOK
<1>6. wv <= global_version /\ read_version[t] < wv
  BY <1>1 DEF IInv, LockInv, VersionBound, IsolationInv, ThreadInv, ClockOf, Versioned
<1>7. ASSUME NEW p \in seen[t] PROVE ReadStands(t, p[1], p[2]) /\ p[2] \in Nat
  BY <1>1, HistoryTypes DEF IsolationInv, ThreadInv, ValidatedOf
<1>8. \A u \in Threads : Versioned(u)' <=> Versioned(u)
  BY <1>1, <1>2 DEF Versioned
<1>9. StoreInv'
  <2>. USE DEF IsolationInv, StoreInv
  <2>1. MemStamped'
    BY <1>1, <1>4 DEF MemStamped
  <2>2. MemCurrent'
    <3>. SUFFICES ASSUME NEW a \in Addr, NEW c \in Writers(a)'
                  PROVE  c.at <= mem[a] \/ \E u \in Threads : Pending(u, a, c)'
      BY <1>1 DEF MemCurrent
    <3>1. CASE c = new /\ a \in write_set[t]
      BY <1>1, <1>2, <1>3, <3>1 DEF Pending
    <3>2. CASE c \in Writers(a)
      <4>1. ASSUME NEW u \in Threads, Pending(u, a, c) PROVE Pending(u, a, c)'
        BY <1>1, <1>2, <4>1 DEF Pending
      <4>. QED
        BY <3>2, <4>1 DEF MemCurrent
    <3>. QED
      BY <1>4, <3>1, <3>2
  <2>3. LockCurrent'
    BY <1>1, <1>2, <1>3, <1>4, <1>5 DEF LockCurrent
  <2>4. LockTruthful'
    BY <1>1, <1>2 DEF LockTruthful
  <2>5. ASSUME NEW u \in Threads PROVE WrittenBack(u)'
    BY <1>1, <1>2 DEF WrittenBack
  <2>. QED
    BY <2>1, <2>2, <2>3, <2>4, <2>5
<1>10. CommitsPast'
  BY <1>1, <1>3, <1>6 DEF IsolationInv, CommitsPast
<1>11. NoLateWriter'
  <2>. SUFFICES ASSUME NEW c \in commits', ~ c.ro, NEW p \in c.reads, NEW u \in Threads,
                       pc'[u] = "validate", p[1] \in write_set[u]
                PROVE  c.at < write_version[u]
    BY <1>1 DEF NoLateWriter
  <2>1. u # t /\ pc[u] = "validate"
    BY <1>2
  <2>2. CASE c \in commits
    BY <2>1, <2>2 DEF IsolationInv, CommitInv, NoLateWriter
  <2>3. CASE c = new
    <3>1. p \in seen[t] /\ p[1] \in Addr
      BY <1>1, <1>3, <2>3, HistoryTypes
    <3>2. LockOf[p[1]] \in held[u]
      BY <1>1, <2>1, <3>1, TodoHeld
    <3>. QED
      BY <1>3, <1>7, <2>1, <2>3, <3>1, <3>2 DEF ReadStands
  <2>. QED
    BY <1>1, <2>2, <2>3
<1>12. UpdatesSerializable'
  <2>. SUFFICES ASSUME NEW d \in commits', ~ d.ro, NEW p \in d.reads
                PROVE  /\ p[2] <= d.at - 1
                       /\ \A c \in Writers(p[1])' : c.at <= d.at - 1 => c.at <= p[2]
    BY DEF UpdatesSerializable, NewestAsOf
  <2>1. CASE d \in commits
    <3>1. /\ p[2] <= d.at - 1
          /\ \A c \in Writers(p[1]) : c.at <= d.at - 1 => c.at <= p[2]
      BY <2>1 DEF IsolationInv, CommitInv, UpdatesSerializable, NewestAsOf
    <3>2. p[1] \in write_set[t] => d.at < wv
      BY <1>1, <2>1 DEF IsolationInv, CommitInv, NoLateWriter
    <3>3. d.at \in Nat
      BY <1>1, <2>1, HistoryTypes
    <3>. QED
      BY <1>2, <1>3, <1>4, <3>1, <3>2, <3>3
  <2>2. CASE d = new
    <3>1. p \in seen[t] /\ d.at = wv
      BY <1>3, <2>2
    <3>2. p[2] < wv /\ p[2] \in Nat /\ \A c \in Writers(p[1]) : c.at < wv => c.at <= p[2]
      BY <1>7, <3>1 DEF ReadStands
    <3>3. \A c \in Writers(p[1]) : c.at \in Nat
      BY <1>1, HistoryTypes DEF Writers
    <3>. QED
      BY <1>2, <1>3, <1>4, <3>1, <3>2, <3>3
  <2>. QED
    BY <1>1, <2>1, <2>2
<1>13. ASSUME NEW u \in Threads PROVE ThreadInv(u)'
  <2>. ThreadInv(u)
    BY DEF IsolationInv
  <2>2. ClockOf(u)'
    BY <1>1, <1>2, <1>8 DEF ThreadInv, ClockOf
  <2>3. \A b : NoOlderHolder(u, b) => NoOlderHolder(u, b)'
    BY <1>1, <1>8 DEF NoOlderHolder
  <2>4. ASSUME NEW p \in seen[u] PROVE ReadOk(u, p)'
    <3>1. ReadOk(u, p) /\ p[1] \in Addr
      BY <1>1, HistoryTypes DEF ThreadInv, ReadsOf
    <3>2. p[1] \in write_set[t] => read_version[u] < wv
      BY <1>1, <1>5, <3>1 DEF ReadOk, NoOlderHolder, Versioned
    <3>3. \A c \in Writers(p[1])' : c.at <= read_version[u] => c.at <= p[2]
      BY <1>2, <1>3, <1>4, <3>1, <3>2 DEF ReadOk
    <3>. QED
      BY <1>1, <1>4, <2>3, <3>1, <3>3 DEF ReadOk
  <2>5. ReadsOf(u)'
    BY <1>1, <1>2, <2>3, <2>4 DEF ThreadInv, ReadsOf
  <2>6. ASSUME u # t, pc[u] = "validate", NEW p \in seen[u], ReadStands(u, p[1], p[2])
        PROVE  ReadStands(u, p[1], p[2])'
    <3>1. p[1] \in write_set[t] => write_version[u] < wv
      BY <1>1, <1>5, <2>6 DEF ReadStands
    <3>2. \A c \in Writers(p[1])' : c.at < write_version[u] => c.at <= p[2]
      BY <1>2, <1>3, <1>4, <2>6, <3>1 DEF ReadStands
    <3>. QED
      BY <1>1, <1>2, <2>6, <3>2 DEF ReadStands
  <2>7. ValidatedOf(u)'
    BY <1>1, <1>2, <2>6 DEF ThreadInv, ValidatedOf
  <2>8. DecidedOf(u)'
    BY <1>1, <1>2, <1>3 DEF ThreadInv, DecidedOf
  <2>. QED
    BY <2>2, <2>5, <2>7, <2>8 DEF ThreadInv
<1>. QED
  BY <1>9, <1>10, <1>11, <1>12, <1>13 DEF IsolationInv, CommitInv

\* Steps of a committer after its decision concern the store only.
LEMMA CommittingKeepsThreads ==
    ASSUME TypeOK, IsolationInv, NEW t \in Threads, pc[t] = "commit",
           \A u \in Threads : held'[u] \subseteq held[u],
           \A u \in Threads \ {t} : word_todo'[u] = word_todo[u] /\ held'[u] = held[u],
           word_todo'[t] # {} => held'[t] = held[t] /\ word_todo[t] # {},
           UNCHANGED <<global_version, pc, read_version, write_version, read_only, read_set,
                       write_set, word, seen, commits>>
    PROVE  (\A u \in Threads : ThreadInv(u)') /\ CommitsPast' /\ CommitInv'
<1>1. CommitsPast' /\ CommitInv'
  BY
  DEF IsolationInv, CommitsPast, CommitInv, NoLateWriter, UpdatesSerializable, NewestAsOf,
         Writers
<1>2. ASSUME NEW u \in Threads PROVE ThreadInv(u)'
  <2>. ThreadInv(u)
    BY DEF IsolationInv
  <2>2. ClockOf(u)' /\ DecidedOf(u)'
    BY DEF ThreadInv, ClockOf, Versioned, DecidedOf
  <2>3. \A b : NoOlderHolder(u, b) => NoOlderHolder(u, b)'
    BY DEF NoOlderHolder, Versioned
  <2>4. ReadsOf(u)'
    BY <2>3 DEF ThreadInv, ReadsOf, ReadOk, Writers
  <2>5. \A b, s : ReadStands(u, b, s) => ReadStands(u, b, s)'
    BY DEF ReadStands, Writers
  <2>6. ValidatedOf(u)'
    BY <2>5 DEF ThreadInv, ValidatedOf
  <2>. QED
    BY <2>2, <2>4, <2>6 DEF ThreadInv
<1>. QED
  BY <1>1, <1>2

\* A write-back replaces the newest value by a newer one.
LEMMA WriteBackIsolation ==
    ASSUME IInv, MemoryInv, IsolationInv, NEW t \in Threads, NEW a \in Addr,
           write_writing_set(t, a)
    PROVE  IsolationInv'
<1>1. /\ pc[t] = "commit" /\ a \in word_todo[t] /\ TypeOK
      /\ mem' = [mem EXCEPT ![a] = write_version[t]]
      /\ word_todo' = [word_todo EXCEPT ![t] = @ \ {a}]
      /\ UNCHANGED <<global_version, locks, pc, read_version, write_version, read_only,
                     read_set, write_set, word, held, seen, commits>>
  BY DEF write_writing_set, txn, ghost, IInv, memory, table
<1>2. /\ mem'[a] = write_version[t] /\ word_todo'[t] = word_todo[t] \ {a}
      /\ \A b \in Addr \ {a} : mem'[b] = mem[b]
      /\ \A u \in Threads \ {t} : word_todo'[u] = word_todo[u]
  BY <1>1 DEF TypeOK
<1>3. LockOf[a] \in held[t] /\ LockOf[a] \in LockIds
  BY <1>1, TodoHeld, ConstantsOk DEF TypeOK
<1>4. \A b : Writers(b)' = Writers(b)
  BY <1>1 DEF Writers
<1>5. ASSUME NEW c \in Writers(a) PROVE c.at <= write_version[t]
  <2>1. c.at \in Nat /\ write_version[t] \in Nat /\ locks[LockOf[a]] \in Nat
    BY <1>1, <1>3, HistoryTypes DEF Writers, TypeOK
  <2>2. CASE c.at <= Base(locks[LockOf[a]])
    <3>1. locks[LockOf[a]] < write_version[t]
      BY <1>1, <1>3 DEF IInv, LockInv, VersionBound
    <3>. QED
      BY <2>1, <2>2, <3>1, BaseFacts
  <2>3. ASSUME NEW u \in Threads, LockOf[a] \in held[u], c.at = write_version[u]
        PROVE  c.at <= write_version[t]
    BY <1>3, <2>1, <2>3, OneHolder DEF IInv
  <2>. QED
    BY <2>2, <2>3 DEF IsolationInv, StoreInv, LockCurrent
<1>6. StoreInv'
  <2>. USE DEF IsolationInv, StoreInv
  <2>1. MemStamped'
    <3>1. PICK c \in commits : ~ c.ro /\ c.at = write_version[t] /\ c.writes = write_set[t]
      BY <1>1 DEF ThreadInv, DecidedOf
    <3>2. c \in Writers(a)
      BY <1>1, <3>1 DEF Writers, MemoryInv, NamesAccessible
    <3>. QED
      BY <1>2, <1>4, <3>1, <3>2 DEF MemStamped
  <2>2. MemCurrent'
    <3>. SUFFICES ASSUME NEW b \in Addr, NEW c \in Writers(b)
                  PROVE  c.at <= mem'[b] \/ \E u \in Threads : Pending(u, b, c)'
      BY <1>4 DEF MemCurrent
    <3>1. CASE b = a
      BY <1>2, <1>5, <3>1
    <3>2. CASE b # a
      <4>1. ASSUME NEW u \in Threads, Pending(u, b, c) PROVE Pending(u, b, c)'
        BY <1>1, <1>2, <3>2, <4>1 DEF Pending
      <4>. QED
        BY <1>2, <3>2, <4>1 DEF MemCurrent
    <3>. QED
      BY <3>1, <3>2
  <2>3. LockCurrent'
    BY <1>1, <1>4 DEF LockCurrent
  <2>4. LockTruthful'
    BY <1>1, <1>2, <1>3 DEF LockTruthful
  <2>5. ASSUME NEW u \in Threads PROVE WrittenBack(u)'
    <3>. SUFFICES ASSUME pc[u] = "commit", NEW b \in write_set[u], b \notin word_todo'[u],
                         LockOf[b] \in held[u]
                  PROVE  mem'[b] = write_version[u]
      BY <1>1 DEF WrittenBack
    <3>1. CASE b = a
      BY <1>1, <1>2, <1>3, <3>1, OneHolder DEF IInv
    <3>2. CASE b # a
      <4>1. b \in Addr /\ b \notin word_todo[u]
        BY <1>1, <1>2, <3>2 DEF TypeOK
      <4>. QED
        BY <1>2, <3>2, <4>1 DEF WrittenBack
    <3>. QED
      BY <3>1, <3>2
  <2>. QED
    BY <2>1, <2>2, <2>3, <2>4, <2>5
<1>. QED
  BY <1>1, <1>2, <1>6, CommittingKeepsThreads DEF IsolationInv

\* A lock is released with the version of the values behind it.
LEMMA ReleaseIsolation ==
    ASSUME IInv, MemoryInv, IsolationInv, NEW t \in Threads, update_unique_lock_set(t)
    PROVE  IsolationInv'
<1>. DEFINE wv == write_version[t]
            l == LockAt(t)
<1>1. /\ pc[t] = "commit" /\ word_todo[t] = {} /\ l \in held[t] /\ TypeOK
      /\ locks' = [locks EXCEPT ![l] = wv]
      /\ held' = [held EXCEPT ![t] = @ \ {l}]
      /\ UNCHANGED <<global_version, mem, pc, read_version, write_version, read_only,
                     read_set, write_set, word, word_todo, seen, commits>>
  BY PassFacts
  DEF update_unique_lock_set, lock_update_and_release, WriteBackDone, txn, ghost, IInv
<1>. HIDE DEF l
<1>2. /\ locks'[l] = wv /\ held'[t] = held[t] \ {l} /\ wv \in Nat
      /\ \A k \in LockIds \ {l} : locks'[k] = locks[k]
      /\ \A u \in Threads \ {t} : held'[u] = held[u]
  BY <1>1 DEF TypeOK
<1>3. Base(wv) = wv
  <2>1. ~ IsLocked(wv)
    BY DEF IInv, LockInv, Parity, IsLocked
  <2>. QED
    BY <1>2, <2>1, BaseFacts
<1>4. \A b : Writers(b)' = Writers(b)
  BY <1>1 DEF Writers
<1>5. PICK b \in Addr : LockOf[b] = l /\ mem[b] = wv
  <2>1. PICK b \in write_set[t] : LockOf[b] = l
    BY <1>1, HeldLocks DEF LocksOf, UniqueLocks
  <2>2. mem[b] = wv
    BY <1>1, <2>1 DEF IsolationInv, StoreInv, WrittenBack
  <2>3. b \in Addr
    BY <1>1, <2>1 DEF TypeOK
  <2>. QED
    BY <2>1, <2>2, <2>3
<1>6. StoreInv'
  <2>. USE DEF IsolationInv, StoreInv
  <2>1. MemStamped'
    BY <1>1, <1>4 DEF MemStamped
  <2>2. MemCurrent'
    BY <1>1, <1>4 DEF MemCurrent, Pending
  <2>3. LockCurrent'
    <3>. SUFFICES ASSUME NEW a \in Addr, NEW c \in Writers(a)
                  PROVE  \/ c.at <= Base(locks'[LockOf[a]])
                         \/ \E u \in Threads : /\ pc[u] = "commit" /\ LockOf[a] \in held'[u]
                                               /\ c.at = write_version[u]
      BY <1>1, <1>4 DEF LockCurrent
    <3>1. c.at \in Nat /\ LockOf[a] \in LockIds /\ locks[l] \in Nat
      BY <1>1, HistoryTypes, ConstantsOk DEF Writers, TypeOK
    <3>2. CASE LockOf[a] # l
      BY <1>1, <1>2, <3>1, <3>2 DEF LockCurrent
    <3>3. CASE LockOf[a] = l
      <4>1. locks[l] < wv
        BY <1>1 DEF IInv, LockInv, VersionBound
      <4>2. c.at <= Base(locks[l]) \/ c.at = wv
        BY <1>1, <3>3, OneHolder DEF LockCurrent, IInv
      <4>. QED
        BY <1>2, <1>3, <3>1, <3>3, <4>1, <4>2, BaseFacts
    <3>. QED
      BY <3>2, <3>3
  <2>4. LockTruthful'
    BY <1>1, <1>2, <1>3, <1>5 DEF LockTruthful
  <2>5. ASSUME NEW u \in Threads PROVE WrittenBack(u)'
    BY <1>1, <1>2 DEF WrittenBack
  <2>. QED
    BY <2>1, <2>2, <2>3, <2>4, <2>5
<1>7. \A u \in Threads : held'[u] \subseteq held[u]
  BY <1>2
<1>. QED
  BY <1>1, <1>2, <1>6, <1>7, CommittingKeepsThreads DEF IsolationInv

-----------------------------------------------------------------------------
(* All steps *)

LEMMA IsolationNext == IInv /\ MemoryInv /\ IsolationInv /\ [Next]_vars => IsolationInv'
<1>. SUFFICES ASSUME IInv, MemoryInv, IsolationInv, [Next]_vars PROVE IsolationInv'
  OBVIOUS
<1>1. TypeOK /\ NoLockLeft
  BY DEF IInv, LockInv
<1>2. ASSUME NEW t \in Threads, NEW is_ro \in Kinds, tm_begin(t, is_ro)
      PROVE  IsolationInv'
  BY <1>2, BeginIsolation
<1>3. ASSUME NEW t \in Threads, NEW a \in Addr, tm_read(t, a)
      PROVE  IsolationInv'
  <2>1. CASE LockCheck(t, a)
    BY <1>3, <2>1, ReadIsolation
  <2>2. CASE ~ LockCheck(t, a)
    BY <1>1, <1>3, <2>2, DestroyIsolation DEF tm_read, shared, NoLockLeft, memory, table
  <2>. QED
    BY <2>1, <2>2
<1>4. ASSUME NEW t \in Threads, tm_read_recheck(t)
      PROVE  IsolationInv'
  <2>1. CASE LockCheck(t, word[t])
    BY <1>4, <2>1, RecheckIsolation
  <2>2. CASE ~ LockCheck(t, word[t])
    BY <1>1, <1>4, <2>2, DestroyIsolation
    DEF tm_read_recheck, shared, NoLockLeft, memory, table
  <2>. QED
    BY <2>1, <2>2
<1>5. ASSUME NEW t \in Threads, tm_read_copy(t)
      PROVE  IsolationInv'
  BY <1>5, CopyIsolation
<1>6. ASSUME NEW t \in Threads, NEW a \in Addr, tm_write(t, a)
      PROVE  IsolationInv'
  BY <1>6, WriteIsolation
<1>7. ASSUME NEW t \in Threads, tm_write_misaligned(t) \/ tm_end_nomem(t)
      PROVE  IsolationInv'
  BY <1>1, <1>7, DestroyIsolation
  DEF tm_write_misaligned, tm_end_nomem, shared, NoLockLeft, memory, table
<1>8. ASSUME NEW t \in Threads, NEW s \in Segs, tm_alloc(t, s)
      PROVE  IsolationInv'
  BY <1>8, AllocIsolation
<1>9. ASSUME NEW t \in Threads, tm_end_read_only(t)
      PROVE  IsolationInv'
  <2>1. commits \subseteq commits' /\ \A c \in commits' : c \in commits \/ c.ro
    BY <1>9 DEF tm_end_read_only
  <2>. QED
    BY <1>1, <1>9, <2>1, DestroyIsolation
    DEF tm_end_read_only, shared, NoLockLeft, memory, table
<1>10. ASSUME NEW t \in Threads, tm_end(t)
      PROVE  IsolationInv'
  BY <1>10, EndIsolation
<1>11. ASSUME NEW t \in Threads, lock_unique_lock_set(t)
      PROVE  IsolationInv'
  BY <1>11, LoadIsolation
<1>12. ASSUME NEW t \in Threads, lock_try_acquire(t)
      PROVE  IsolationInv'
  BY <1>12, AcquireIsolation
<1>13. ASSUME NEW t \in Threads, tm_end_fetch_add(t)
      PROVE  IsolationInv'
  BY <1>13, FetchAddIsolation
<1>14. ASSUME NEW t \in Threads, NEW a \in Addr, validate_reading_set(t, a)
      PROVE  IsolationInv'
  BY <1>14, ValidateIsolation
<1>15. ASSUME NEW t \in Threads, tm_end_validated(t)
      PROVE  IsolationInv'
  BY <1>15, DecideIsolation
<1>16. ASSUME NEW t \in Threads, NEW a \in Addr, write_writing_set(t, a)
      PROVE  IsolationInv'
  BY <1>16, WriteBackIsolation
<1>17. ASSUME NEW t \in Threads, update_unique_lock_set(t)
      PROVE  IsolationInv'
  BY <1>17, ReleaseIsolation
<1>18. ASSUME NEW t \in Threads, tm_end_committed(t)
      PROVE  IsolationInv'
  BY <1>1, <1>18, DestroyIsolation DEF tm_end_committed, NoLockLeft
<1>23. ASSUME NEW t \in Threads, lock_acquire(t)
      PROVE  IsolationInv'
  BY <1>23, ListIsolation
<1>19. ASSUME NEW t \in Threads, unlock_unique_lock_set_until(t)
      PROVE  IsolationInv'
  BY <1>19, RollbackIsolation
<1>20. ASSUME NEW t \in Threads, tm_end_failed(t)
      PROVE  IsolationInv'
  BY <1>1, <1>20, PassFacts, DestroyIsolation DEF tm_end_failed, shared
<1>21. ASSUME UNCHANGED <<global_version, locks, mem, txn, local, ghost>>
      PROVE  IsolationInv'
  BY <1>21
  DEF txn, local, ghost, IsolationInv, ThreadInv, ClockOf, Versioned,
      ReadsOf, ReadOk, NoOlderHolder, ValidatedOf, ReadStands, DecidedOf, CommitsPast,
      StoreInv, MemStamped, MemCurrent, Pending, LockCurrent, LockTruthful, WrittenBack,
      CommitInv, NoLateWriter, UpdatesSerializable, NewestAsOf, Writers, memory, table
<1>22. CASE tm_destroy \/ UNCHANGED vars \/ \E t \in Threads, s \in Segs : tm_free(t, s)
  BY <1>21, <1>22 DEF tm_destroy, tm_free, vars, shared, memory, table
<1>. QED
  BY <1>2, <1>3, <1>4, <1>5, <1>6, <1>7, <1>8, <1>9, <1>10, <1>11, <1>12, <1>13, <1>14,
     <1>15, <1>16, <1>17, <1>18, <1>19, <1>20, <1>22, <1>23 DEF Next, Call, Step, Done

LEMMA IsolationInvariance == Spec => []IsolationInv
<1>. QED
  BY InitIsolation, Invariance, MemoryInvariance, IsolationNext, PTL DEF Spec

-----------------------------------------------------------------------------
(* Theorems *)

\* Committed read-write transactions are serializable in the order of their
\* write versions (tm_end), also those that skipped the validation.
THEOREM Serializable == Spec => []UpdatesSerializable
<1>1. IsolationInv => UpdatesSerializable
  BY DEF IsolationInv, CommitInv
<1>. QED
  BY <1>1, IsolationInvariance, PTL

\* tm_read returns committed values only: tm_end writes back after it has
\* decided.
THEOREM ReadsCommitted == Spec => []NoDirtyRead
<1>1. IsolationInv => NoDirtyRead
  BY DEF IsolationInv, ThreadInv, ReadsOf, ReadOk, NoDirtyRead
<1>. QED
  BY <1>1, IsolationInvariance, PTL

\* tm_read misses nothing that was committed when the transaction began.
THEOREM ReadsRecent == Spec => []CommittedWritesVisible
<1>1. IsolationInv => CommittedWritesVisible
  BY DEF IsolationInv, ThreadInv, ReadsOf, ReadOk, CommittedWritesVisible
<1>. QED
  BY <1>1, IsolationInvariance, PTL

\* A free lock has the version of the newest commit behind it, and its words
\* the newest committed values: aborts and half-done write-backs stay hidden.
THEOREM FreeLocksTell == Spec => []UnlockedIsCurrent
<1>1. IInv /\ MemoryInv /\ IsolationInv => UnlockedIsCurrent
  <2>. SUFFICES ASSUME IInv, MemoryInv, IsolationInv, NEW a \in Addr,
                       ~ IsLocked(locks[LockOf[a]])
                PROVE  /\ NewestAsOf(a, mem[a], global_version)
                       /\ mem[a] = 0 \/ \E c \in Writers(a) : c.at = mem[a]
                       /\ \/ locks[LockOf[a]] = 0
                          \/ \E b \in Addr : LockOf[b] = LockOf[a] /\ mem[b] = locks[LockOf[a]]
                       /\ mem[a] <= locks[LockOf[a]]
    BY DEF UnlockedIsCurrent
  <2>. DEFINE l == LockOf[a]
  <2>1. /\ l \in LockIds /\ locks[l] \in Nat /\ Base(locks[l]) = locks[l] /\ TypeOK
        /\ mem[a] \in Nat /\ global_version \in Nat
    <3>1. /\ TypeOK /\ l \in LockIds /\ locks[l] \in Nat
          /\ mem[a] \in Nat /\ global_version \in Nat
      BY ConstantsOk DEF IInv, TypeOK
    <3>. QED
      BY <3>1, BaseFacts
  <2>2. \A u \in Threads : l \notin held[u]
    BY <2>1 DEF IInv, LockInv, LockOwnership
  <2>3. mem[a] = 0 \/ \E c \in Writers(a) : c.at = mem[a]
    BY DEF IsolationInv, StoreInv, MemStamped
  <2>4. ASSUME NEW c \in Writers(a)
        PROVE  c.at <= mem[a] /\ c.at <= locks[l] /\ c.at <= global_version
    <3>1. \A u \in Threads : ~ Pending(u, a, c)
      BY <2>1, <2>2, TodoHeld DEF Pending
    <3>. QED
      BY <2>1, <2>2, <3>1
      DEF IsolationInv, StoreInv, MemCurrent, LockCurrent, CommitsPast, Writers
  <2>5. NewestAsOf(a, mem[a], global_version) /\ mem[a] <= locks[l]
    BY <2>1, <2>3, <2>4 DEF NewestAsOf
  <2>6. locks[l] = 0 \/ \E b \in Addr : LockOf[b] = l /\ mem[b] = locks[l]
    BY <2>1, <2>2 DEF IsolationInv, StoreInv, LockTruthful
  <2>. QED
    BY <2>3, <2>5, <2>6
<1>. QED
  BY <1>1, Invariance, MemoryInvariance, IsolationInvariance, PTL
=============================================================================
