--------------------------- MODULE TL2Properties ---------------------------
(***************************************************************************)
(* What the transactional memory of module TL2 promises.                   *)
(***************************************************************************)
EXTENDS TL2

PcValues == {"idle", "run", "reread", "copy", "lock", "cas", "validate",
             "commit", "concat", "rollback"}

CommitRecord == [at : Nat, ro : BOOLEAN, reads : SUBSET (Addr \X Nat),
                 writes : SUBSET Addr]

\* Type invariant of the region, the transactions and the history.
TypeOK ==
    /\ global_version \in Nat
    /\ locks \in [LockIds -> Nat]
    /\ mem \in [Addr -> Nat]
    /\ segments \subseteq Segs \cup {FirstSeg}
    /\ list_lock \in Threads \cup {None}
    /\ live \subseteq Segs \cup {FirstSeg}
    /\ unlisted \subseteq Segs \cup {FirstSeg}
    /\ lost \in [Threads -> SUBSET Segs]
    /\ leaked \subseteq Segs \cup {FirstSeg}
    /\ up \in BOOLEAN
    /\ read_version \in [Threads -> Nat]
    /\ write_version \in [Threads -> Nat]
    /\ read_only \in [Threads -> BOOLEAN]
    /\ read_set \in [Threads -> SUBSET Addr]
    /\ write_set \in [Threads -> SUBSET Addr]
    /\ alloc_set \in [Threads -> SUBSET Segs]
    /\ pc \in [Threads -> PcValues]
    /\ word \in [Threads -> Addr \cup {None}]
    /\ \A t \in Threads : pc[t] \in {"reread", "copy"} => word[t] \in Addr
    /\ vl \in [Threads -> Nat]
    /\ unique_locks \in [Threads -> Seq(LockIds)]
    /\ at \in [Threads -> Nat \ {0}]
    /\ key \in [Threads -> LockIds \cup {None}]
    /\ word_todo \in [Threads -> SUBSET Addr]
    /\ held \in [Threads -> SUBSET LockIds]
    /\ attempts \in [Threads -> Nat]
    /\ overlap \in [Threads -> BOOLEAN]
    /\ seen \in [Threads -> SUBSET (Addr \X Nat)]
    /\ commits \subseteq CommitRecord

-----------------------------------------------------------------------------
(* Locks *)

\* Mutual exclusion of committers: a lock bit is set exactly while one
\* transaction, and only one, has acquired the lock and not yet released it
\* (lock_try_acquire against lock_release and lock_update_and_release).
LockOwnership ==
    /\ \A l \in LockIds :
         IsLocked(locks[l]) <=> \E t \in Threads : l \in held[t]
    /\ \A t, u \in Threads : t # u => held[t] \cap held[u] = {}

\* A thread outside tm_end holds no lock: every way out of tm_end, the two
\* roll-backs and the commit, released what it had acquired, though the
\* roll-back knows only the lock that was refused and the table order.  The
\* lock of the region's list is given back before tm_end returns as well.
NoLockLeft ==
    \A t \in Threads :
        /\ pc[t] \notin {"lock", "cas", "validate", "commit", "rollback"}
               => held[t] = {}
        /\ list_lock = t => pc[t] = "concat"

VersionsKept == \A l \in LockIds : Version(locks[l]) <= Version(locks'[l])

\* The version of a lock never goes backwards: roll-back restores it and
\* commit replaces it by a newer one.  A reader relies on it when it takes
\* an old version as proof that the word has not changed.
LockVersionsGrow == [][VersionsKept]_locks

-----------------------------------------------------------------------------
(* Isolation *)

\* The transactions that decided to commit a write of address a.
Writers(a) == {c \in commits : ~ c.ro /\ a \in c.writes}

\* Stamp s is what address a holds in the serial history up to version k.
NewestAsOf(a, s, k) ==
    /\ s <= k
    /\ \A c \in Writers(a) : c.at <= k => c.at <= s

\* Whatever tm_read copied was written by a transaction that decided to
\* commit (or is the initial zero): nothing is written back before the read
\* set has been validated, so an abort never has to be undone in memory.
NoDirtyRead ==
    \A t \in Threads : \A p \in seen[t] :
        p[2] = 0 \/ \E c \in Writers(p[1]) : c.at = p[2]

\* A transaction sees every write that was committed when it began: tm_read
\* refuses a word whose committer has not finished writing it back.
CommittedWritesVisible ==
    \A t \in Threads : \A p \in seen[t] : \A c \in Writers(p[1]) :
        c.at <= read_version[t] => c.at <= p[2]

\* Read-write transactions that committed are serializable in the order of
\* their write versions: each one read exactly what the earlier ones wrote,
\* even when tm_end skipped the validation (write_version = read_version + 2).
UpdatesSerializable ==
    \A c \in commits : ~ c.ro =>
        \A p \in c.reads : NewestAsOf(p[1], p[2], c.at - 1)

\* A read-only transaction that committed saw one snapshot: some version
\* at which every value it read was the current one (the check of long_tx in
\* grading/workload.hpp).
ReadOnlySerializable ==
    \A c \in commits : c.ro =>
        \E k \in 0..global_version : \A p \in c.reads : NewestAsOf(p[1], p[2], k)

\* A lock that is free tells the truth: its version is that of the newest
\* commit it guards, and each word it guards holds the newest committed
\* write.  Neither an abort nor a half-done write-back is ever exposed.
UnlockedIsCurrent ==
    \A a \in Addr : LET l == LockOf[a] IN
        ~ IsLocked(locks[l]) =>
            /\ NewestAsOf(a, mem[a], global_version)
            /\ mem[a] = 0 \/ \E c \in Writers(a) : c.at = mem[a]
            /\ locks[l] = 0 \/ \E b \in Addr : /\ LockOf[b] = l
                                               /\ mem[b] = locks[l]
            /\ mem[a] <= locks[l]

-----------------------------------------------------------------------------
(* Progress *)

\* A transaction that has run alone cannot be aborted by a conflict: no
\* access it may make is refused by tm_read, tm_end does not fail, even when
\* several addresses share a lock, and it finds the list's lock free.  What
\* earlier transactions left in the locks and in the clock is what this is
\* about.
SoloCommits ==
    \A t \in Threads : (pc[t] # "idle" /\ ~ overlap[t]) =>
        /\ pc[t] # "rollback"
        /\ pc[t] = "commit" => list_lock = None
        /\ pc[t] \in {"run", "reread"} =>
             \A a \in Accessible(t) : LockCheck(t, a)

\* validate_reading_set gives up only on a word that somebody else is
\* committing or has committed since the transaction began.
ValidationFailsOnConflict ==
    [][\A t \in Threads :
         (pc[t] = "validate" /\ pc'[t] = "rollback") =>
             \E a \in word_todo[t] :
                 \/ Version(locks[LockOf[a]]) > Version(read_version[t])
                 \/ \E u \in Threads \ {t} : LockOf[a] \in held[u]]_vars

Inside(t) == pc[t] \notin {"idle", "run"}

\* Every call returns, unless other committers go through the region's list
\* for ever: the versioned locks are only tried, so nobody waits for them, and
\* a thread can be kept waiting only in lock_acquire (ll_concat_safe), which
\* is not fair.
CallsReturn ==
    \A t \in Threads :
        <>[](\A u \in Threads \ {t} : pc[u] # "concat")
            => (Inside(t) ~> ~ Inside(t))

-----------------------------------------------------------------------------
(* Memory *)

\* No transaction touches freed memory, and the region's list holds only
\* allocated segments (a double free in tm_destroy otherwise): the segments
\* of an aborted transaction are freed, those of a committed one are not.
MemorySafe ==
    /\ \A t \in Threads :
         /\ pc[t] \in {"reread", "copy"} => SegOf(word[t]) \in live
         /\ pc[t] = "commit" => \A a \in word_todo[t] : SegOf(a) \in live
    /\ segments \subseteq live

\* tm_destroy reclaims every segment but those for which tm_alloc or tm_create
\* got no list node: each other one is freed with its aborted transaction or
\* reaches the region's list (ll_concat_safe), and none is freed by mistake.
SegmentsReclaimed == ~ up => live = unlisted

\* What the comment in tm_destroy says ("free each segment"): the code does
\* not keep it, since tm_alloc and tm_create ignore the result of ll_append.
EverySegmentReclaimed == ~ up => live = {}
=============================================================================
