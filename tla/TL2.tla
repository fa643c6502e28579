-------------------------------- MODULE TL2 --------------------------------
(***************************************************************************)
(* The transactional memory of 415640/tm.c (with utils.c): a TL2-style     *)
(* software transactional memory with a global version clock, an array of  *)
(* versioned write-locks, lazy write-back and commit-time locking.         *)
(*                                                                         *)
(* One step is one access to memory that threads share: a load or an       *)
(* update of the clock or of a lock, or the copy of one word.  What a      *)
(* thread does to its own transaction_t belongs to the neighbouring step.  *)
(* A call that moves several words repeats the loop body of tm_read or     *)
(* tm_write once per word, so it is a sequence of one-word calls here.     *)
(*                                                                         *)
(* Data are abstracted to version stamps: mem[a] is the write_version of   *)
(* the transaction whose value word a holds, 0 for the zeroes of memset.   *)
(* Two reads returned the same committed value iff the stamps are equal.   *)
(***************************************************************************)
EXTENDS VersionLock, SequencesExt

CONSTANTS
    Threads,      \* the client threads, each running one transaction at a time
    Words,        \* the words of the first segment
    Segs,         \* addresses posix_memalign may return in tm_alloc, one word each
    FirstSeg,     \* the first, non-free-able segment
    LockIds,      \* the slots of shared_rgn.locks (LOCK_ARRAY_SIZE of them)
    LockOf,       \* lock_get_from_pointer: any map of addresses to slots
    Kinds,        \* bound: values of is_ro the clients pass to tm_begin
    MaxAttempts,  \* bound: transactions each thread begins, retries included
    None          \* no word, lock or thread selected

Addr == Words \cup Segs

ASSUME ConstantsOk ==
    /\ IsFiniteSet(LockIds)
    /\ LockOf \in [Addr -> LockIds]
    /\ Kinds \subseteq BOOLEAN
    /\ MaxAttempts \in [Threads -> Nat]
    /\ Words \cap Segs = {}
    /\ FirstSeg \notin Segs
    /\ None \notin Addr \cup LockIds \cup Threads

VARIABLES
    \* shared_rgn
    global_version,  \* the version clock, advanced by 2
    locks,           \* LockIds -> int
    mem,             \* Addr -> stamp
    segments,        \* the segments in the region's list
    list_lock,       \* the thread that has the lock of that list, or None
    up,              \* tm_destroy has not run
    live,            \* the segments that are allocated memory
    \* transaction_t, one per thread
    read_version, write_version, read_only, read_set, write_set, alloc_set,
    \* where each thread is inside the library, and its local variables there
    pc, word, vl, word_todo,
    unique_locks,    \* the keys of tm_end's dictionary, in table order
    at,              \* the position of dic_forEach in unique_locks
    key,             \* ri->key: the lock that was refused, or None
    \* history: no code reads these
    held,            \* the locks each thread has acquired and not released
    unlisted,        \* the segments for which no list node could be allocated
    lost,            \* those of each running transaction
    leaked,          \* those the region was created or committed with
    attempts,        \* transactions begun by each thread
    overlap,         \* another transaction was alive during this one
    seen,            \* <<address, stamp>> pairs copied from shared memory
    commits          \* one record per transaction that decided to commit

shared == <<global_version, locks, mem, segments, list_lock, up>>
memory == <<live, unlisted, lost, leaked>>
txn    == <<read_version, write_version, read_only, read_set, write_set,
            alloc_set>>
table  == <<unique_locks, at, key>>
local  == <<pc, word, vl, word_todo, table, held>>
ghost  == <<attempts, overlap, seen, commits>>
vars   == <<shared, memory, txn, local, ghost>>

SegOf(a) == IF a \in Words THEN FirstSeg ELSE a

(***************************************************************************)
(* Addresses a client may pass: the first segment, what its transaction    *)
(* allocated, and what another transaction may have made reachable by      *)
(* writing a pointer: its own allocations, from the moment it writes back. *)
(***************************************************************************)
Allocated(t) == alloc_set[t] \cup lost[t]

Published ==
    segments \cup leaked \cup
        UNION {Allocated(u) : u \in {v \in Threads : pc[v] \in {"commit", "concat"}}}

Accessible(t) == {a \in Addr : SegOf(a) \in Published \cup Allocated(t)}

-----------------------------------------------------------------------------
(* Creation *)

\* tm_create on its success path.  The result of ll_append is not looked at:
\* when its node cannot be allocated the first segment is in no list.
Init ==
    /\ global_version = 0
    /\ locks = [l \in LockIds |-> 0]
    /\ mem = [a \in Addr |-> 0]
    /\ segments \in {{FirstSeg}, {}}
    /\ list_lock = None
    /\ up = TRUE
    /\ live = {FirstSeg}
    /\ unlisted = {FirstSeg} \ segments
    /\ lost = [t \in Threads |-> {}]
    /\ leaked = unlisted
    /\ read_version = [t \in Threads |-> 0]
    /\ write_version = [t \in Threads |-> 0]
    /\ read_only = [t \in Threads |-> FALSE]
    /\ read_set = [t \in Threads |-> {}]
    /\ write_set = [t \in Threads |-> {}]
    /\ alloc_set = [t \in Threads |-> {}]
    /\ pc = [t \in Threads |-> "idle"]
    /\ word = [t \in Threads |-> None]
    /\ vl = [t \in Threads |-> 0]
    /\ unique_locks = [t \in Threads |-> <<>>]
    /\ at = [t \in Threads |-> 1]
    /\ key = [t \in Threads |-> None]
    /\ word_todo = [t \in Threads |-> {}]
    /\ held = [t \in Threads |-> {}]
    /\ attempts = [t \in Threads |-> 0]
    /\ overlap = [t \in Threads |-> FALSE]
    /\ seen = [t \in Threads |-> {}]
    /\ commits = {}

(* tm_destroy, called by the client when no transaction is left to run.    *)
tm_destroy ==
    /\ up
    /\ \A t \in Threads : pc[t] = "idle" /\ attempts[t] = MaxAttempts[t]
    /\ live' = live \ segments
    /\ segments' = {}
    /\ up' = FALSE
    /\ UNCHANGED <<global_version, locks, mem, list_lock, unlisted, lost, leaked,
                   txn, local, ghost>>

-----------------------------------------------------------------------------
(* The life of a transaction *)

(***************************************************************************)
(* tm_begin samples the clock.  The sets are empty: tx_destroy of the last *)
(* transaction left them so and dic_new/ll_init make new ones.  When       *)
(* malloc fails tm_begin returns invalid_tx and nothing has changed.       *)
(***************************************************************************)
tm_begin(t, is_ro) ==
    /\ up
    /\ pc[t] = "idle"
    /\ attempts[t] < MaxAttempts[t]
    /\ read_version' = [read_version EXCEPT ![t] = global_version]
    /\ write_version' = [write_version EXCEPT ![t] = 0]
    /\ read_only' = [read_only EXCEPT ![t] = is_ro]
    /\ pc' = [pc EXCEPT ![t] = "run"]
    /\ attempts' = [attempts EXCEPT ![t] = @ + 1]
    /\ overlap' = [u \in Threads |->
                     IF u = t THEN \E v \in Threads \ {t} : pc[v] # "idle"
                              ELSE overlap[u] \/ pc[u] # "idle"]
    /\ UNCHANGED <<shared, memory, read_set, write_set, alloc_set, word, vl,
                   word_todo, table, held, seen, commits>>

\* Faulty variant: the segments are freed whether or not the transaction
\* committed.
FreeOnDestroy_Always(t, committed) == alloc_set[t]

\* tx_destroy frees the segments of a transaction that did not commit.
FreeOnDestroy(t, committed) == IF committed THEN {} ELSE alloc_set[t]

\* tx_destroy, the end of every transaction.
tx_destroy(t, committed) ==
    /\ live' = live \ FreeOnDestroy(t, committed)
    /\ leaked' = IF committed THEN leaked \cup lost[t] ELSE leaked
    /\ lost' = [lost EXCEPT ![t] = {}]
    /\ pc' = [pc EXCEPT ![t] = "idle"]
    /\ read_version' = [read_version EXCEPT ![t] = 0]
    /\ write_version' = [write_version EXCEPT ![t] = 0]
    /\ read_set' = [read_set EXCEPT ![t] = {}]
    /\ write_set' = [write_set EXCEPT ![t] = {}]
    /\ alloc_set' = [alloc_set EXCEPT ![t] = {}]
    /\ word' = [word EXCEPT ![t] = None]
    /\ unique_locks' = [unique_locks EXCEPT ![t] = <<>>]
    /\ at' = [at EXCEPT ![t] = 1]
    /\ key' = [key EXCEPT ![t] = None]
    /\ seen' = [seen EXCEPT ![t] = {}]
    /\ overlap' = [overlap EXCEPT ![t] = FALSE]
    /\ UNCHANGED <<unlisted, read_only, vl, word_todo, held, attempts>>

-----------------------------------------------------------------------------
(* Reading and writing *)

LockCheck(t, a) == lock_check(locks[LockOf[a]], read_version[t])

(***************************************************************************)
(* tm_read, one iteration: check the lock, note the word in the read set   *)
(* (read-write transactions only), check the lock again, copy the word.    *)
(* The copy comes after the second check.                                  *)
(***************************************************************************)
tm_read(t, a) ==
    /\ pc[t] = "run"
    /\ a \in Accessible(t)
    /\ UNCHANGED shared
    /\ \/ /\ LockCheck(t, a)
          /\ pc' = [pc EXCEPT ![t] = "reread"]
          /\ word' = [word EXCEPT ![t] = a]
          /\ read_set' = IF read_only[t] THEN read_set
                         ELSE [read_set EXCEPT ![t] = @ \cup {a}]
          /\ UNCHANGED <<memory, read_version, write_version, read_only,
                         write_set, alloc_set, vl, word_todo, table, held,
                         ghost>>
       \/ /\ ~ LockCheck(t, a)
          /\ tx_destroy(t, FALSE)
          /\ UNCHANGED commits

tm_read_recheck(t) ==
    /\ pc[t] = "reread"
    /\ UNCHANGED shared
    /\ \/ /\ LockCheck(t, word[t])
          /\ pc' = [pc EXCEPT ![t] = "copy"]
          /\ UNCHANGED <<memory, txn, word, vl, word_todo, table, held, ghost>>
       \/ /\ ~ LockCheck(t, word[t])
          /\ tx_destroy(t, FALSE)
          /\ UNCHANGED commits

\* A word this transaction wrote is copied from its own write set.
FromWriteSet(t, a) == ~ read_only[t] /\ a \in write_set[t]

tm_read_copy(t) ==
    /\ pc[t] = "copy"
    /\ seen' = IF FromWriteSet(t, word[t]) THEN seen
               ELSE [seen EXCEPT ![t] = @ \cup {<<word[t], mem[word[t]]>>}]
    /\ pc' = [pc EXCEPT ![t] = "run"]
    /\ word' = [word EXCEPT ![t] = None]
    /\ UNCHANGED <<shared, memory, txn, vl, word_todo, table, held, attempts,
                   overlap, commits>>

(***************************************************************************)
(* tm_write buffers the word in the write set.  Clients write only in      *)
(* read-write transactions (Exception::TransactionReadOnly).               *)
(***************************************************************************)
tm_write(t, a) ==
    /\ pc[t] = "run"
    /\ ~ read_only[t]
    /\ a \in Accessible(t)
    /\ write_set' = [write_set EXCEPT ![t] = @ \cup {a}]
    /\ UNCHANGED <<shared, memory, read_version, write_version, read_only,
                   read_set, alloc_set, local, ghost>>

\* tm_write of a size that is no multiple of the alignment.
tm_write_misaligned(t) ==
    /\ pc[t] = "run"
    /\ ~ read_only[t]
    /\ tx_destroy(t, FALSE)
    /\ UNCHANGED <<shared, commits>>

(***************************************************************************)
(* tm_alloc takes fresh zeroed memory eagerly and appends it to alloc_set. *)
(* When the size is refused or memory is short it returns nomem_alloc and  *)
(* nothing has changed.  The result of ll_append is not looked at: when    *)
(* the node cannot be allocated the client has the segment all the same,   *)
(* and it is in no list.                                                   *)
(***************************************************************************)
tm_alloc(t, s) ==
    /\ pc[t] = "run"
    /\ ~ read_only[t]
    /\ s \in Segs \ live
    /\ live' = live \cup {s}
    /\ mem' = [mem EXCEPT ![s] = 0]
    /\ \/ /\ alloc_set' = [alloc_set EXCEPT ![t] = @ \cup {s}]
          /\ UNCHANGED <<unlisted, lost>>
       \/ /\ unlisted' = unlisted \cup {s}
          /\ lost' = [lost EXCEPT ![t] = @ \cup {s}]
          /\ UNCHANGED alloc_set
    /\ UNCHANGED <<global_version, locks, segments, list_lock, up, leaked,
                   read_version, write_version, read_only, read_set, write_set,
                   local, ghost>>

\* tm_free accepts and does nothing: memory is reclaimed by tm_destroy.
tm_free(t, s) ==
    /\ pc[t] = "run"
    /\ ~ read_only[t]
    /\ s \in Segs \cap Accessible(t)
    /\ UNCHANGED vars

-----------------------------------------------------------------------------
(* tm_end *)

\* A read-only transaction commits without looking at shared memory.
tm_end_read_only(t) ==
    /\ pc[t] = "run"
    /\ read_only[t]
    /\ commits' = commits \cup
         {[at |-> read_version[t], ro |-> TRUE,
           reads |-> seen[t], writes |-> {}]}
    /\ tx_destroy(t, TRUE)
    /\ UNCHANGED shared

\* The support structure cannot be allocated.
tm_end_nomem(t) ==
    /\ pc[t] = "run"
    /\ ~ read_only[t]
    /\ tx_destroy(t, FALSE)
    /\ UNCHANGED <<shared, commits>>

\* unique_lock_create over the write set: each lock once.
UniqueLocks(t) == {LockOf[a] : a \in write_set[t]}

(***************************************************************************)
(* The dictionary unique_locks of tm_end, as the sequence of its keys in   *)
(* the order of the table, which the hash of the keys decides: any order.  *)
(* Nothing is added to it afterwards, so each pass of dic_forEach visits   *)
(* the keys in that order.                                                 *)
(***************************************************************************)
tm_end(t) ==
    /\ pc[t] = "run"
    /\ ~ read_only[t]
    /\ \E order \in SetToSeqs(UniqueLocks(t)) :
         unique_locks' = [unique_locks EXCEPT ![t] = order]
    /\ at' = [at EXCEPT ![t] = 1]
    /\ key' = [key EXCEPT ![t] = None]
    /\ pc' = [pc EXCEPT ![t] = "lock"]
    /\ UNCHANGED <<shared, memory, txn, word, vl, word_todo, held, ghost>>

\* Faulty variant: the roll-back goes through the table from its end.
LockAt_Backwards(t) ==
    unique_locks[t][IF pc[t] = "rollback" THEN Len(unique_locks[t]) + 1 - at[t]
                                          ELSE at[t]]

\* The key dic_forEach calls its function with.
LockAt(t) == unique_locks[t][at[t]]

PassOver(t) == at[t] > Len(unique_locks[t])

\* lock_unique_lock_set notes the lock that was refused and returns 0:
\* dic_forEach stops, and tm_end begins the roll-back.
refused(t) ==
    /\ pc' = [pc EXCEPT ![t] = "rollback"]
    /\ at' = [at EXCEPT ![t] = 1]
    /\ key' = [key EXCEPT ![t] = LockAt(t)]

\* lock_unique_lock_set calls lock_try_acquire: a load, then, if the lock was
\* free, a compare-exchange.
lock_unique_lock_set(t) ==
    /\ pc[t] = "lock"
    /\ ~ PassOver(t)
    /\ \/ /\ TryLoadOk(locks[LockAt(t)])
          /\ vl' = [vl EXCEPT ![t] = locks[LockAt(t)]]
          /\ pc' = [pc EXCEPT ![t] = "cas"]
          /\ UNCHANGED <<at, key>>
       \/ /\ ~ TryLoadOk(locks[LockAt(t)])
          /\ refused(t)
          /\ UNCHANGED vl
    /\ UNCHANGED <<shared, memory, txn, word, unique_locks, word_todo, held, ghost>>

lock_try_acquire(t) ==
    /\ pc[t] = "cas"
    /\ \/ /\ CasOk(locks[LockAt(t)], vl[t])
          /\ locks' = [locks EXCEPT ![LockAt(t)] = SetLockBit(vl[t])]
          /\ held' = [held EXCEPT ![t] = @ \cup {LockAt(t)}]
          /\ at' = [at EXCEPT ![t] = @ + 1]
          /\ pc' = [pc EXCEPT ![t] = "lock"]
          /\ UNCHANGED key
       \/ /\ ~ CasOk(locks[LockAt(t)], vl[t])
          /\ refused(t)
          /\ UNCHANGED <<locks, held>>
    /\ vl' = [vl EXCEPT ![t] = 0]
    /\ UNCHANGED <<global_version, mem, segments, list_lock, up, memory, txn,
                   word, unique_locks, word_todo, ghost>>

\* Faulty variant: the shortcut is never taken.
ToValidate_All(t, wv) == read_set[t]

\* Faulty variant: the shortcut is taken after one other commit as well.
ToValidate_OffByOne(t, wv) == IF wv > read_version[t] + 4 THEN read_set[t] ELSE {}

\* The read set needs no validation when nobody took a write version since
\* this transaction began.
ToValidate(t, wv) == IF wv # read_version[t] + 2 THEN read_set[t] ELSE {}

\* Faulty variant: the words are written back before the read set is validated.
tm_end_fetch_add_WriteFirst(t) ==
    /\ pc[t] = "lock"
    /\ PassOver(t)
    /\ global_version' = global_version + 2
    /\ write_version' = [write_version EXCEPT ![t] = global_version + 2]
    /\ word_todo' = [word_todo EXCEPT ![t] = ToValidate(t, global_version + 2)]
    /\ mem' = [a \in Addr |-> IF a \in write_set[t] THEN global_version + 2
                                                     ELSE mem[a]]
    /\ pc' = [pc EXCEPT ![t] = "validate"]
    /\ UNCHANGED <<locks, segments, list_lock, up, memory, read_version,
                   read_only, read_set, write_set, alloc_set, word, vl, table,
                   held, ghost>>

\* All locks are held: take a write version.
tm_end_fetch_add(t) ==
    /\ pc[t] = "lock"
    /\ PassOver(t)
    /\ global_version' = global_version + 2
    /\ write_version' = [write_version EXCEPT ![t] = global_version + 2]
    /\ word_todo' = [word_todo EXCEPT ![t] = ToValidate(t, global_version + 2)]
    /\ pc' = [pc EXCEPT ![t] = "validate"]
    /\ UNCHANGED <<locks, mem, segments, list_lock, up, memory, read_version,
                   read_only, read_set, write_set, alloc_set, word, vl, table,
                   held, ghost>>

\* A word of the write set is locked by this very transaction.
ReadSetOk(t, a) ==
    IF a \in write_set[t]
    THEN lock_check_version(locks[LockOf[a]], read_version[t])
    ELSE LockCheck(t, a)

\* The roll-back after a failed validation has no stopping key.
validate_reading_set(t, a) ==
    /\ pc[t] = "validate"
    /\ a \in word_todo[t]
    /\ \/ /\ ReadSetOk(t, a)
          /\ word_todo' = [word_todo EXCEPT ![t] = @ \ {a}]
          /\ UNCHANGED <<pc, at, key>>
       \/ /\ ~ ReadSetOk(t, a)
          /\ word_todo' = [word_todo EXCEPT ![t] = {}]
          /\ at' = [at EXCEPT ![t] = 1]
          /\ key' = [key EXCEPT ![t] = None]
          /\ pc' = [pc EXCEPT ![t] = "rollback"]
    /\ UNCHANGED <<shared, memory, txn, word, vl, unique_locks, held, ghost>>

\* The decision to commit; from here the transaction cannot fail.
tm_end_validated(t) ==
    /\ pc[t] = "validate"
    /\ word_todo[t] = {}
    /\ word_todo' = [word_todo EXCEPT ![t] = write_set[t]]
    /\ at' = [at EXCEPT ![t] = 1]
    /\ pc' = [pc EXCEPT ![t] = "commit"]
    /\ commits' = commits \cup
         {[at |-> write_version[t], ro |-> FALSE,
           reads |-> seen[t], writes |-> write_set[t]]}
    /\ UNCHANGED <<shared, memory, txn, word, vl, unique_locks, key, held,
                   attempts, overlap, seen>>

write_writing_set(t, a) ==
    /\ pc[t] = "commit"
    /\ a \in word_todo[t]
    /\ mem' = [mem EXCEPT ![a] = write_version[t]]
    /\ word_todo' = [word_todo EXCEPT ![t] = @ \ {a}]
    /\ UNCHANGED <<global_version, locks, segments, list_lock, up, memory, txn,
                   pc, word, vl, table, held, ghost>>

\* Faulty variant: locks are released while words are still to be written.
WriteBackDone_Early(t) == TRUE

\* The pass over the write set is over.
WriteBackDone(t) == word_todo[t] = {}

update_unique_lock_set(t) ==
    /\ pc[t] = "commit"
    /\ WriteBackDone(t)
    /\ ~ PassOver(t)
    /\ locks' = [locks EXCEPT ![LockAt(t)] =
                   lock_update_and_release(@, write_version[t])]
    /\ held' = [held EXCEPT ![t] = @ \ {LockAt(t)}]
    /\ at' = [at EXCEPT ![t] = @ + 1]
    /\ UNCHANGED <<global_version, mem, segments, list_lock, up, memory, txn, pc,
                   word, vl, unique_locks, key, word_todo, ghost>>

(***************************************************************************)
(* ll_concat_safe waits for the lock of the region's list: lock_acquire    *)
(* spins until its exchange succeeds, and nothing says who comes first.    *)
(* A committer that waits cannot step while another one has the lock.      *)
(***************************************************************************)
lock_acquire(t) ==
    /\ pc[t] = "commit"
    /\ word_todo[t] = {}
    /\ PassOver(t)
    /\ list_lock = None
    /\ list_lock' = t
    /\ pc' = [pc EXCEPT ![t] = "concat"]
    /\ UNCHANGED <<global_version, locks, mem, segments, up, memory, txn, word,
                   vl, table, word_todo, held, ghost>>

\* Faulty variant: the region's list is replaced, not extended.
ll_concat_safe_Lost(t) == alloc_set[t]

\* ll_concat_safe(segments, alloc_set) under the lock of the list; module
\* SegmentList has its accesses one by one.
ll_concat_safe(t) == segments \cup alloc_set[t]

\* Faulty variant: the early return for an empty alloc_set keeps the lock.
ListLockAfter_Forgotten(t) == IF alloc_set[t] = {} THEN list_lock ELSE None

\* Either return of ll_concat_safe releases the lock.
ListLockAfter(t) == None

tm_end_committed(t) ==
    /\ pc[t] = "concat"
    /\ segments' = ll_concat_safe(t)
    /\ list_lock' = ListLockAfter(t)
    /\ tx_destroy(t, TRUE)
    /\ UNCHANGED <<global_version, locks, mem, up, commits>>

\* Faulty variant: the stopping key is not looked at.
ToRelease_All(t) == ~ PassOver(t)

\* unlock_unique_lock_set_until returns 0 at the lock that was refused.
ToRelease(t) == ~ PassOver(t) /\ LockAt(t) # key[t]

unlock_unique_lock_set_until(t) ==
    /\ pc[t] = "rollback"
    /\ ToRelease(t)
    /\ locks' = [locks EXCEPT ![LockAt(t)] = lock_release(@)]
    /\ held' = [held EXCEPT ![t] = @ \ {LockAt(t)}]
    /\ at' = [at EXCEPT ![t] = @ + 1]
    /\ UNCHANGED <<global_version, mem, segments, list_lock, up, memory, txn, pc,
                   word, vl, unique_locks, key, word_todo, ghost>>

tm_end_failed(t) ==
    /\ pc[t] = "rollback"
    /\ ~ ToRelease(t)
    /\ tx_destroy(t, FALSE)
    /\ UNCHANGED <<shared, commits>>

-----------------------------------------------------------------------------
(* The specification *)

\* The calls a client makes.
Call(t) ==
    \/ \E is_ro \in Kinds : tm_begin(t, is_ro)
    \/ \E a \in Addr : tm_read(t, a) \/ tm_write(t, a)
    \/ \E s \in Segs : tm_alloc(t, s) \/ tm_free(t, s)
    \/ tm_write_misaligned(t)
    \/ tm_end_read_only(t)
    \/ tm_end_nomem(t)
    \/ tm_end(t)

\* The steps inside a call, which need nothing from the client.
Step(t) ==
    \/ tm_read_recheck(t)
    \/ tm_read_copy(t)
    \/ lock_unique_lock_set(t)
    \/ lock_try_acquire(t)
    \/ tm_end_fetch_add(t)
    \/ \E a \in Addr : validate_reading_set(t, a)
    \/ tm_end_validated(t)
    \/ \E a \in Addr : write_writing_set(t, a)
    \/ update_unique_lock_set(t)
    \/ lock_acquire(t)
    \/ tm_end_committed(t)
    \/ unlock_unique_lock_set_until(t)
    \/ tm_end_failed(t)

\* After tm_destroy nothing is left to do.
Done == ~ up /\ UNCHANGED vars

Next ==
    \/ \E t \in Threads : Call(t) \/ Step(t)
    \/ tm_destroy
    \/ Done

Spec == Init /\ [][Next]_vars

\* A thread inside a call is runnable, so the scheduler runs it eventually.
\* Of a thread that spins in lock_acquire this says that it gets the lock if
\* the lock is free from some moment on, and nothing if others keep coming.
Fairness == \A t \in Threads : WF_vars(Step(t))

FairSpec == Spec /\ Fairness
=============================================================================
