# Verification of a TL2 software transactional memory

The repository is a course project: a software transactional memory (STM) in
`415640/`, a lock-based reference in `reference/`, the grader that measures and
checks both (`grading/`), and small synchronisation examples
(`sync-examples/`). This directory holds TLA+ models of that code, the TLC
configurations that check them and TLAPS proofs about them.

## 1. Inventory

### 1.1 The transactional memory: `415640/tm.c`, `415640/utils.c`

State shared by all threads (`include/shared_t.h`): `global_version`, a clock
advanced by 2; `locks`, a fixed array of versioned locks; `segments`, the list
of the region's segments; and the words of these segments. State of a
transaction (`include/tx_t.h`), used by one thread: `read_version`,
`write_version`, `read_only`, `read_set`, `write_set` (word -> buffer) and
`alloc_set`.

| Operation | What it does |
|---|---|
| `tm_create`, `tm_destroy` | make a region with one zeroed segment; free everything in the list |
| `tm_begin` | sample the clock, empty sets |
| `tm_read` | per word: check its lock, add it to the read set, look it up in the write set, check the lock again, copy it; abort when a check fails |
| `tm_write` | buffer each word in the write set |
| `tm_alloc`, `tm_free` | allocate at once and append the segment to `alloc_set`, whether or not there is memory for the list node; free does nothing |
| `tm_end` | read-only: commit. Otherwise lock the write set with try-locks (roll back on refusal), advance the clock, validate the read set unless nobody advanced the clock in between, write back, release the locks with the new version, append the allocations to the region's list, for whose spin lock every committer waits |

Hard: every step of `tm_read` and `tm_end` interleaves with the same steps of
other threads; locks are shared by unrelated words (hashing); a commit can fail
at two places and must undo exactly what it did, knowing only the lock that was
refused and that a table is visited in the same order twice; each commit passes
through one unfair spin lock.
Correct when: locks are exclusive and given back; committed transactions are
serializable; nothing half-committed is read; memory is not used after free, and
not lost when its list node could be allocated; every call returns.

### 1.2 Versioned locks: `415640/version_types.c`

One atomic `int` per lock: bit 0 is the lock bit, the rest the version.
`lock_try_acquire` (load, then compare-exchange), `lock_acquire` (spin),
`lock_release` (subtract 1), `lock_check`, `lock_check_version`,
`lock_update_and_release` (store). Correct when a version never goes back and
the bit is owned by one thread. Hard: the load and the exchange are two steps;
the `int` wraps after 2^30 commits.

### 1.3 Segment list: `415640/ll.c`

Singly linked list with head, tail, size and a spin lock; append, safe append,
safe concatenation (O(1), moves the nodes), removal, two destructors. Correct
when the list holds exactly the appended segments, the tail is the last node,
and concurrent concatenations lose nothing. Hard: concurrent committers, a
concatenation that leaves the source list empty but alive, and an append whose
`malloc` fails, which its caller in `tm.c` does not notice.

### 1.4 Pointer dictionary: `415640/dict.c`

Chained hash table used for the read set, the write set and the set of unique
locks. `dic_add` leaves a cursor (`value`) at the entry, the table grows by 20
when an insertion meets an empty bucket above load 0.5, `dic_forEach` stops
when the callback returns 0. Correct when an entry is present once, survives a
resize, and two passes without insertion visit the same order (the roll-back
of `tm_end` relies on it).

### 1.5 Reference implementation: `reference/`

`tm.c` runs writers alone and readers together with one readers-writer lock
(`shared-lock.c`), and keeps allocated segments in a doubly linked list. It is
the oracle the grader compares with. Correct when it behaves as serial
execution and a free unlinks the right segment.

### 1.6 Grader: `grading/`

`common.hpp`: `Barrier` (reusable), `Latch`, `bounded_run` (time limit on a
thread), `Chrono`. `grading.cpp`: `Sync` hands phases (init, run, check) from
the master to the workers through one atomic status; `measure` drives them;
`main` loads each library, creates the bank's region, measures, looks for
shortcuts in the last library, destroys the region, unloads the library.
`workload.hpp`: the bank, with `long_tx` (read-only sum), `short_tx`
(transfer), `alloc_tx` (add or remove accounts). `transactional.hpp`: loading
of a library, creation and destruction of a region, and `transactional`, which
runs a closure in a `Transaction` again and again until it commits.
Correct when the barrier separates phases, no hand-over is lost, the sum of
the accounts is constant, a call of `transactional` commits once, and the exit
code tells what happened. Hard: phases of fast and slow threads overlap, the
time limit races with a late answer, exceptions leave running threads behind,
a retried transaction runs again with captured variables it already changed, a
destructor ends a transaction while an exception is in flight.

### 1.7 Synchronisation examples: `sync-examples/`, `playground/`

`counter1`..`counter4` (plain, mutex, atomic load and store, fetch-and-add),
`election1`..`election4` (plain, mutex, atomic, compare-and-swap),
`procon1`..`procon4` (producer and consumer: nothing, mutex with a busy loop,
atomics with memory orders, mutex with a condition variable), over `lock.c`.
`playground/` is a counter under a `Lock` whose methods are empty. Half of the
programs are wrong on purpose. Correct when the programs called correct count
exactly, elect one leader per round and hand over every item.

### 1.8 The rest

`test_tm.c` is a client of the library; `template/` holds stubs without
behaviour.

## 2. Modules

| Module | Contents |
|---|---|
| `VersionLock` | what one atomic access of `version_types.c` computes |
| `TL2` | the state machine of `tm.c` + `utils.c` |
| `TL2Properties` | type invariant, safety, action and liveness properties of `TL2` |
| `TL2_proofs` | theorems about `TL2`: types, locks, versions, a transaction alone, memory; committed updates are serializable, reads are of committed and recent values |
| `SegmentSeq` | abstract specification: lists as sequences, each call of `ll.c` atomic |
| `SegmentList` | `ll.c` one pointer access at a time, as `utils.c` and `tm.c` use it |
| `SegmentListProperties` | its properties and the refinement mapping to `SegmentSeq` |
| `SegmentList_proofs` | the spin lock protects the list; lists are intact, no node is lost, they implement `SegmentSeq` |
| `Dict` | `dict.c` as operators on a table of chains |
| `WriteSet` | the write set of one transaction, through `Dict`, with its buffers |
| `WriteSet_proofs` | the dictionary finds what was added, visits it once and stops growing; the write set is read and written back right |
| `SerialTM` | abstract specification: what `include/tm.h` promises of a memory that never aborts |
| `RefTM` | `reference/tm.c` with the readers-writer lock of `shared-lock.c` |
| `RefTM_proofs` | `RefTM` implements `SerialTM`; its list of segments is intact |
| `Barrier` | the spin barrier of `common.hpp` |
| `Barrier_proofs` | the barrier separates rounds; the check passes isolated libraries and finds lost decrements |
| `BankCheck` | `WorkloadBank::check`; extends `Barrier`, whose calls it makes |
| `GradingSync` | actions of `Sync` and `measure` of `grading.cpp`, `Latch` and `Chrono` of `common.hpp` |
| `BoundedRun` | actions of `bounded_run` of `common.hpp` |
| `Grader` | `main`, loading and regions; composes `GradingSync` and `BoundedRun` |
| `Grader_proofs` | no library is unloaded under a worker; phases do not overlap; failures reach the master; `bounded_run` and the exit code tell what happened |
| `Transactional` | `Transaction` and `transactional` of `transactional.hpp` |
| `Bank` | `init` and `run` of the bank workload as closures of `Transactional` |
| `Bank_proofs` | the wrapper commits once; money is conserved; the chain of segments is full |
| `ExampleLock` | `sync-examples/lock.c` |
| `Counter`, `Election`, `ProCon` | the example programs and the playground |
| `SyncExamples` | one of these programs, chosen in the initial state |
| `SyncExamples_proofs` | counters, elections and hand-overs are right, for any number of threads and rounds |
| `MC_*` | constants and symmetry sets for TLC, one module per model |

### How `TL2` corresponds to the code

*Granularity.* One step is one access to memory shared by threads: one load or
update of the clock or of a lock, one copy of a word. What a thread does to its
own `transaction_t` belongs to the neighbouring step. The C11 atomics used are
sequentially consistent, so interleaving is what they allow; the plain copies
of words race with each other (see 6).

| Code | Steps in `TL2` |
|---|---|
| `tm_read`, one word | `tm_read` (first check, read set), `tm_read_recheck`, `tm_read_copy` |
| `lock_try_acquire` from `lock_unique_lock_set` | `lock_unique_lock_set` (load), `lock_try_acquire` (exchange) |
| `tm_end` | `tm_end_read_only`, or `tm_end_nomem`, or `tm_end`, the lock loop, `tm_end_fetch_add`, `validate_reading_set` per word, `tm_end_validated` (decision), `write_writing_set` per word, `update_unique_lock_set` per lock, `lock_acquire` (of the region's list, in `ll_concat_safe`), `tm_end_committed` |
| roll-backs of `tm_end` | `unlock_unique_lock_set_until` per lock, `tm_end_failed` |
| `tm_begin`, `tm_write`, `tm_alloc`, `tm_free`, `tx_destroy`, `tm_destroy` | one step each (`tx_destroy` is part of the step that ends the transaction) |

*Data.* A word is abstracted to the write version of the transaction that wrote
its value, 0 for the zeroes of `memset`. Two reads returned the same committed
value exactly when the stamps are equal. Calls on several words repeat the loop
body, so they are sequences of one-word calls.
*Hash.* `LockOf` is any function from addresses to locks.
*Iteration.* `dic_forEach` visits a table in hash order; the model allows any
order. The order matters in the passes over the dictionary `unique_locks`: `tm_end`
fixes an order of its keys, `at` is the position of a pass in it, and `LockAt` the
key the callback is called with. The pass that takes the locks stops at the one
that is refused and notes it in `key` (`refused`); the roll-back is a second pass
from the start, which stops at that key (`ToRelease`). Which locks a thread
holds is not looked at: `held` is history.
*The region's list.* `ll_concat_safe` begins with `lock_acquire`, a step that is
possible only while `list_lock` is free: a committer waits there ("commit", all
locks released) as long as another one is in "concat". The accesses under the lock
are one step (`tm_end_committed`); `SegmentList` has them one by one.
*List nodes.* `ll_append` may fail in `tm_create` and in every `tm_alloc`, and the
client does not learn of it. The segments concerned are in `unlisted`, those of
a running transaction also in `lost`, those of committed ones in `leaked` (the client may
still pass pointers to them on).
*Client.* A client calls at any time anything the interface allows: addresses
of the first segment, of its own allocations, of those that were committed, and of
the allocations of a transaction that is writing back (it may have written a
pointer to them).
*History.* `held`, `overlap`, `seen`, `commits`, `unlisted` are read by
properties only; `attempts` also bounds the runs, `lost` and `leaked` also say
what a client can name.

### How the other modules correspond to the code

*`SegmentList`.* `pc[t]` is the place inside `ll_append_safe`, `ll_concat_safe`
or a destructor; `node` contents, `head`, `tail` and `size` are per list (the
region's list and one `alloc_set` per thread). A step is one access to the
shared list; the calls on a thread's own list are one step each. `malloc` of a
node may fail in both appends (`NoNode`): the segment its caller has obtained is then
`lost`, in no list. The mapping to
`SegmentSeq` reads a list by following pointers: an append takes effect when the
node is linked, a concatenation when the second list is linked to the end of the
first (from then on the second counts as empty, though its head still points
into the first).

*`Dict`, `WriteSet`.* A table is a function from buckets to sequences of
entries; `dic_new`, `dic_add` with `dic_resize`, `dic_find`, `dic_forEach`,
`dic_delete` are operators with the code's order of tests. The cursor (`dic->value`)
is the field `at` of the record: every insertion, reinsertion and successful
lookup moves it (`Pointing`, `Put`), and `tm_write` stores through it. `WriteSet` is the
sequence of `tm_write` calls of one transaction, its end by commit or abort,
and the buffers on the heap. Hashes are any function chosen in the initial
state.

*`RefTM`.* The whole of `tm_begin`, `tm_end`, `tm_read`, `tm_write` is one step
each: under the lock nobody else can see a part. `tm_alloc` and `tm_free` are
two steps, one per half of the pointers they change. The mapping to `SerialTM`
gives every running transaction the memory itself as its view.

*`Barrier`, `BankCheck`, `GradingSync`, `BoundedRun`.* One step is one access to
an atomic, one critical section, or one wake-up; a spin loop is a step that
finds the value it waits for, and a step without effect otherwise. `relaxed`
accesses are taken as sequentially consistent, which is an assumption of the
model: the hand-overs are ordered by the release stores and acquire loads of
`mode` and `status`, the counters are read-modify-writes of one atomic, and the
relaxed stores of `status` by the master follow the latch's mutex. In `BankCheck` a
transaction is one step, or two halves in the library without isolation; the
counter wraps at a smaller bound than `size_t`. In `GradingSync` a job is
"well", "with a message" or "with an exception". In `BoundedRun` the status of
`wait_for` is what the library computes: whether the clock passed the deadline
when the mutex is held again.

*`Grader`.* `stage` is the place in `main`. `GradingSync` and `BoundedRun` have no
specification of their own: `measure` and `bounded_run` are operators that
start a call, their actions are steps of `Grader`, and their results (`verdict`
or an exception; `result`) are what the next step of `main` looks at. The
destructors at the end of the block are the stages "destroy" and "unload". A
shortcut check is a function under `bounded_run` that returns, throws, never
ends, or terminates the program (`check_terminates`): when the destructor of one of
its own regions throws, or one of its transactions retries while an exception
unwinds the stack. A job of `measure` may do the latter (`job_terminates`). A call
of `bounded_run` may also find that no thread can be created (`spawn_fails`); in the
destructor of a region this terminates the program like an overrun does. What a
check reads and writes is left out. `blame` notes everything that
goes wrong, for the properties.

*`Transactional`, `Bank`.* A call of `transactional` is "attempt" (constructor and
closure), then "destructor", then "returned", "threw", or the next attempt. The
library under test is a correct one that may refuse any operation and any
`tm_end`: an attempt computes its writes from the memory in one step, and
`tm_end` commits them if nobody committed a change in between. The
chain of segments is a sequence of records with `count`, `parity`, `accounts`,
and `Bank` gives the closures: what they write and return, and what an attempt
leaves in the variables they captured (`short_tx` decreases `send_id` and
`recv_id` by the segments it walked through). The random draws are free choices.

*`Counter`, `Election`, `ProCon`.* One step is one access to a shared variable;
copying a `struct data` is two steps. An increment of a plain `int` is a load and
a store, which is what the Makefile of `sync-examples`, with no optimisation set,
makes of it. That of `playground` has `-O2`: there the compiler may merge the two
into one instruction, which is still a load and a store to other processors. In
`ProCon` the values are not enough: the variables `published` and `known` follow
happens-before, so that a relaxed load can be told from an acquire.

## 3. Properties and runs

| Run | Instance | Shows |
|---|---|---|
| `tl2_core` | 2 threads, 1 transaction each, both kinds, 2 words, 2 locks, fair steps | `TypeOK`; `LockOwnership`: a lock bit is set exactly while one thread holds it; `NoLockLeft`: every way out of `tm_end` returned the locks, the one of the list too; `NoDirtyRead`: no value of a transaction that has not decided to commit is copied; `CommittedWritesVisible`: a transaction sees all that committed before it began; `LockVersionsGrow`: no step takes a version back; `CallsReturn`: every call returns, with committers that want each other's locks, unless others go through the region's list for ever |
| `tl2_updates` | 1 + 2 read-write transactions, 2 words, 2 locks | `UpdatesSerializable`: each committed update read exactly what earlier write versions wrote, also when validation was skipped; `UnlockedIsCurrent`: a free lock's version and the words under it are those of the newest commit |
| `tl2_alloc` | 1 + 2 read-write transactions, no first-segment words, 2 segments with reuse of addresses, one lock for everything | `MemorySafe`: no access to freed memory, nothing freed in the region's list; `SegmentsReclaimed`: `tm_destroy` leaves the segments that have no list node, all of them and no other; `SoloCommits`: a transaction that ran alone is never refused and finds the list's lock free |
| `tl2_snapshot` | as `tl2_core` | violation of `ReadOnlySerializable`, see 5 |
| `list` | 2 threads, 3 nodes, 3 segments, 4 list calls each | `LockExclusive`: the spin lock has one owner and is given back on every return; `ListsIntact`: the tail is the last node, the size is right; `NodesAccounted`: every node is in one list or freed, every segment has a node, is about to, or was refused one, and `tm_destroy` leaves the last kind only; `ImplementsSequences`: refinement of `SegmentSeq` |
| `writeset` | 4 words, hashes 0, 1, 2, 3, 5, tables of 2 buckets that grow by 2, 5 writes | `ReadsOwnWrites`: a lookup finds the last value written, stored through the cursor; `VisitsOnce`: the iteration visits each word once, also after resizes; `AllOrNothing`: commit writes all words, abort none |
| `reftm` | 2 threads, 1 word, 3 segments, 2 values | `Exclusion`: handles agree with the lock; `ListIntact`: both directions of the segment list agree, and `tm_destroy` frees all of it; `ImplementsSerial`: refinement of `SerialTM` |
| `check` | 3 workers, 2 decrements each, barrier of 3 rounds, a library that is correct, not isolated, or returns anything | `Separates`: nobody leaves a round before all entered it; `NoFalseAlarm`: a correct library passes; `Detects`: a lost decrement is always reported; `AllReturn`: no error return leaves another worker in the barrier |
| `grader` | a reference and a library under test, 3 workers, 3 phases, 2 shortcut checks, fair threads | `PhasesSeparate`: a worker executes a job only in its phase; `FailureReported`: the master hears of every failure, and of no other; `ResultFaithful`: the result of a call of `bounded_run` is what the function did; `LibraryOutlivesWorkers`: while a worker is in the library neither it nor the region goes away; `ExitCodeHonest`: the exit code tells what happened in any library, phase or check, and the program is terminated exactly for the two reasons of `Fatal`; `Ends`: the program ends, whatever the library under test does |
| `grader_spurious` | as `grader`, 2 workers | violation of `AlwaysEnds`, see 5 |
| `bank` | 2 workers, 2 transactions each and the last long one, 2 accounts per segment, triggers 0 and 3, refusals, failed allocations, failed begins | `MoneyConserved`: no money appears or goes, and no worker says so; `ChainFull`: indices reach every account; `CommittedOnce`: each call commits once and each transaction is ended once |
| `examples` | 3 threads with 2 rounds; 4 items, 2 slots, 1 spurious wake-up; one of 13 programs | `CountsRight`, `OneLeader`, `HandedOver`: the programs called correct are, and `main` is right about the others; `Ordered`: what the consumer reads happened before; `Finishes`: no program hangs |

*Bounds.* `MaxAttempts` transactions per thread, `Kinds` the kinds of
transaction clients begin, and the sets. Two threads suffice for every pairwise
race; three transactions (one long, two that commit one after the other) are
needed for a read set that is stale in one word only and for the validation
shortcut to be wrong by one (its mutant needs them); two words are needed for
a snapshot to be mixed, for locking in opposite orders and for a roll-back of a
part. `tl2_updates` uses the symmetry of words with their locks, `tl2_alloc`
that of segments; `tl2_core` checks liveness and uses none.
In `tl2_updates` and `tl2_alloc` all transactions are read-write
(`Kinds = {FALSE}`), and the constraint `OneWrite` lets the transactions of the
second thread write at most one word: the first thread has the long
transaction, the second the two short ones that overtake it. In `tl2_alloc`
`OneRead` lets each transaction read one word, and `OneFailure` at most one list node
be refused, for the first segment or for any other; without allocations the
first segment is in the list or not for good (`FirstListed`).

Lists: three nodes are needed for a concatenation of two to a list of one, with
a middle node to lose. `WriteSet` uses tables of 2 buckets that grow by 2 in
place of 1024 and 20, so that five writes resize twice. `RefTM` needs three
segments for a free in the middle of the list. The barrier needs two rounds for
a fast thread to meet a slow one of the round before, and a third to enter
after that; the check has three. The check needs two decrements per worker for
an update to be lost and the loop to go on; `nbtxperwrk` is larger in the code.
Whether the library is correct (`fault`) is chosen in the initial state.
`Grader` has three phases, because the third is the first one after a success
that followed a success (the code has more repetitions of the same kind), three
workers, so that "the last" and "the first" leave one between, and two
libraries, of which only the second has a time limit. Two shortcut checks are
enough for the overrun of one to meet the next. In `Bank` two workers with two
transactions each open an account in a new segment, put money on it and close
it, while the other worker's attempts are overtaken. The examples have two
rounds, to meet a thread of the round before, and four items for two slots, so
that every slot is used twice.

*Fairness.* `FairSpec` asks weak fairness of `Step(t)`, the steps inside a call,
for each thread: a runnable thread is scheduled eventually. Calls themselves
are the client's choice and are not fair. The versioned locks are try-locks, so
nobody waits for them. The lock of the region's list is a spin lock without any
order among those who wait: a step of a committer there (`lock_acquire`) is
disabled while another one has the lock, and weak fairness promises it the lock
only if the lock is free from some moment on. Strong fairness is nothing the
code gives: the exchange of a spinning thread may fail each time. Therefore
`CallsReturn` is conditional: a call of t returns if from some moment on no other
thread is inside `ll_concat_safe`. That every *transaction* eventually commits is
not claimed: two committers may refuse each other forever.

The spin locks and spin loops of `SegmentList`, `Barrier` and `GradingSync`
need that a thread that can make its next step does so eventually (weak
fairness per thread); a spinning thread makes no progress by spinning, so the
loops contribute nothing to fairness. `SegmentList`'s lock is not fair to a
waiting thread, and no property asks it to be. `Grader` assumes that threads
run and time passes, so that a time limit is reached; it does not assume that a
function under `bounded_run` or a job of a library under test ends. The jobs of
the reference are trusted to end: it is measured without a limit. The mutex of
the examples is not fair: a thread that waits for it may be overtaken
forever, and therefore `Finishes` excepts `procon2`, which releases and takes
it in a busy loop.

*Deadlock* is checked in every run: `Done`, `Finished` and the like stutter only
after the end, a spinning thread stutters, too, and `Grader` stutters where
`bounded_run` hangs after a spurious wake-up (`Hung`), which is then a matter of
liveness.

Each property of a passing run has a mutant in `PROJECT.json`: a definition
replaced by a faulty variant written next to it in the module (`..._Always`,
`..._Lost`, ...), which the run refutes.

## 4. Proofs

### `TL2_proofs`

For any threads, words, segments and locks, and any `LockOf`
(`ConstantsOk` is the only assumption):

| Theorem | States |
|---|---|
| `TypeCorrect` | `Spec => []TypeOK` |
| `LocksOwned` | `Spec => []LockOwnership` |
| `LocksReturned` | `Spec => []NoLockLeft` |
| `VersionsGrow` | `Spec => LockVersionsGrow` |
| `AloneCommits` | `Spec => []SoloCommits` |
| `MemoryIsSafe` | `Spec => []MemorySafe` |
| `AllReclaimed` | `Spec => []SegmentsReclaimed` |

The first four rest on `Invariance`, the inductive invariant `IInv`, of three
parts: `TypeOK`; `LockInv`, which is `LockOwnership`, `NoLockLeft`, `Parity`
(the clock and write versions are even, and a compare-exchange expects an even
value: otherwise a commit would leave a lock bit set or an acquisition would
"take" a locked lock) and `VersionBound` (no lock is ahead of the clock, and a
committer that has its write version holds only older locks: this is why a
release with the write version moves forward); and `PassInv`, about the passes
over the table of unique locks: each lock is in it once, and the position of the
pass tells which of them are held (`HeldAt`): those before it while locks are
taken, those from it on while they are given back, up to the refused one in a
roll-back that has one (`PassOf`). This is what makes the two passes fit
together: a roll-back that stops at the refused key has released just what was
taken (`OrderFacts`, `PassFacts`), so no lock is left (`NoLockLeft`) and none is
released that is not held. Even `TypeOK` needs that: a lock stays a natural
number because a roll-back subtracts 1 only from locks that are held, hence odd.
The proof has one step per action; `DestroyLocks`, `MoveLocks` and `PassMove` cover
the actions that end a transaction or only move a program counter.

`AloneCommits` needs `SoloInv` besides: while no other thread is in the library,
the read version of a transaction is the clock, so that no lock is ahead of it
(`VersionBound`), and no lock is held but its own (`LockOwnership`), so that every
check and every compare-exchange succeeds, and the validation is skipped because
the write version is the read version + 2. The list's lock is free because only a
thread inside `ll_concat_safe` has it (`ListAlone`).

`MemoryIsSafe` and `AllReclaimed`: the invariant `MemoryInv` says who owns a
segment: every live one is in the region's list, or allocated by exactly one
running transaction (`SegmentsOwned`), or has no list node, and then it is in no
list, live for ever, and `lost` or `leaked` (`UnlistedOwned`); between transactions the sets of a
thread are empty (`IdleEmpty`) and after `tm_destroy` everything is
(`DownIsIdle`); a transaction names only addresses of the region or of its own
segments (`NamesAccessible`, which is what a client without pointers to freed
memory does); and what a committed transaction wrote is in the region, or will be
when its write-back is over (`WritesPublished`).

The main result, also for any threads, words, segments and locks and any `LockOf`, is
isolation:

| Theorem | States |
|---|---|
| `Serializable` | `Spec => []UpdatesSerializable` |
| `ReadsCommitted` | `Spec => []NoDirtyRead` |
| `ReadsRecent` | `Spec => []CommittedWritesVisible` |
| `FreeLocksTell` | `Spec => []UnlockedIsCurrent` |

None of the four is inductive: each speaks of the history, while the algorithm
decides by locks and versions. `IsolationInv` relates the two. `StoreInv` does it
for the store: a word holds its newest committed value or a committer is about
to write it back (`MemCurrent`), a lock has the version of its newest commit or
that committer still holds it (`LockCurrent`), and a lock's version is in one of
its words (`LockTruthful`). `ReadsOf` does it for what a transaction has read: the
newest commit up to its read version, and every committer that holds the
word's lock has a later write version (`NoOlderHolder`; a committer has all its
locks before it takes its write version, so one that locks the word after the
reader has checked it is later). `ValidatedOf` does it for the validation: a word
that has passed has not been written between read version and write version,
and whoever holds its lock now will commit later (`ReadStands`). At the decision to
commit `ReadStands` holds of all reads, which makes the new commit
serializable, and becomes `NoLateWriter`, which keeps it so.
There is one lemma per action. Most actions leave the store alone, and one lemma
(`AwayKeepsStore`) shows once that other threads do not notice them.
With the version check of `lock_check` or the bound of `ToValidate` weakened, the
proof fails in the lemma of that action.

### `SegmentList_proofs`

For any threads, nodes and segments (`ListConstantsOk`: the nodes are finite):

| Theorem | States |
|---|---|
| `ListLockExclusive` | `Spec => []LockExclusive` |
| `ListsStayIntact` | `Spec => []ListsIntact` |
| `NodesStayAccounted` | `Spec => []NodesAccounted` |
| `ListsAreSequences` | `Spec => ImplementsSequences` |

`LInv` is about the lock: it adds the types of the lock and of the program
counters, which the subtraction in `lock_release` needs.

The other three are about following pointers. `Chain(g, f, s)` says that the
sequence s of distinct nodes starts at g and is linked by f; a chain is the only
one from its head (`PathOfChain`), so that `NodeSeq` of a list is the chain
whenever there is one. The lemmas before `DInv` say what one assignment to a
pointer does to chains: one is linked behind another (`Linking`; an append links a
chain of one node), a node is cut out (`Unlinking`), or nothing as it is not theirs
(`ChainFrame`). The invariant `DInv` says that every list is a chain (`Chained`),
that tail and size of a private list are those of its chain (`Private`), and,
for the region's list, that they are too, or else one thread is between two
of its assignments, and which is missing (`SharedTail`, `SharedSize`): this
is where `LInv` is needed, as there is only one such thread. `Apart` and `Owned`
say which lists may have nodes in common (a list and the region's, while it is
moved) and that an allocated node is in a list or about to be linked; `Segments`
that nodes do not share segments, and that each allocated segment has a node, is
the argument of a call under way or is `lost`, one of the three; `Settled` what is
left behind. `ListsIntact`
and `NodesAccounted` follow. For the refinement every step is mapped: linking is
the abstract append or concatenation, removing and destroying are theirs, the
rest are stutters.

### `RefTM_proofs`

For any threads, words, segments and values (`ConstantsOk`):

| Theorem | States |
|---|---|
| `TypeCorrect` | `Spec => []TypeOK` |
| `WriterExcludes` | `Spec => []Exclusion` |
| `ReferenceIsSerial` | `Spec => ImplementsSerial` |
| `ReferenceListIntact` | `Spec => []ListIntact` |

The invariant adds to `TypeOK` and `Exclusion` that only a read-write transaction
is inside `tm_alloc` or `tm_free`, with a live segment (`CallsOfWriters`), and
that `committed` is the memory whenever no writer runs (`CommittedInPlace`). With it every step maps: `tm_begin`, `tm_end`, `tm_read`, `tm_write` to
their abstract counterparts; `tm_alloc_link` to the abstract allocation and
`tm_free` to the abstract free (the segment leaves the client's view there);
`tm_alloc`, `tm_free_unlink` and `tm_destroy` to stutters.

`ReferenceListIntact` has the invariant `ListInv`: some
sequence of segments is `Listed`. Its segments are distinct and those clients may
name, `next` leads from `allocs` through it in order (`Forward`), and `prev` leads
back (`Backward`) unless somebody is inside `tm_free`. Then the segment that is
taken out already has no predecessor pointing to it, but its successor does,
and it knows both its neighbours (`Leaving`): what the second half of `tm_free` needs to
repair the list. A call of `tm_alloc` has its new segment pointing to `allocs`. That
only a writer is inside a call (`Exclusion`, `CallsOfWriters`) is what makes "the"
call unique. From a listed sequence the set that `ListIntact` walks through is
its set of elements (by induction over its length).

### `Barrier_proofs`

`BarrierSeparates`: for any finite set of threads and any number of rounds no
thread leaves a round before all have entered it; `TypeCorrect`: the counter
stays a natural number. The invariant says that `step` is the number of threads
inside, and that the threads are in one of two situations: `Entering(r)`, the
first door is shut, all have entered r or r + 1 times, and a thread about to
open it is the last; or `Leaving(r)`, the door is open and every thread is in
its call number r + 1. Cardinalities come from
`FiniteSetTheorems`.

The invariant is kept by `BarrierStep`, a step of the barrier alone, so that it
also holds in `BankCheck`, which makes the calls: `CheckSeparated`
(`CheckSpec => []Separates`). On top of it `CheckInv` says where the check is:

* `LinesInStep`: a worker's line tells how many calls of `sync` it has made, on
  the way of the error returns too, so the barrier orders the lines of
  different workers.
* `LoopsCounted`: nobody decrements before worker 0 has written the counter, and
  worker 0 looks at it last when all have done all their decrements.
* `Isolated`: in an isolated library the counter is `Left`, the initial value
  less the number of decrements done (`Dones`), and what a worker has fetched is
  not below it while it decreases. `CorrectPasses`: no worker returns a
  message (`NoFalseAlarm`).
* `Torn`: in a library that separates the read from the write of a decrement the
  counter, and every value read and not written yet, is at least `Left`, and
  above it once a decrement was lost. This is what makes a lost decrement stay
  visible: a later one cannot hide it. `LostIsDetected`: some worker returns
  a message (`Detects`).

### `Bank_proofs`

`WrapperCommitsOnce`, `Spec => []CommittedOnce`: for any number of workers,
transactions and accounts, whatever the closures compute and in whatever order
operations are refused, allocations and begins fail and commits overtake
attempts, a call that returns has committed exactly once and every transaction
of the library is ended once. The invariant `TxInv` adds what the states of a
call have in common: only a call in its destructor has a handle, a flag or a
retry in flight. `BankSteps` shows that every step of the bank is, for the
wrapper, one of its own steps or a stutter, and `TxStepSafe` that these keep the
invariant.

`MoneyStaysConserved` (`Spec => []MoneyConserved`) and `ChainStaysFull`
(`Spec => []ChainFull`) are about the closures, with the numbers: sums over chains
of any length. `SumTo` is a recursive function; the lemmas from `SumsExist` to
`SumGrows` show that it is defined, adds up step by step and changes by what one
term changes. A chain is `Good` if all segments but the last are full, the last has
an account, nobody is overdrawn and the sum is `init_balance` per account. The
closures keep it: an account opened in the last segment or in a new one
(`OpenedIsGood`), closed (`ClosedIsGood`) or closed with its segment, whose
parity goes to the one before (`FreedIsGood`), and a transfer, also from an account to itself or
with indices left over from a refused attempt (`TransferIsGood`, which needs that
`Found` finds the segment of an index, `FoundAt`). The invariant `BankInv` ties this
to the wrapper: the memory is `Fresh` until the first `init` commits and a good
chain from then on (`Stages`), an attempt that may still commit has a good chain
to commit (`Attempts`), also one that ran out of memory, and whatever a read-only
transaction returns or is about to return is the right answer (`Verdicts`). Its
steps are grouped by what they do for the wrapper, so that each closure only
has to show that what it writes is good (`AttemptKeeps`).

### `Grader_proofs`

`CallsFaithful` (`Spec => []ResultFaithful`): what a call of `bounded_run`
returns, rethrows or reports as an overrun is what its function did, in every
grader, and that nothing has run if no thread could be created. The invariant `CallInv` adds the types, who has the mutex
(`MutexOwned`), that the caller has it until it sleeps, so that the runner
cannot have notified before (`RunnerBehind`), and how the outcome of the
function is kept (`OutcomeKept`). `GraderCalls` shows that a step of the grader
is a step of the call or leaves it alone, so that the steps of the
call are all there is to check (`CallStepSafe`).

`WorkersOutlived` (`Spec => []LibraryOutlivesWorkers`): no worker executes code of
a library that is unloaded or of a region that is destroyed. The invariant
`LifeInv` says that outside the places "measure" and "exit" of main every worker
is unborn or gone, since `measure` returns only after it has joined all of them and
an exception takes main to "exit", and that library and region exist during
`measure`.

`PhasesNeverOverlap` and `FailuresReported` (`PhasesSeparate` and
`FailureReported` of `GradingSync`). `PhaseInv` names the situations `measure`
can be in: workers are created (`Creating`), all wait (`Between`), they enter a
phase and `nbready` counts those who spin (`Entering`), the last one to enter
resets the counter (`Resetting`), jobs are done and `nbready` counts those who
finished (`Working`), the last one to finish settles the status (`Settling`),
the master reads it (`Ended`) or joins the workers (`Quitting`). In each the
status, the history of failures and the place of every worker are tied
together. The counter is what makes a situation end: it is `nbworkers` only when
the set it counts is the set of all workers (`OneMore`).

`ExitCodeTrue` (`ExitCodeHonest`). `ExitInv` says, between any two steps, how
what has gone wrong (`blame`) can be known: from the exit code, from the call of
`bounded_run`, from a reported failure or from an exception of `measure`
(`Blamed`), and that nothing of this is pending whenever main starts something
that would forget it (`PendingKnown`). It needs the three invariants before:
that a call tells what its function did, that workers move in `measure` only,
and that its verdict is "ok" exactly if nobody failed. A termination is not an
overrun alone: `Fatal` has the two reasons there are, an exception of
`bounded_run` (an overrun or no thread) in the destructor of a region, also one of
a shortcut check, and a transaction that retries while the stack is unwound. The
last clause holds in both directions: nothing fatal is survived, and
nothing else terminates.

All these theorems are for any number of workers, phases, libraries and
shortcut checks.

### `SyncExamples_proofs`

For any threads, rounds and items and any size of the buffer
(`ExampleConstantsOk`; the threads are finite and there is one at least):

| Theorem | States |
|---|---|
| `CountersRight` | `Spec => []CountsRight` |
| `LeadersSingle` | `Spec => []OneLeader` |
| `ItemsHandedOver` | `Spec => []HandedOver` |
| `ReadsOrdered` | `Spec => []Ordered` |

A behaviour runs one program, and `ExamplesInv` is the invariant of its family.

* `CounterInv` compares the counter with the set of increments stored so far
  (`Stored`): never more (`Upper`), as many when load and store are one critical
  section or one access (`Exact`). That at least two survive is `Lower`: once every
  thread has stored in its last round, the last of these stores was of a value its
  thread loaded after a store of its own.
* `ElectionInv` says that who has passed a round knows it has a leader (`Passed`),
  that a leader has counted itself or will (`Said`), and in the two correct
  programs that only the leader is about to (`Single`).
* `ItemInv` says, for `procon2` to `procon4`, that the two counters are what the
  threads have finished (`Bounded`), that the rounds between them are whole in
  the buffer (`InBuffer`) and the ones before in `consumed` (`Taken`), half-copied ones
  included, and who knows what (`Informed`). Two rounds less than a buffer apart are
  in different slots (`SlotsDiffer`), for any size of the buffer.

### `WriteSet_proofs`

For any words, any values of the hash function, any initial length and growth
factor and any number of writes (`DictConstantsOk`, `WriteSetConstantsOk`):

| Theorem | States |
|---|---|
| `ReadsOwnWritesHolds` | `Spec => []ReadsOwnWrites` |
| `VisitsOnceHolds` | `Spec => []VisitsOnce` |
| `AllOrNothingHolds` | `Spec => []AllOrNothing` |
| `GrowthEnds` | in the table of `Grown` no resize is due |

Most of it is about data. `DictOk(d, hash_of, S)` says that the table has one
node for each key of S, in the bucket of that key, and no other. An insertion in
front of a chain keeps it (`InsertOk`), dic_find decides membership of S
(`FindIs`), an iteration enumerates S without repetition (`ForEachIs`, `Listing`),
so a resize starts from S and inserts S again (`ResizeOk`); with any number of
resizes before it dic_add adds its key and counts it once (`AddOk`).
`GrowthEnds` justifies the bound in `Grown`, which the recursion of the code does
not have: after n resizes that were due the length is at least 2n, while a
table is crowded only below twice its count. The lemmas on what the recursive
functions of `Dict` and of the library's `FlattenSeq` compute (`FlattenIs`,
`ResizeIs`, `GrownIs`) first show that such functions exist, by induction over their
length.

With these the invariant `Inv` is short: the dictionary is `DictOk` for the words
written (`DicInv`), the nodes hold the last buffers, and a word the write-back
does not still have to visit has its last buffer (`MemInv`).

### Model-checked only

Every safety invariant and action property of the passing runs is stated by
a theorem. Liveness under fairness (`CallsReturn`, `AllReturn`, `Ends`, `Finishes`)
is out of the prover's reach. So are the library's induction
theorems, which take an operator as a parameter; where a proof needs induction
over a number or a length (chains, sums), it is over a subset of `Nat` and rests
on the lemma `Induct` of its module, which follows from the well-foundedness of
`<` on `Nat`.

## 5. Findings

Two are runs, which TLC refutes:

* **Read-only transactions can return a mixed snapshot** (`tl2_snapshot`,
  `ReadOnlySerializable`). `tm_read` checks the lock at `tm.c:272` and copies
  the word at `tm.c:278`; a committer that fits between the two is not noticed,
  and a read-only transaction commits without validation (`tm.c:172`).
  `workload.hpp:180`: "Consistency check: no money should ever be destroyed or
  created out of thin air." Read-write transactions are not affected: they
  validate (`UpdatesSerializable` holds).
* **A spurious wake-up deadlocks `bounded_run`** (`grader_spurious`,
  `AlwaysEnds`). `wait_for` has no predicate (`common.hpp:286`), and
  `runner.join` (`common.hpp:290`) runs with the mutex held that the runner
  needs to notify. `common.hpp:265`: "Run some function for some bounded time".

The others are stated in their modules and most are violated there when checked with the
constants of the run of that module (`ValidationFailsOnConflict`: two words on
one lock); they are not among the runs:

* **A segment without a list node is never freed** (`EverySegmentReclaimed`,
  `TL2Properties`). `tm_alloc` reports success whatever `ll_append` returned
  (`tm.c:347`), and so does `tm_create` (`tm.c:86`): if `malloc` fails
  (`ll.c:74-76`) the segment is in no list, and neither the abort of its transaction
  nor `tm_destroy` frees it. The comment at `tm.c:106`: "free each segment". That
  no other segment is lost is `SegmentsReclaimed`.

* **A transaction can abort on its own lock** (`ValidationFailsOnConflict`,
  `TL2Properties`). The comments at `utils.c:78-80` and `tm.c:213` take "not in
  the write set" for "not locked by this transaction"; with a hash collision
  that is wrong and `lock_check` (`utils.c:93`) fails. The abort is spurious,
  not unsafe.
* **A word written twice leaks a buffer** (`NoLeak`, `WriteSet`). `tm_write`
  allocates a buffer per word (`tm.c:306`) and overwrites the pointer of an
  earlier write (`tm.c:310`); the destructor frees the last one only
  (`utils.c:10-15`). `test_tm.c:556`: "no memory leaks or concurrency issues
  detected".
* **Times of phases accumulate** (`RuntimeOfPhase`, `GradingSync`).
  `Chrono::stop` adds to a total that nobody resets, so each repetition's time
  contains all phases before it. `grading.cpp:65`: "Runtime between
  'master_notify' and when the last worker finished".
* **The clock can be stopped before it is started** (`StartedBeforeStopped`,
  `GradingSync`). `master_notify` releases the workers before it starts the
  clock (`grading.cpp:80-81`).
* **The library is unloaded under a running thread** (`UnloadedWhenQuiet`,
  `Grader`). `check_shortcuts` swallows the overrun (`grading.cpp:482`), and the
  one of the bank's constructor is caught outside the loop (`grading.cpp:599`);
  either way the destructor of the library calls `dlclose`
  (`transactional.hpp:140`). `grading.cpp:588`: "cannot unload library with
  running threads".
* **Detached threads outlive what they refer to** (`LocalsOutlived`, `BoundedRun`;
  `SyncOutlived`, `Grader`). After an overrun the runner uses the mutex, the
  condition variable and the exception pointer of a call that has returned
  (`common.hpp:287`); after an exception the workers use the `Sync` of a `measure`
  that has been left (`grading.cpp:250`), until `quick_exit`.
* **An overlong `tm_destroy` terminates the grader** (`NoTerminate`, `Grader`).
  `bounded_run` throws inside a `noexcept` destructor (`transactional.hpp:184`),
  so the exit code is that of `abort` and no message is printed. It does so, too,
  if the thread for `tm_destroy` cannot be created (`common.hpp:275`).
* **A failed allocation can terminate the grader** (`NoTerminateUnwinding`,
  `Transactional`). `TransactionAlloc` leaves the closure through the destructor,
  which calls `tm_end`; if that refuses, the second exception
  (`transactional.hpp:295`) is thrown during unwinding; in `Grader` this is
  `job_terminates`. If it does not, the
  transaction is committed although its caller sees an exception.
* **An exception in the check of the reference hangs the grader** (`Ends` without
  its last case). The others wait in the spin barrier for the worker that left
  (`workload.hpp:346` makes up for its own returns, not for exceptions), and the
  reference has no time limit.
* **The producer of `procon3` overwrites without synchronisation**
  (`OverwritesOrdered`, `ProCon`). `procon3.c:35-36`: the load "can be relaxed as
  we don't read anything "produced" by the consumer"; but the producer overwrites
  the slot the consumer has read, and nothing in C11 orders the read first.
* **A repeated short transaction uses other accounts** (`TransfersAsAsked`,
  `Bank`). The closure decreases the captured `send_id` and `recv_id`
  (`workload.hpp:248`, `257`), and a retry starts from what is left. No money is
  lost (`MoneyConserved` holds).

## 6. Abstractions and what is not modelled

* A copy of a word is atomic. For the 8-byte words of the grader the copy is
  one move; for larger alignments a racing `memcpy` may also be torn, which
  only widens the window of the first finding.
* Failing allocations. Where the code handles them, `tm_begin` and `tm_alloc` (of
  the segment) return an error with nothing changed, and `tm_end` aborts
  (`tm_end_nomem`). A list node that cannot be allocated is modelled, in `TL2`
  and in `SegmentList`. Not modelled are the results of `malloc` that the code uses
  unchecked: a null pointer is followed in `dic_new`, `keynode_new`, `dic_resize`
  and `tm_write`, which is undefined; a null `alloc_set` (`tm.c:157`) is not
  followed, as `ll.c` tests for it: every `ll_append` of that transaction fails
  like one without a node does in the model, and its `tm_end` passes by the
  region's list without waiting for the lock.
* In `TL2` the write set's buffers, list nodes and dictionary tables are sets;
  `SegmentList` and `WriteSet` model them on their own.
* The pthread readers-writer lock, `std::mutex` and `std::condition_variable`
  are modelled by their contracts.
* What detached threads do to objects that are gone is undefined; the model
  keeps these threads running, and shows that they are, and nothing of their
  effect on freed memory.
* The `int` of a lock does not wrap: versions are naturals, which the proofs
  need, and 2^30 commits are beyond any instance.
* `hash_pointer`'s arithmetic: abstracted by any `LockOf`.
* The options, times and output of `main`, and what a shortcut check reads and
  writes: `Shared` in `transactional.hpp` is typed access without state.
* `test_tm.c` runs single calls in one thread and adds no behaviour to what
  `TL2` checks in every order. `template/` has no behaviour. `submit.py` and
  the Makefiles are not part of the system.

## 7. Plan

Done: every component with behaviour of its own is modelled; the safety
properties that the runs check are proved. What is left, in this order:

1. Version comparison with a wrapping int, as a variant of `VersionLock` with a
   width.
2. Allocation in `TL2` with read-only transactions that follow pointers, and a
   refinement of `SerialTM` by committed updates.
