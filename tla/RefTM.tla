-------------------------------- MODULE RefTM --------------------------------
(***************************************************************************)
(* reference/tm.c: the transactional memory the grader compares with.  A   *)
(* readers-writer lock (shared-lock.c, a pthread_rwlock) is held for a     *)
(* whole transaction; the memory is changed in place; the allocated        *)
(* segments are in a doubly linked list.  The list is changed one half of  *)
(* its pointers at a time.                                                 *)
(***************************************************************************)
EXTENDS Naturals, FiniteSets

CONSTANTS
    Threads,
    Words,     \* addresses of the first segment
    Segments,  \* addresses malloc can give to a segment (of one word)
    Values,    \* contents of a word
    Zero,      \* the content memset gives
    None

ASSUME ConstantsOk ==
    /\ Zero \in Values
    /\ None \notin Segments \cup Threads \cup Words
    /\ Words \cap Segments = {}
    /\ IsFiniteSet(Segments)  \* an address space

VARIABLES
    readers, writer,    \* the rwlock: who shares it, who owns it
    tx,                 \* the handle t holds: "none", "ro" or "rw"
    mem,                \* contents of the words
    live,               \* segments that malloc gave out
    allocs, prev, next, \* the list of struct region and its nodes
    pc,                 \* where t is: "client", or inside tm_alloc or tm_free
    seg,                \* the segment this call is about
    result,             \* what the last tm_read of t returned
    up,                 \* "up", "destroying" or "down"
    committed           \* history: the memory when no writer was running

list == <<live, allocs, prev, next>>
lock == <<readers, writer>>
vars == <<lock, tx, mem, list, pc, seg, result, up, committed>>

\* Segments a client can name: those no tm_alloc or tm_free is working on.
Usable == live \ {seg[t] : t \in {u \in Threads : pc[u] # "client"}}

\* The memory clients see.
Contents == [a \in Words \cup Usable |-> mem[a]]

Init ==
    /\ readers = {} /\ writer = None
    /\ tx = [t \in Threads |-> "none"]
    /\ mem = [a \in Words \cup Segments |-> Zero]
    /\ live = {} /\ allocs = None
    /\ prev = [s \in Segments |-> None]
    /\ next = [s \in Segments |-> None]
    /\ pc = [t \in Threads |-> "client"]
    /\ seg = [t \in Threads |-> None]
    /\ result = [t \in Threads |-> Zero]
    /\ up = "up"
    /\ committed = [w \in Words |-> Zero]

\* Mutant of CanShare: readers do not wait for the writer.
CanShare_Always == TRUE

CanShare == writer = None

\* Mutant of CanOwn: a writer does not wait for the readers.
CanOwn_Readers == writer = None

CanOwn == writer = None /\ readers = {}

Handle(is_ro) == IF is_ro THEN "ro" ELSE "rw"

tm_begin(t, is_ro) ==
    /\ up = "up" /\ tx[t] = "none"
    /\ IF is_ro THEN CanShare /\ readers' = readers \cup {t} /\ UNCHANGED writer
       ELSE CanOwn /\ writer' = t /\ UNCHANGED readers
    /\ tx' = [tx EXCEPT ![t] = Handle(is_ro)]
    /\ UNCHANGED <<mem, list, pc, seg, result, up, committed>>

\* The handle tells which of the two releases to call.
tm_end(t) ==
    /\ tx[t] # "none" /\ pc[t] = "client"
    /\ IF tx[t] = "ro" THEN readers' = readers \ {t} /\ UNCHANGED <<writer, committed>>
       ELSE writer' = None /\ committed' = Contents /\ UNCHANGED readers
    /\ tx' = [tx EXCEPT ![t] = "none"]
    /\ UNCHANGED <<mem, list, pc, seg, result, up>>

tm_read(t, a) ==
    /\ tx[t] # "none" /\ pc[t] = "client" /\ a \in Words \cup Usable
    /\ result' = [result EXCEPT ![t] = mem[a]]
    /\ UNCHANGED <<lock, tx, mem, list, pc, seg, up, committed>>

\* Clients write, allocate and free in read-write transactions only.
Writing(t) == tx[t] = "rw" /\ pc[t] = "client"

tm_write(t, a, v) ==
    /\ Writing(t) /\ a \in Words \cup Usable
    /\ mem' = [mem EXCEPT ![a] = v]
    /\ UNCHANGED <<lock, tx, list, pc, seg, result, up, committed>>

\* posix_memalign, then the fields of the new node.
tm_alloc(t, s) ==
    /\ Writing(t) /\ s \notin live
    /\ live' = live \cup {s}
    /\ prev' = [prev EXCEPT ![s] = None]
    /\ next' = [next EXCEPT ![s] = allocs]
    /\ pc' = [pc EXCEPT ![t] = "alloc"] /\ seg' = [seg EXCEPT ![t] = s]
    /\ UNCHANGED <<lock, tx, mem, allocs, result, up, committed>>

\* Mutant of Prepended: the back pointer of the old first node is forgotten.
Prepended_Forgotten(s) == prev

\* if (sn->next) sn->next->prev = sn
Prepended(s) == IF next[s] = None THEN prev ELSE [prev EXCEPT ![next[s]] = s]

\* The old first node and the region point to the new one; memset; return.
tm_alloc_link(t) ==
    /\ pc[t] = "alloc"
    /\ prev' = Prepended(seg[t])
    /\ allocs' = seg[t]
    /\ mem' = [mem EXCEPT ![seg[t]] = Zero]
    /\ pc' = [pc EXCEPT ![t] = "client"] /\ seg' = [seg EXCEPT ![t] = None]
    /\ UNCHANGED <<lock, tx, live, next, result, up, committed>>

\* The predecessor, or the region, points past the segment.
tm_free(t, s) ==
    /\ Writing(t) /\ s \in Usable
    /\ IF prev[s] # None
       THEN next' = [next EXCEPT ![prev[s]] = next[s]] /\ UNCHANGED allocs
       ELSE allocs' = next[s] /\ UNCHANGED next
    /\ pc' = [pc EXCEPT ![t] = "free"] /\ seg' = [seg EXCEPT ![t] = s]
    /\ UNCHANGED <<lock, tx, mem, live, prev, result, up, committed>>

\* if (sn->next) sn->next->prev = sn->prev
Bypassed(s) == IF next[s] = None THEN prev ELSE [prev EXCEPT ![next[s]] = prev[s]]

\* The successor points before the segment; free.  The pointers of a freed
\* node are undefined: None stands for that.
tm_free_unlink(t) ==
    LET s == seg[t] IN
    /\ pc[t] = "free"
    /\ prev' = [Bypassed(s) EXCEPT ![s] = None]
    /\ next' = [next EXCEPT ![s] = None]
    /\ live' = live \ {s}
    /\ pc' = [pc EXCEPT ![t] = "client"] /\ seg' = [seg EXCEPT ![t] = None]
    /\ UNCHANGED <<lock, tx, mem, allocs, result, up, committed>>

\* region->allocs->next, read before the node is freed.
AfterFirst(s) == next[s]

\* Called when no transaction is left; frees the list node by node.
tm_destroy ==
    /\ up # "down" /\ \A t \in Threads : tx[t] = "none"
    /\ IF allocs # None
       THEN /\ live' = live \ {allocs} /\ allocs' = AfterFirst(allocs)
            /\ prev' = [prev EXCEPT ![allocs] = None]
            /\ next' = [next EXCEPT ![allocs] = None]
            /\ up' = "destroying"
       ELSE up' = "down" /\ UNCHANGED list
    /\ UNCHANGED <<lock, tx, mem, pc, seg, result, committed>>

Done == up = "down" /\ UNCHANGED vars

Next ==
    \/ \E t \in Threads :
          \/ \E is_ro \in BOOLEAN : tm_begin(t, is_ro)
          \/ tm_end(t)
          \/ \E a \in Words \cup Segments :
                tm_read(t, a) \/ \E v \in Values : tm_write(t, a, v)
          \/ \E s \in Segments : tm_alloc(t, s) \/ tm_free(t, s)
          \/ tm_alloc_link(t) \/ tm_free_unlink(t)
    \/ tm_destroy
    \/ Done

Spec == Init /\ [][Next]_vars

-----------------------------------------------------------------------------
(* What the reference promises. *)

\* Type invariant.
TypeOK ==
    /\ readers \subseteq Threads /\ writer \in Threads \cup {None}
    /\ tx \in [Threads -> {"none", "ro", "rw"}]
    /\ mem \in [Words \cup Segments -> Values]
    /\ live \subseteq Segments /\ allocs \in Segments \cup {None}
    /\ prev \in [Segments -> Segments \cup {None}]
    /\ next \in [Segments -> Segments \cup {None}]
    /\ pc \in [Threads -> {"client", "alloc", "free"}]
    /\ seg \in [Threads -> Segments \cup {None}]
    /\ result \in [Threads -> Values]
    /\ up \in {"up", "destroying", "down"}
    /\ committed \in UNION {[Words \cup S -> Values] : S \in SUBSET Segments}

\* The handles agree with the lock, and a read-write transaction excludes
\* every other one: tm_end always calls the release that fits.
Exclusion ==
    /\ readers = {t \in Threads : tx[t] = "ro"}
    /\ \A t \in Threads : tx[t] = "rw" <=> writer = t
    /\ \A t \in Threads : tx[t] = "rw" => \A u \in Threads \ {t} : tx[u] = "none"

\* Between two calls the list is doubly linked and holds the live segments:
\* every node is reached from allocs by Cardinality(live) steps or fewer.
\* tm_destroy, which walks it, meets live segments only and leaves none.
ListIntact ==
    LET path[k \in 0..Cardinality(Segments)] ==
            IF k = 0 THEN {allocs} \ {None}
            ELSE path[k - 1] \cup ({next[s] : s \in path[k - 1]} \ {None})
    IN /\ (up = "up" /\ \A t \in Threads : pc[t] = "client") =>
             /\ path[Cardinality(Segments)] = live
             /\ allocs # None => prev[allocs] = None
             /\ \A s \in live : next[s] # None => prev[next[s]] = s
             /\ \A s \in live : prev[s] # None => next[prev[s]] = s
       /\ up = "destroying" => allocs \in live \cup {None}
       /\ up = "down" => live = {}

\* What a running transaction sees: the memory itself, because a writer has
\* it alone.
SerialBase == [t \in Threads |-> IF tx[t] = "none" THEN None ELSE committed]
SerialView == [t \in Threads |-> IF tx[t] = "none" THEN None ELSE Contents]

Serial == INSTANCE SerialTM WITH
    store <- committed, base <- SerialBase, view <- SerialView, mode <- tx

\* The reference implements a serial memory: its transactions read what the
\* last committed ones wrote and their own writes, nothing else.
ImplementsSerial == Serial!Spec
=============================================================================
