------------------------------- MODULE ProCon -------------------------------
(***************************************************************************)
(* The producer-consumer programs: sync-examples/procon1.c to procon4.c.   *)
(* One thread fills a circular buffer, another one empties it.  A copy of  *)
(* a struct data is long: it is two steps, one per half.  The data of      *)
(* round r are abstracted to r.                                            *)
(*                                                                         *)
(* Next to the values, the model follows C11's happens-before: `published' *)
(* is what a thread had copied when it last released the mutex or wrote    *)
(* its counter with memory_order_release, `known' what it learnt of the    *)
(* other thread by acquiring.                                              *)
(***************************************************************************)
EXTENDS Integers

CONSTANTS producer, consumer, RUNS, BUFFER_SIZE, NoOne, MaxSpurious

Pair == {producer, consumer}

VARIABLES
    program, pc, round, mutex, asleep, verdict, \* as in module Counter
    buffer,      \* the two halves of each slot, -1 before the first round
    produced_until, consumed_until,
    consumed,    \* what the consumer got in each round
    published,   \* per thread: rounds it has told the other one of
    known,       \* per thread: rounds of the other one it knows of
    spurious     \* spurious wake-ups so far, at most MaxSpurious

INSTANCE ExampleLock

copies == <<buffer, consumed>>
bounds == <<produced_until, consumed_until>>
order == <<published, known>>
vars == <<program, pc, round, mutex, asleep, verdict, copies, bounds, order, spurious>>

Programs == {"procon1", "procon2", "procon3", "procon4"}

Slot(t) == round[t] % BUFFER_SIZE

\* The variables of these programs alone, as they are before main.
Fresh ==
    /\ buffer = [i \in 0 .. BUFFER_SIZE - 1 |-> <<-1, -1>>]
    /\ produced_until = 0 /\ consumed_until = 0
    /\ consumed = [r \in 0 .. RUNS - 1 |-> <<-1, -1>>]
    /\ published = [t \in Pair |-> 0] /\ known = [t \in Pair |-> 0]
    /\ spurious = 0

Init ==
    /\ program \in Programs
    /\ pc = [t \in Pair |-> "next"] /\ round = [t \in Pair |-> 0]
    /\ lock_init /\ verdict = "none"
    /\ Fresh

-----------------------------------------------------------------------------
(* What the programs have in common. *)

At(t, l) == pc[t] = l /\ (l = "next" => round[t] < RUNS)

Goto(t, l) == pc' = [pc EXCEPT ![t] = l] /\ UNCHANGED round

EndRound(t) == pc' = [pc EXCEPT ![t] = "next"] /\ round' = [round EXCEPT ![t] = @ + 1]

Other(t) == IF t = producer THEN consumer ELSE producer

\* Mutant of Room: one slot too many.
Room_OneMore == consumed_until + BUFFER_SIZE >= round[producer]

Room == consumed_until + BUFFER_SIZE > round[producer]

Ready(t) == IF t = producer THEN Room ELSE produced_until > round[t]

\* buffer[r % BUFFER_SIZE] = produced[r], or consumed[r] = buffer[...].
copy_half(t, h) ==
    /\ IF t = producer
       THEN buffer' = [buffer EXCEPT ![Slot(t)][h] = round[t]] /\ UNCHANGED consumed
       ELSE consumed' = [consumed EXCEPT ![round[t]][h] = buffer[Slot(t)][h]] /\ UNCHANGED buffer
    /\ UNCHANGED <<mutex, asleep, bounds, order, spurious>>

Copy(t, after) ==
    \/ At(t, "copy") /\ copy_half(t, 1) /\ Goto(t, "copying")
    \/ At(t, "copying") /\ copy_half(t, 2) /\ after

\* produced_until++ of the producer, consumed_until++ of the consumer
Advance(t) ==
    IF t = producer THEN produced_until' = produced_until + 1 /\ UNCHANGED consumed_until
                    ELSE consumed_until' = consumed_until + 1 /\ UNCHANGED produced_until

\* The rounds whose copy is over: all before this one, and this one behind the
\* counter.
Over(t) == IF pc[t] \in {"advanced", "signal"} THEN round[t] + 1 ELSE round[t]

Acquire(t) == known' = [known EXCEPT ![t] = published[Other(t)]] /\ UNCHANGED published

Release(t) == published' = [published EXCEPT ![t] = Over(t)] /\ UNCHANGED known

AllReturned == \A t \in Pair : pc[t] = "next" /\ round[t] = RUNS

\* Once both threads are joined, main compares what they have noted.
main ==
    /\ AllReturned /\ verdict = "none"
    /\ verdict' = IF \A r \in 0 .. RUNS - 1 : consumed[r] = <<r, r>> THEN "correct" ELSE "wrong"
    /\ UNCHANGED <<pc, round, mutex, asleep, copies, bounds, order, spurious>>

Thread(Step(_)) == UNCHANGED verdict /\ \E t \in Pair : Step(t)

-----------------------------------------------------------------------------
(* procon1: no synchronisation. *)

Unsynchronised(t) ==
    \/ /\ At(t, "next") /\ Goto(t, "copy")
       /\ UNCHANGED <<mutex, asleep, copies, bounds, order, spurious>>
    \/ Copy(t, EndRound(t))

Procon1 ==
    /\ program = "procon1"
    /\ (main \/ Thread(Unsynchronised))

-----------------------------------------------------------------------------
(* procon2: a mutex, and busy waiting. *)

\* lock_acquire, at the head of the loop or when a sleeper wakes up
Lock(t) ==
    /\ lock_acquire(t) /\ Acquire(t)
    /\ Goto(t, "locked")
    /\ UNCHANGED <<copies, bounds, spurious>>

AdvanceLocked(t) ==
    /\ At(t, "copied")
    /\ Advance(t) /\ Goto(t, "advanced")
    /\ UNCHANGED <<mutex, asleep, copies, order, spurious>>

BusyWaiting(t) ==
    \/ At(t, "next") /\ Lock(t)
    \/ /\ At(t, "locked") /\ Ready(t) /\ Goto(t, "copy")
       /\ UNCHANGED <<mutex, asleep, copies, bounds, order, spurious>>
    \/ /\ At(t, "locked") /\ ~ Ready(t) /\ lock_release(t) /\ Release(t) /\ Goto(t, "next")
       /\ UNCHANGED <<copies, bounds, spurious>>
    \/ Copy(t, Goto(t, "copied"))
    \/ AdvanceLocked(t)
    \/ /\ At(t, "advanced") /\ lock_release(t) /\ Release(t) /\ EndRound(t)
       /\ UNCHANGED <<copies, bounds, spurious>>

Procon2 ==
    /\ program = "procon2"
    /\ (main \/ Thread(BusyWaiting))

-----------------------------------------------------------------------------
(* procon3: two atomics. *)

\* Mutant of LoadOrder: both loads are relaxed.
LoadOrder_Relaxed(t) == UNCHANGED order

\* The consumer's load acquires, the producer's is relaxed.
LoadOrder(t) == IF t = consumer THEN Acquire(t) ELSE UNCHANGED order

LoadBound(t) ==
    /\ At(t, "next") /\ Ready(t)
    /\ LoadOrder(t)
    /\ Goto(t, "copy")
    /\ UNCHANGED <<mutex, asleep, copies, bounds, spurious>>

\* atomic_fetch_add with memory_order_release
AdvanceAtomic(t) ==
    /\ At(t, "copied")
    /\ Advance(t) /\ published' = [published EXCEPT ![t] = round[t] + 1] /\ UNCHANGED known
    /\ EndRound(t)
    /\ UNCHANGED <<mutex, asleep, copies, spurious>>

Overtaking(t) ==
    \/ LoadBound(t)
    \/ Copy(t, Goto(t, "copied"))
    \/ AdvanceAtomic(t)

Procon3 ==
    /\ program = "procon3"
    /\ (main \/ Thread(Overtaking))

-----------------------------------------------------------------------------
(* procon4: a mutex and a condition variable. *)

\* Mutant of Wait: the test and the sleep are two critical sections.
Wait_Late(t) ==
    \/ /\ At(t, "locked") /\ ~ Ready(t) /\ lock_release(t) /\ Release(t) /\ Goto(t, "late")
       /\ UNCHANGED <<copies, bounds, spurious>>
    \/ /\ At(t, "late") /\ mutex = NoOne /\ asleep' = asleep \cup {t} /\ Goto(t, "asleep")
       /\ UNCHANGED <<mutex, copies, bounds, order, spurious>>

\* The loop around lock_wait tests again after each wake-up.
Wait(t) ==
    /\ At(t, "locked") /\ ~ Ready(t)
    /\ lock_wait(t) /\ Release(t) /\ Goto(t, "asleep")
    /\ UNCHANGED <<copies, bounds, spurious>>

\* The broadcast follows the release of the mutex.
Signal(t) ==
    /\ At(t, "signal")
    /\ lock_wake_up /\ EndRound(t)
    /\ UNCHANGED <<copies, bounds, order, spurious>>

Sleeping(t) ==
    \/ At(t, "next") /\ Lock(t)
    \/ At(t, "asleep") /\ t \notin asleep /\ Lock(t)
    \/ Wait(t)
    \/ /\ At(t, "locked") /\ Ready(t) /\ Goto(t, "copy")
       /\ UNCHANGED <<mutex, asleep, copies, bounds, order, spurious>>
    \/ Copy(t, Goto(t, "copied"))
    \/ AdvanceLocked(t)
    \/ /\ At(t, "advanced") /\ lock_release(t) /\ Release(t) /\ Goto(t, "signal")
       /\ UNCHANGED <<copies, bounds, spurious>>
    \/ Signal(t)

\* pthread_cond_wait may return without a reason.
spurious_wakeup ==
    /\ spurious < MaxSpurious /\ asleep # {}
    /\ \E t \in asleep : asleep' = asleep \ {t}
    /\ spurious' = spurious + 1
    /\ UNCHANGED <<pc, round, mutex, verdict, copies, bounds, order>>

Procon4 ==
    /\ program = "procon4"
    /\ (main \/ Thread(Sleeping) \/ spurious_wakeup)

-----------------------------------------------------------------------------

Next ==
    /\ Procon1 \/ Procon2 \/ Procon3 \/ Procon4
    /\ UNCHANGED program

-----------------------------------------------------------------------------

Copying(t) == pc[t] \in {"copy", "copying"}

\* All but the unsynchronised program hand every round over whole: producer and
\* consumer are never in the same slot, whatever the slot was used for before.
HandedOver ==
    program # "procon1" =>
       /\ verdict # "wrong"
       /\ Copying(producer) /\ Copying(consumer) => Slot(producer) # Slot(consumer)
       /\ \A r \in 0 .. round[consumer] - 1 : consumed[r] = <<r, r>>

\* The consumer's read of a slot happens after the write it reads, in the sense
\* of C11; and under a lock the producer's write happens after the last read of
\* the slot.  Values alone do not show this.
Ordered ==
    /\ program # "procon1" /\ Copying(consumer) => known[consumer] > round[consumer]
    /\ program \in {"procon2", "procon4"} /\ Copying(producer) =>
          known[producer] > round[producer] - BUFFER_SIZE

\* sync-examples/procon3.c:35-36: the load "can be relaxed as we don't read
\* anything `produced' by the consumer".  But the producer overwrites what the
\* consumer reads, and no release or acquire puts the read first.
OverwritesOrdered ==
    program # "procon1" /\ Copying(producer) =>
        known[producer] > round[producer] - BUFFER_SIZE
=============================================================================
