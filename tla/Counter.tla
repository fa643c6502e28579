------------------------------- MODULE Counter -------------------------------
(***************************************************************************)
(* The counters: sync-examples/counter1.c to counter4.c, and playground/,  *)
(* whose Lock is left empty.  Each thread increments a shared counter RUNS *)
(* times.  counter++ on a plain int is a data race; the builds make it a   *)
(* load and a store, in one instruction or in two, and other threads may   *)
(* come between.                                                           *)
(***************************************************************************)
EXTENDS Naturals, FiniteSets

CONSTANTS Threads, RUNS, NoOne

VARIABLES
    program,       \* which of the programs this behaviour is of
    pc, round,     \* a thread: its place in the loop body, iterations done
    mutex, asleep, \* the lock, see ExampleLock
    verdict,       \* what main printed: "none", "correct", "wrong"
    counter,
    local,         \* the value a thread loaded
    check_counter  \* playground: calls of shared_access

INSTANCE ExampleLock

values == <<counter, local, check_counter>>
vars == <<program, pc, round, mutex, asleep, verdict, values>>

Programs == {"counter1", "counter2", "counter3", "counter4", "playground"}

\* The variables of the counters alone, as they are before main.
Fresh ==
    /\ counter = 0 /\ check_counter = 0
    /\ local = [t \in Threads |-> 0]

Init ==
    /\ program \in Programs
    /\ pc = [t \in Threads |-> "next"] /\ round = [t \in Threads |-> 0]
    /\ lock_init /\ verdict = "none"
    /\ Fresh

-----------------------------------------------------------------------------

At(t, l) == pc[t] = l /\ (l = "next" => round[t] < RUNS)

Goto(t, l) == pc' = [pc EXCEPT ![t] = l] /\ UNCHANGED round

EndRound(t) == pc' = [pc EXCEPT ![t] = "next"] /\ round' = [round EXCEPT ![t] = @ + 1]

load(t) ==
    /\ local' = [local EXCEPT ![t] = counter]
    /\ UNCHANGED <<counter, check_counter, mutex, asleep>>

store(t) ==
    /\ counter' = local[t] + 1
    /\ UNCHANGED <<local, check_counter, mutex, asleep>>

atomic_fetch_add ==
    /\ counter' = counter + 1
    /\ UNCHANGED <<local, check_counter, mutex, asleep>>

AllReturned == \A t \in Threads : pc[t] = "next" /\ round[t] = RUNS

\* Once all threads are joined, main compares.
main(expected) ==
    /\ AllReturned /\ verdict = "none"
    /\ verdict' = IF counter = expected THEN "correct" ELSE "wrong"
    /\ UNCHANGED <<pc, round, mutex, asleep, values>>

Expected == RUNS * Cardinality(Threads)

\* A thread runs one step of its function.
Thread(Step(_)) == UNCHANGED verdict /\ \E t \in Threads : Step(t)

\* counter++ of a plain int, or a load and a store of an atomic one.
TwoAccesses(t) ==
    \/ At(t, "next") /\ load(t) /\ Goto(t, "loaded")
    \/ At(t, "loaded") /\ store(t) /\ EndRound(t)

Counter1 ==
    /\ program = "counter1"
    /\ (main(Expected) \/ Thread(TwoAccesses))

\* Mutant of Counter2Step: the lock is released before the store.
Counter2Step_Early(t) ==
    \/ At(t, "next") /\ lock_acquire(t) /\ Goto(t, "locked") /\ UNCHANGED values
    \/ At(t, "locked") /\ load(t) /\ Goto(t, "loaded")
    \/ At(t, "loaded") /\ lock_release(t) /\ Goto(t, "stored") /\ UNCHANGED values
    \/ At(t, "stored") /\ store(t) /\ EndRound(t)

Counter2Step(t) ==
    \/ At(t, "next") /\ lock_acquire(t) /\ Goto(t, "locked") /\ UNCHANGED values
    \/ At(t, "locked") /\ load(t) /\ Goto(t, "loaded")
    \/ At(t, "loaded") /\ store(t) /\ Goto(t, "stored")
    \/ At(t, "stored") /\ lock_release(t) /\ EndRound(t) /\ UNCHANGED values

Counter2 ==
    /\ program = "counter2"
    /\ (main(Expected) \/ Thread(Counter2Step))

Counter3 ==
    /\ program = "counter3"
    /\ (main(Expected) \/ Thread(TwoAccesses))

OneAccess(t) == At(t, "next") /\ atomic_fetch_add /\ EndRound(t)

Counter4 ==
    /\ program = "counter4"
    /\ (main(Expected) \/ Thread(OneAccess))

\* shared_access under a lock whose lock() and unlock() do nothing.
shared_access(t) ==
    \/ At(t, "next") /\ load(t) /\ Goto(t, "loaded")
    \/ At(t, "loaded") /\ store(t) /\ Goto(t, "counted")
    \/ /\ At(t, "counted") /\ EndRound(t)
       /\ check_counter' = check_counter + 1
       /\ UNCHANGED <<counter, local, mutex, asleep>>

\* The main of runner.cpp compares with the number of calls.
Playground ==
    /\ program = "playground"
    /\ (main(check_counter) \/ Thread(shared_access))

Next ==
    /\ Counter1 \/ Counter2 \/ Counter3 \/ Counter4 \/ Playground
    /\ UNCHANGED program

-----------------------------------------------------------------------------

\* The programs the comments call correct count every increment.  In the
\* others increments get lost, but however the threads interleave at least two
\* are left (or the only one), and main never takes a wrong count for right.
CountsRight ==
    /\ program \in {"counter2", "counter4"} => verdict # "wrong"
    /\ verdict # "none" =>
          /\ counter \in (IF RUNS = 1 THEN 1 ELSE 2) .. Expected
          /\ (verdict = "correct" <=> counter = Expected)
    /\ check_counter <= Expected
=============================================================================
