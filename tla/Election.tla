------------------------------ MODULE Election ------------------------------
(***************************************************************************)
(* The leader elections: sync-examples/election1.c to election4.c.  In     *)
(* each round every thread tries to become the leader of that round.       *)
(***************************************************************************)
EXTENDS Naturals, FiniteSets

CONSTANTS Threads, RUNS, NoOne

VARIABLES
    program, pc, round, mutex, asleep, verdict, \* as in module Counter
    leader,     \* the leader of each round, NoOne for 0
    nb_leaders  \* how many threads took themselves for the leader of a round

INSTANCE ExampleLock

arrays == <<leader, nb_leaders>>
vars == <<program, pc, round, mutex, asleep, verdict, arrays>>

Programs == {"election1", "election2", "election3", "election4"}

Rounds == 0 .. RUNS - 1

\* The variables of the elections alone, as they are before main.
Fresh ==
    /\ leader = [r \in Rounds |-> NoOne]
    /\ nb_leaders = [r \in Rounds |-> 0]

Init ==
    /\ program \in Programs
    /\ pc = [t \in Threads |-> "next"] /\ round = [t \in Threads |-> 0]
    /\ lock_init /\ verdict = "none"
    /\ Fresh

-----------------------------------------------------------------------------

At(t, l) == pc[t] = l /\ (l = "next" => round[t] < RUNS)

Goto(t, l) == pc' = [pc EXCEPT ![t] = l] /\ UNCHANGED round

EndRound(t) == pc' = [pc EXCEPT ![t] = "next"] /\ round' = [round EXCEPT ![t] = @ + 1]

Vacant(t) == leader[round[t]] = NoOne

\* leader[r] = tid
impose(t) ==
    /\ leader' = [leader EXCEPT ![round[t]] = t]
    /\ UNCHANGED <<nb_leaders, mutex, asleep>>

\* atomic_fetch_add(&nb_leaders[r], 1)
tally(t) ==
    /\ nb_leaders' = [nb_leaders EXCEPT ![round[t]] = @ + 1]
    /\ UNCHANGED <<leader, mutex, asleep>>

AllReturned == \A t \in Threads : pc[t] = "next" /\ round[t] = RUNS

main ==
    /\ AllReturned /\ verdict = "none"
    /\ verdict' = IF \A r \in Rounds : nb_leaders[r] = 1 THEN "correct" ELSE "wrong"
    /\ UNCHANGED <<pc, round, mutex, asleep, arrays>>

Thread(Step(_)) == UNCHANGED verdict /\ \E t \in Threads : Step(t)

\* The test of leader[r] and the assignment are two accesses of the int, plain
\* or atomic.
TestThenSet(t) ==
    \/ /\ At(t, "next") /\ UNCHANGED <<arrays, mutex, asleep>>
       /\ IF Vacant(t) THEN Goto(t, "vacant") ELSE EndRound(t)
    \/ At(t, "vacant") /\ impose(t) /\ Goto(t, "imposed")
    \/ At(t, "imposed") /\ tally(t) /\ EndRound(t)

Election1 ==
    /\ program = "election1"
    /\ (main \/ Thread(TestThenSet))

\* Under the lock.
LockedTestThenSet(t) ==
    \/ At(t, "next") /\ lock_acquire(t) /\ Goto(t, "locked") /\ UNCHANGED arrays
    \/ /\ At(t, "locked") /\ UNCHANGED <<arrays, mutex, asleep>>
       /\ Goto(t, IF Vacant(t) THEN "vacant" ELSE "counted")
    \/ At(t, "vacant") /\ impose(t) /\ Goto(t, "imposed")
    \/ At(t, "imposed") /\ tally(t) /\ Goto(t, "counted")
    \/ At(t, "counted") /\ lock_release(t) /\ EndRound(t) /\ UNCHANGED arrays

Election2 ==
    /\ program = "election2"
    /\ (main \/ Thread(LockedTestThenSet))

Election3 ==
    /\ program = "election3"
    /\ (main \/ Thread(TestThenSet))

\* Mutant of CompareAndSwap: the exchange also replaces a leader.
CompareAndSwap_Weak(t) ==
    /\ At(t, "next")
    /\ leader' = [leader EXCEPT ![round[t]] = t]
    /\ UNCHANGED <<nb_leaders, mutex, asleep>>
    /\ Goto(t, "imposed")

\* atomic_compare_exchange_strong: the test and the assignment are one step.
CompareAndSwap(t) ==
    /\ At(t, "next")
    /\ \/ Vacant(t) /\ impose(t) /\ Goto(t, "imposed")
       \/ ~ Vacant(t) /\ EndRound(t) /\ UNCHANGED <<arrays, mutex, asleep>>

SwapThenTally(t) ==
    \/ CompareAndSwap(t)
    \/ At(t, "imposed") /\ tally(t) /\ EndRound(t)

Election4 ==
    /\ program = "election4"
    /\ (main \/ Thread(SwapThenTally))

Next ==
    /\ Election1 \/ Election2 \/ Election3 \/ Election4
    /\ UNCHANGED program

-----------------------------------------------------------------------------

\* Threads that have taken themselves for the leader of round r but not said so.
Imposed(r) == {t \in Threads : pc[t] = "imposed" /\ round[t] = r}

\* sync-examples/README.md:13: "exactly one thread considers itself as the
\* leader in each run".  In the correct programs a round has a leader exactly
\* when one thread took itself for it; in the others there may be more, but
\* never none, and main says "correct" only of single leaders.
OneLeader ==
    /\ program \in {"election2", "election4"} =>
          /\ verdict # "wrong"
          /\ \A r \in Rounds :
                nb_leaders[r] + Cardinality(Imposed(r)) = IF leader[r] = NoOne THEN 0 ELSE 1
          /\ \A r \in Rounds : Imposed(r) \subseteq {leader[r]}
    /\ verdict # "none" => \A r \in Rounds : leader[r] # NoOne /\ nb_leaders[r] >= 1
=============================================================================
