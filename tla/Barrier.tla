------------------------------- MODULE Barrier -------------------------------
(***************************************************************************)
(* The spin barrier of grading/common.hpp: a counter of the threads inside *)
(* and a mode that opens one of two doors.  One step is one access to an   *)
(* atomic.                                                                 *)
(***************************************************************************)
EXTENDS Integers, FiniteSets

CONSTANTS
    Threads,   \* those that synchronise on the barrier
    Rounds     \* how often each of them calls sync (bound of the model)

ASSUME BarrierConstantsOk ==
    IsFiniteSet(Threads) /\ Threads # {} /\ Rounds \in Nat

cardinal == Cardinality(Threads)

VARIABLES
    step, mode,  \* the two atomics
    at,          \* where a thread is in sync; "out" is outside
    entered,     \* history: how often it called sync
    exited       \* history: how often sync returned

barrier == <<step, mode, at, entered, exited>>

BarrierInit ==
    /\ step = 0 /\ mode = "enter"
    /\ at = [t \in Threads |-> "out"]
    /\ entered = [t \in Threads |-> 0]
    /\ exited = [t \in Threads |-> 0]

Goto(t, l) == at' = [at EXCEPT ![t] = l]

Return(t) == Goto(t, "out") /\ exited' = [exited EXCEPT ![t] = @ + 1]

\* Is the thread that adds itself now the last one?
LastIn == step + 1 = cardinal

\* Was the thread that subtracted itself the last one?
LastOut == step - 1 = 0

\* step.fetch_add
enter(t) ==
    /\ at[t] = "out"
    /\ step' = step + 1
    /\ entered' = [entered EXCEPT ![t] = @ + 1]
    /\ Goto(t, IF LastIn THEN "open" ELSE "wait_leave")
    /\ UNCHANGED <<mode, exited>>

\* mode.store(leave), by the last thread
open(t) ==
    /\ at[t] = "open"
    /\ mode' = "leave"
    /\ Goto(t, "leave")
    /\ UNCHANGED <<step, entered, exited>>

\* The spin loop on mode: one load that finds the door open.
wait_leave(t) ==
    /\ at[t] = "wait_leave" /\ mode = "leave"
    /\ Goto(t, "leave")
    /\ UNCHANGED <<step, mode, entered, exited>>

Subtracted == step - 1

\* step.fetch_sub
leave(t) ==
    /\ at[t] = "leave"
    /\ step' = Subtracted
    /\ Goto(t, IF LastOut THEN "close" ELSE "wait_enter")
    /\ UNCHANGED <<mode, entered, exited>>

\* mode.store(enter), by the last thread; it returns.
close(t) ==
    /\ at[t] = "close"
    /\ mode' = "enter"
    /\ Return(t)
    /\ UNCHANGED <<step, entered>>

\* Mutant of Closed: threads leave without waiting for the last one.
Closed_Always == TRUE

Closed == mode = "enter"

\* The second spin loop.
wait_enter(t) ==
    /\ at[t] = "wait_enter" /\ Closed
    /\ Return(t)
    /\ UNCHANGED <<step, mode, entered>>

\* A load that finds the door closed: the thread keeps spinning.
spin(t) ==
    /\ \/ at[t] = "wait_leave" /\ mode # "leave"
       \/ at[t] = "wait_enter" /\ ~ Closed
    /\ UNCHANGED barrier

\* A step inside sync; sync itself is called by the client.
InSync(t) ==
    open(t) \/ wait_leave(t) \/ leave(t) \/ close(t) \/ wait_enter(t)

-----------------------------------------------------------------------------
(* The barrier with threads that call sync Rounds times each. *)

sync(t) == entered[t] < Rounds /\ enter(t)

Done == /\ \A t \in Threads : at[t] = "out" /\ entered[t] = Rounds
        /\ UNCHANGED barrier

Next == (\E t \in Threads : sync(t) \/ InSync(t) \/ spin(t)) \/ Done

Spec == BarrierInit /\ [][Next]_barrier

-----------------------------------------------------------------------------
(* What the barrier promises. *)

\* Type invariant.
TypeOK ==
    /\ step \in Nat /\ mode \in {"enter", "leave"}
    /\ at \in [Threads -> {"out", "open", "wait_leave", "leave", "close", "wait_enter"}]
    /\ entered \in [Threads -> Nat] /\ exited \in [Threads -> Nat]

\* No thread leaves a call of sync before every thread has entered it: what a
\* thread does after the barrier happens after what all did before it, also
\* when fast threads enter the next call while slow ones still leave this one.
Separates == \A t, u \in Threads : exited[t] <= entered[u]
=============================================================================
