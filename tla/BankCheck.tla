------------------------------ MODULE BankCheck ------------------------------
(***************************************************************************)
(* WorkloadBank::check of grading/workload.hpp: every worker decreases a   *)
(* shared counter NbTx times, in transactions of the library under test;   *)
(* three calls of the barrier (module Barrier) separate the initialisation *)
(* by worker 0, the loop, and the final look at the counter.  A            *)
(* transaction is one step: `transactional' repeats it until it commits.   *)
(* The check meets libraries that are correct and libraries that are not.  *)
(***************************************************************************)
EXTENDS Barrier

CONSTANTS
    Zero,      \* the worker with uid 0
    NbTx       \* nbtxperwrk

ASSUME CheckConstantsOk == Zero \in Threads /\ NbTx \in Nat \ {0}

VARIABLES
    fault,     \* the library under test: "none" is correct; in a "torn" one
               \* read-write transactions are not isolated; in an "any" one a
               \* read returns anything.  Chosen in the initial state.
    counter,   \* the shared word
    line,      \* the line of check a worker is at; it is in a call of sync
               \* that precedes this line while at[t] # "out"
    i, last,   \* locals of check
    value,     \* what a torn transaction has read
    error,     \* whether check returned, or will return, a message
    lost       \* history: a decrement was overwritten

workers == <<line, i, last, value, error>>
vars == <<barrier, fault, counter, workers, lost>>

init_counter == NbTx * cardinal

\* The counter is a size_t; here it wraps at a smaller bound, above every
\* value a correct run reaches.
Decreased(v) == IF v = 0 THEN init_counter + 1 ELSE v - 1

Init ==
    /\ BarrierInit
    /\ fault \in {"none", "torn", "any"}
    /\ counter \in {0, init_counter}   \* whatever the phase before left there
    /\ line = [t \in Threads |-> "start"]
    /\ i = [t \in Threads |-> 0]
    /\ last = [t \in Threads |-> 0]
    /\ value = [t \in Threads |-> 0]
    /\ error = [t \in Threads |-> FALSE]
    /\ lost = FALSE

\* What a read of the counter may return.  Three values suffice for both
\* outcomes of every test of check.
Reads == IF fault = "any" THEN {0, init_counter, init_counter + 1} ELSE {counter}

Running(t, l) == at[t] = "out" /\ line[t] = l

NextLine(t, l) == line' = [line EXCEPT ![t] = l]

\* barrier.sync(), between line l and line m.
CallSync(t, l, m) ==
    /\ Running(t, l) /\ enter(t) /\ NextLine(t, m)
    /\ UNCHANGED <<fault, counter, i, last, value, error, lost>>

\* The syncs of the good path.
start(t) == CallSync(t, "start", IF t = Zero THEN "init" ELSE "ready")
ready(t) == CallSync(t, "ready", "loop")
third(t) == CallSync(t, "third", "final")

\* Mutant of SyncsOwed: the error return of worker 0 forgets one sync.
SyncsOwed_One(l) == 1

\* How many calls of sync an error return makes up for.
SyncsOwed(l) == IF l = "verify" THEN 2 ELSE 1

\* The error returns.
Bail(t) ==
    /\ error' = [error EXCEPT ![t] = TRUE]
    /\ NextLine(t, IF SyncsOwed(line[t]) = 2 THEN "bail2" ELSE "bail1")

bail2(t) == CallSync(t, "bail2", "bail1")
bail1(t) == CallSync(t, "bail1", "return")

\* Worker 0 writes the initial value in a transaction.
init_tx(t) ==
    /\ Running(t, "init")
    /\ counter' = init_counter
    /\ NextLine(t, "verify")
    /\ UNCHANGED <<fault, barrier, i, last, value, error, lost>>

\* ... and checks in another one that it is there.
verify(t) ==
    /\ Running(t, "verify")
    /\ \E v \in Reads :
          IF v = init_counter THEN NextLine(t, "ready") /\ UNCHANGED error
          ELSE Bail(t)
    /\ UNCHANGED <<fault, barrier, counter, i, last, value, lost>>

\* The condition of the loop.
More(t) == i[t] < NbTx

\* Each worker fetches the counter.
fetch(t) ==
    /\ Running(t, "loop")
    /\ IF More(t)
       THEN /\ \E v \in Reads : last' = [last EXCEPT ![t] = v]
            /\ NextLine(t, "decrease")
       ELSE UNCHANGED last /\ NextLine(t, "third")
    /\ UNCHANGED <<fault, barrier, counter, i, value, error, lost>>

\* Mutant of Rose: an unchanged counter is taken for a rise.
Rose_OrSame(v, l) == v >= l

\* The test inside the transaction.
Rose(v, l) == v > l

Looped(t) == NextLine(t, "loop") /\ i' = [i EXCEPT ![t] = @ + 1]

\* The read-write transaction of an isolated library.
decrease(t) ==
    /\ fault # "torn" /\ Running(t, "decrease")
    /\ \E v \in Reads :
          IF Rose(v, last[t]) THEN Bail(t) /\ UNCHANGED <<counter, i>>
          ELSE counter' = Decreased(v) /\ Looped(t) /\ UNCHANGED error
    /\ UNCHANGED <<fault, barrier, last, value, lost>>

\* Its two halves in a library without isolation.
torn_read(t) ==
    /\ fault = "torn" /\ Running(t, "decrease")
    /\ IF Rose(counter, last[t]) THEN Bail(t) /\ UNCHANGED value
       ELSE /\ value' = [value EXCEPT ![t] = counter]
            /\ NextLine(t, "torn") /\ UNCHANGED error
    /\ UNCHANGED <<fault, barrier, counter, i, last, lost>>

torn_write(t) ==
    /\ Running(t, "torn")
    /\ counter' = Decreased(value[t])
    /\ lost' = (lost \/ counter # value[t])
    /\ Looped(t)
    /\ UNCHANGED <<fault, barrier, last, value, error>>

\* Mutant of Remains: the last value is not looked at.
Remains_Never(v) == FALSE

\* The last test of worker 0.
Remains(v) == v # 0

\* Worker 0 looks at the counter once all are done; the others return.
final(t) ==
    /\ Running(t, "final") /\ NextLine(t, "return")
    /\ \E v \in Reads :
          error' = [error EXCEPT ![t] = (t = Zero /\ Remains(v))]
    /\ UNCHANGED <<fault, barrier, counter, i, last, value, lost>>

InBarrier(t) == InSync(t) /\ UNCHANGED <<fault, counter, workers, lost>>

Work(t) ==
    \/ start(t) \/ ready(t) \/ third(t) \/ bail1(t) \/ bail2(t)
    \/ init_tx(t) \/ verify(t) \/ fetch(t) \/ decrease(t)
    \/ torn_read(t) \/ torn_write(t) \/ final(t)

Returned == \A t \in Threads : Running(t, "return")

Finished == Returned /\ UNCHANGED vars

Spinning(t) == spin(t) /\ UNCHANGED vars

CheckNext ==
    (\E t \in Threads : Work(t) \/ InBarrier(t) \/ Spinning(t)) \/ Finished

\* Every worker runs; the transactions commit in the end.
CheckSpec == Init /\ [][CheckNext]_vars
                  /\ \A t \in Threads : WF_vars(Work(t) \/ InBarrier(t))

-----------------------------------------------------------------------------
(* What the check promises. *)

\* A correct library passes, whatever the interleaving: the check is "false
\* negative-free", and its own use of the barrier never fails it.
NoFalseAlarm == fault = "none" => \A t \in Threads : ~ error[t]

\* A library that overwrote a decrement does not get through the check.
Detects == Returned /\ lost => \E t \in Threads : error[t]

\* Every worker returns: an error return leaves no other worker in the barrier.
AllReturn == <>Returned
=============================================================================
