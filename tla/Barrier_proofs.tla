--------------------------- MODULE Barrier_proofs ---------------------------
(***************************************************************************)
(* For any number of threads, and any number of calls, the spin barrier    *)
(* separates what comes before a call from what comes after it; and the    *)
(* check of the bank, which is built on it, passes every library whose     *)
(* transactions are isolated (BankCheck!NoFalseAlarm) and finds every lost *)
(* decrement (BankCheck!Detects), for any number of workers and turns.     *)
(***************************************************************************)
EXTENDS BankCheck, FiniteSetTheorems, TLAPS

\* The threads that step counts.
Inside == {t \in Threads : at[t] \in {"open", "wait_leave", "leave"}}

Counts(t, in, out) == entered[t] = in /\ exited[t] = out

\* The first door is shut: r calls are over, slow threads still leave the
\* r-th one, fast ones wait in the next.
Entering(r) ==
    /\ mode = "enter"
    /\ \A t \in Threads :
          \/ at[t] = "out" /\ Counts(t, r, r)
          \/ at[t] = "wait_enter" /\ Counts(t, r, r - 1)
          \/ at[t] \in {"wait_leave", "open"} /\ Counts(t, r + 1, r)
    /\ \A t \in Threads : at[t] = "open" =>
          \A u \in Threads \ {t} : at[u] = "wait_leave"

\* The first door is open: every thread is in its call number r + 1.
Leaving(r) ==
    /\ mode = "leave"
    /\ \A t \in Threads : /\ at[t] \in {"wait_leave", "leave", "wait_enter", "close"}
                          /\ Counts(t, r + 1, r)
    /\ \A t \in Threads : at[t] = "close" =>
          \A u \in Threads \ {t} : at[u] = "wait_enter"

IInv == /\ TypeOK
        /\ step = Cardinality(Inside)
        /\ \E r \in Nat : Entering(r) \/ Leaving(r)

USE BarrierConstantsOk

LEMMA InsideFinite == IsFiniteSet(Inside) /\ Cardinality(Inside) \in Nat
<1>1. Inside \in SUBSET Threads
  BY DEF Inside
<1> QED
  BY <1>1, FS_Subset, FS_CardinalityType

\* fetch_add and fetch_sub count who is inside.
LEMMA CountUp ==
    ASSUME IInv, NEW t \in Threads, enter(t)
    PROVE  /\ step' = Cardinality(Inside')
           /\ LastIn => \A u \in Threads \ {t} : at[u] \in {"open", "wait_leave", "leave"}
<1>1. Inside' = Inside \cup {t} /\ t \notin Inside /\ Inside' \in SUBSET Threads
  BY DEF IInv, TypeOK, enter, Goto, Inside
<1>2. Cardinality(Inside') = Cardinality(Inside) + 1
  BY <1>1, InsideFinite, FS_AddElement
<1>3. step' = Cardinality(Inside') /\ step' = step + 1
  BY <1>2 DEF IInv, enter
<1>4. ASSUME LastIn PROVE Inside' = Threads
  <2>1. Cardinality(Inside') = Cardinality(Threads)
    BY <1>3, <1>4 DEF LastIn, cardinal
  <2> QED
    BY <1>1, <2>1, FS_Subset
<1>5. ASSUME LastIn, NEW u \in Threads \ {t} PROVE at[u] \in {"open", "wait_leave", "leave"}
  <2>1. u \in Inside
    BY <1>1, <1>4, <1>5
  <2> QED
    BY <2>1 DEF Inside
<1> QED
  BY <1>3, <1>5

LEMMA CountDown ==
    ASSUME IInv, NEW t \in Threads, leave(t)
    PROVE  /\ step' = Cardinality(Inside') /\ step' \in Nat
           /\ LastOut => \A u \in Threads \ {t} : at[u] \notin {"open", "wait_leave", "leave"}
<1>1. Inside' = Inside \ {t} /\ t \in Inside
  BY DEF IInv, TypeOK, leave, Goto, Inside
<1>2. Cardinality(Inside') = Cardinality(Inside) - 1 /\ IsFiniteSet(Inside')
  BY <1>1, InsideFinite, FS_RemoveElement
<1>3. step' = Cardinality(Inside') /\ step' = step - 1 /\ step' \in Nat
  BY <1>2, FS_CardinalityType DEF IInv, leave, Subtracted
<1>4. ASSUME LastOut PROVE Inside' = {}
  BY <1>2, <1>3, <1>4, FS_EmptySet DEF LastOut
<1>5. ASSUME LastOut, NEW u \in Threads \ {t}
      PROVE  at[u] \notin {"open", "wait_leave", "leave"}
  <2>1. u \notin Inside
    BY <1>1, <1>4, <1>5
  <2> QED
    BY <2>1 DEF Inside
<1> QED
  BY <1>3, <1>5

\* Steps that move one thread among the places step counts, or among the others.
LEMMA CountKept ==
    ASSUME IInv, NEW t \in Threads, UNCHANGED step, NEW l, Goto(t, l),
           \/ at[t] \in {"open", "wait_leave"} /\ l = "leave"
           \/ at[t] \in {"close", "wait_enter"} /\ l = "out"
    PROVE  step' = Cardinality(Inside')
<1>1. Inside' = Inside
  BY DEF IInv, TypeOK, Goto, Inside
<1> QED
  BY <1>1 DEF IInv

LEMMA InitInv == BarrierInit => IInv
<1> SUFFICES ASSUME BarrierInit PROVE IInv
  OBVIOUS
<1>1. Inside = {}
  BY DEF BarrierInit, Inside
<1>2. step = Cardinality(Inside)
  BY <1>1, FS_EmptySet DEF BarrierInit
<1>3. Entering(0)
  BY DEF BarrierInit, Entering, Counts
<1> QED
  BY <1>2, <1>3 DEF IInv, BarrierInit, TypeOK

\* A step of a client of the barrier: it calls sync, is inside, or does
\* something else.
BarrierStep == (\E t \in Threads : enter(t) \/ InSync(t)) \/ UNCHANGED barrier

LEMMA NextInv == IInv /\ BarrierStep => IInv'
<1> SUFFICES ASSUME IInv, BarrierStep PROVE IInv'
  OBVIOUS
<1>r. PICK r \in Nat : Entering(r) \/ Leaving(r)
  BY DEF IInv
<1>t. TypeOK
  BY DEF IInv
<1>1. ASSUME NEW t \in Threads, enter(t)
      PROVE  IInv'
  <2>1. Entering(r) /\ Counts(t, r, r) /\ \A u \in Threads : at[u] # "open"
    BY <1>1, <1>r, <1>t DEF enter, Entering, Leaving
  <2>t. TypeOK' /\ step' = Cardinality(Inside')
    <3>1. TypeOK'
      BY <1>1, <1>t DEF TypeOK, enter, Goto
    <3> QED
      BY <1>1, <3>1, CountUp
  <2>2. CASE LastIn
    <3>1. \A u \in Threads \ {t} : at[u] = "wait_leave"
      BY <1>1, <2>1, <2>2, CountUp DEF Entering
    <3>2. Entering(r)'
      BY <1>1, <1>t, <2>1, <2>2, <3>1 DEF enter, Goto, Entering, Counts, TypeOK
    <3> QED
      BY <2>t, <3>2 DEF IInv
  <2>3. CASE ~ LastIn
    <3>1. Entering(r)'
      BY <1>1, <1>t, <2>1, <2>3 DEF enter, Goto, Entering, Counts, TypeOK
    <3> QED
      BY <2>t, <3>1 DEF IInv
  <2> QED
    BY <2>2, <2>3
<1>2. ASSUME NEW t \in Threads, open(t)
      PROVE  IInv'
  <2>1. Entering(r) /\ \A u \in Threads \ {t} : at[u] = "wait_leave"
    BY <1>2, <1>r DEF open, Entering, Leaving
  <2>2. Leaving(r)'
    BY <1>2, <1>t, <2>1 DEF open, Goto, Entering, Leaving, Counts, TypeOK
  <2>3. step' = Cardinality(Inside')
    BY <1>2, CountKept DEF open
  <2> QED
    BY <1>2, <1>t, <2>2, <2>3 DEF IInv, TypeOK, open, Goto
<1>3. ASSUME NEW t \in Threads, wait_leave(t)
      PROVE  IInv'
  <2>1. Leaving(r)
    BY <1>3, <1>r DEF wait_leave, Entering
  <2>2. Leaving(r)'
    BY <1>3, <1>t, <2>1 DEF wait_leave, Goto, Leaving, Counts, TypeOK
  <2>3. step' = Cardinality(Inside')
    BY <1>3, CountKept DEF wait_leave
  <2> QED
    BY <1>3, <1>t, <2>2, <2>3 DEF IInv, TypeOK, wait_leave, Goto
<1>4. ASSUME NEW t \in Threads, leave(t)
      PROVE  IInv'
  <2>1. Leaving(r) /\ \A u \in Threads : at[u] # "close"
    BY <1>4, <1>r, <1>t DEF leave, Entering, Leaving
  <2>2. LastOut => \A u \in Threads \ {t} : at[u] = "wait_enter"
    BY <1>4, <2>1, CountDown DEF Leaving
  <2>3. Leaving(r)'
    BY <1>4, <1>t, <2>1, <2>2 DEF leave, Goto, Leaving, Counts, TypeOK
  <2> QED
    BY <1>4, <1>t, <2>3, CountDown DEF IInv, TypeOK, leave, Goto
<1>5. ASSUME NEW t \in Threads, close(t)
      PROVE  IInv'
  <2>1. Leaving(r) /\ \A u \in Threads \ {t} : at[u] = "wait_enter"
    BY <1>5, <1>r DEF close, Entering, Leaving
  <2>2. Entering(r + 1)'
    BY <1>5, <1>t, <2>1 DEF close, Return, Goto, Entering, Leaving, Counts, TypeOK
  <2>3. step' = Cardinality(Inside')
    BY <1>5, CountKept DEF close, Return
  <2> QED
    BY <1>5, <1>t, <2>2, <2>3 DEF IInv, TypeOK, close, Return, Goto
<1>6. ASSUME NEW t \in Threads, wait_enter(t)
      PROVE  IInv'
  <2>1. Entering(r)
    BY <1>6, <1>r DEF wait_enter, Closed, Leaving
  <2>2. Entering(r)'
    BY <1>6, <1>t, <2>1 DEF wait_enter, Return, Goto, Entering, Counts, TypeOK
  <2>3. step' = Cardinality(Inside')
    BY <1>6, CountKept DEF wait_enter, Return
  <2> QED
    BY <1>6, <1>t, <2>2, <2>3 DEF IInv, TypeOK, wait_enter, Return, Goto
<1>7. CASE UNCHANGED barrier
  BY <1>7 DEF barrier, IInv, TypeOK, Inside, Entering, Leaving, Counts
<1> QED
  BY <1>1, <1>2, <1>3, <1>4, <1>5, <1>6, <1>7 DEF BarrierStep, InSync

\* The inductive invariant of the barrier.
THEOREM Invariance == Spec => []IInv
<1>1. [Next]_barrier => BarrierStep
  BY DEF Next, BarrierStep, sync, spin, Done
<1> QED
  BY <1>1, InitInv, NextInv, PTL DEF Spec

\* The atomics and the program counters are well typed (TypeOK): the counter
\* never falls below zero.
THEOREM TypeCorrect == Spec => []TypeOK
BY Invariance, PTL DEF IInv

\* What the invariant says of the calls.
LEMMA Separated ==
    ASSUME IInv
    PROVE  /\ Separates
           /\ \A t \in Threads : at[t] = "out" => exited[t] = entered[t]
<1>1. PICK r \in Nat : Entering(r) \/ Leaving(r)
  BY DEF IInv
<1>2. \A t \in Threads : exited[t] <= r /\ r <= entered[t]
  BY <1>1 DEF Entering, Leaving, Counts
<1>3. Separates
  BY <1>2 DEF Separates, IInv, TypeOK
<1>4. \A t \in Threads : at[t] = "out" => exited[t] = entered[t]
  BY <1>1 DEF Entering, Leaving, Counts
<1> QED
  BY <1>3, <1>4

\* No thread returns from a call of sync before all have entered it
\* (Separates), for any number of threads.
THEOREM BarrierSeparates == Spec => []Separates
BY Invariance, Separated, PTL

-----------------------------------------------------------------------------
(* The check of the bank. *)

Lines == {"start", "init", "verify", "ready", "loop", "decrease", "torn", "third", "final",
          "bail2", "bail1", "return"}

CheckTypes ==
    /\ fault \in {"none", "torn", "any"} /\ counter \in Nat
    /\ line \in [Threads -> Lines]
    /\ i \in [Threads -> 0..NbTx]
    /\ last \in [Threads -> Nat] /\ value \in [Threads -> Nat]
    /\ error \in [Threads -> BOOLEAN] /\ lost \in BOOLEAN

\* Between two calls of sync: lines that precede the second, the third, no
\* further one.
First == {"init", "verify", "ready", "bail2"}
Second == {"loop", "decrease", "torn", "third", "bail1"}
Last == {"final", "return"}

\* Where a worker is in check says how often it has called sync, and at which
\* lines it cannot be inside.
LinesInStep ==
    \A t \in Threads :
        /\ line[t] = "start" => entered[t] = 0
        /\ line[t] \in First => entered[t] = 1
        /\ line[t] \in Second => entered[t] = 2
        /\ line[t] \in Last => entered[t] = 3
        /\ line[t] \in {"start", "verify", "decrease", "torn", "third"} => at[t] = "out"
        /\ line[t] \in {"init", "verify", "bail2"} => t = Zero
        /\ error[t] => line[t] \in {"bail2", "bail1", "return"}
        /\ line[t] \in {"bail2", "bail1"} => error[t]

\* How far a worker is in the loop, which waits for the one with uid 0 and
\* which that one waits for, if it does not leave early.
LoopsCounted ==
    /\ \A t \in Threads :
        /\ line[t] \in {"decrease", "torn"} => i[t] < NbTx
        /\ line[t] \in {"third", "final"} \/ (line[t] = "return" /\ ~ error[t]) => i[t] = NbTx
    /\ line[Zero] \in First \cup {"start"} => \A t \in Threads : i[t] = 0
    /\ line[Zero] = "return" /\ ~ error[Zero] => \A t \in Threads : line[t] \in Last

\* The decrements that were made, and what they leave.
Dones == {p \in Threads \X (1..NbTx) : p[2] <= i[p[1]]}

Left == init_counter - Cardinality(Dones)

\* In an isolated library the counter tells what is left to do ...
Isolated ==
    /\ \A t \in Threads : ~ error[t] /\ line[t] # "torn"
    /\ line[Zero] \notin {"start", "init"} => counter = Left
    /\ \A t \in Threads : line[t] = "decrease" => counter <= last[t]

\* ... and in a torn one a lost decrement makes it larger for ever: also what
\* a worker has read and is about to decrease is too large, or was not overtaken.
Torn ==
    /\ line[Zero] \notin {"start", "init"} =>
          counter >= Left /\ (lost => counter > Left)
    /\ \A t \in Threads : line[t] = "torn" =>
          value[t] >= Left /\ (lost \/ value[t] # counter => value[t] > Left)
    /\ line[Zero] \in {"start", "init"} => ~ lost
    /\ line[Zero] = "return" /\ lost => \E t \in Threads : error[t]

CheckInv ==
    /\ CheckTypes /\ LinesInStep /\ LoopsCounted
    /\ fault = "none" => Isolated
    /\ fault = "torn" => Torn
    /\ fault # "torn" => ~ lost /\ \A t \in Threads : line[t] # "torn"

-----------------------------------------------------------------------------
(* Counting decrements. *)

USE CheckConstantsOk

LEMMA DonesCounted ==
    ASSUME CheckTypes
    PROVE  /\ IsFiniteSet(Dones) /\ Cardinality(Dones) \in Nat
           /\ init_counter \in Nat /\ Cardinality(Dones) <= init_counter
           /\ (\A t \in Threads : i[t] = 0) => Cardinality(Dones) = 0
           /\ (\A t \in Threads : i[t] = NbTx) => Cardinality(Dones) = init_counter
           /\ (\E t \in Threads : i[t] < NbTx) => Cardinality(Dones) < init_counter
<1> DEFINE All == Threads \X (1..NbTx)
<1>1. IsFiniteSet(1..NbTx) /\ Cardinality(1..NbTx) = NbTx
  BY FS_Interval
<1>2. cardinal \in Nat
  BY FS_CardinalityType DEF cardinal
<1>3. IsFiniteSet(All) /\ Cardinality(All) = cardinal * NbTx
  BY <1>1, FS_Product DEF cardinal
<1>4. init_counter = Cardinality(All) /\ init_counter \in Nat
  BY <1>2, <1>3 DEF init_counter
<1>5. Dones \in SUBSET All
  BY DEF Dones
<1>6. IsFiniteSet(Dones) /\ Cardinality(Dones) \in Nat /\ Cardinality(Dones) <= init_counter
      /\ (Cardinality(Dones) = init_counter => Dones = All)
  BY <1>3, <1>4, <1>5, FS_Subset, FS_CardinalityType
<1>7. ASSUME \A t \in Threads : i[t] = 0 PROVE Cardinality(Dones) = 0
  <2>1. Dones = {}
    BY <1>7 DEF Dones
  <2> QED
    BY <2>1, FS_EmptySet
<1>8. ASSUME \A t \in Threads : i[t] = NbTx PROVE Cardinality(Dones) = init_counter
  <2>1. Dones = All
    BY <1>8 DEF Dones
  <2> QED
    BY <2>1, <1>4
<1>9. ASSUME NEW t \in Threads, i[t] < NbTx PROVE Cardinality(Dones) < init_counter
  <2>1. <<t, NbTx>> \in All /\ <<t, NbTx>> \notin Dones
    BY <1>9 DEF Dones, CheckTypes
  <2>2. Dones # All
    BY <2>1
  <2> QED
    BY <1>4, <1>6, <2>2
<1> QED
  BY <1>4, <1>6, <1>7, <1>8, <1>9

LEMMA OneMoreDone ==
    ASSUME CheckTypes, NEW t \in Threads, i[t] < NbTx, i' = [i EXCEPT ![t] = @ + 1]
    PROVE  Left' = Left - 1
<1>1. Dones' = Dones \cup {<<t, i[t] + 1>>} /\ <<t, i[t] + 1>> \notin Dones
  BY DEF Dones, CheckTypes
<1>2. Cardinality(Dones') = Cardinality(Dones) + 1
  BY <1>1, DonesCounted, FS_AddElement
<1> QED
  BY <1>2, DonesCounted DEF Left, init_counter

LEMMA SameLeft ==
    ASSUME UNCHANGED i
    PROVE  Left' = Left
BY DEF Left, Dones, init_counter

-----------------------------------------------------------------------------
(* The barrier in the check. *)

\* Nobody is in the loop before the counter is initialised, and nobody when a
\* worker looks at it in the end.
LEMMA Scheduled ==
    ASSUME IInv, CheckInv, NEW t \in Threads, at[t] = "out"
    PROVE  /\ line[t] \in {"loop", "decrease", "torn"} => line[Zero] \notin First \cup {"start"}
           /\ line[t] \in Last => \A u \in Threads : line[u] \in Last
<1>1. \A u \in Threads : entered[t] <= entered[u]
  BY Separated DEF Separates
<1>2. \A u \in Threads : line[u] \in Lines /\ entered[u] \in Nat
  BY DEF CheckInv, CheckTypes, IInv, TypeOK
<1>3. entered[t] = 2 => entered[Zero] \notin {0, 1}
  BY <1>1, <1>2
<1>4. ASSUME entered[t] = 3, NEW u \in Threads PROVE entered[u] \notin {0, 1, 2}
  BY <1>1, <1>2, <1>4
<1> QED
  BY <1>2, <1>3, <1>4 DEF CheckInv, LinesInStep, Lines, First, Second, Last

LEMMA CallSyncSafe ==
    ASSUME IInv, CheckInv, NEW t \in Threads,
           start(t) \/ ready(t) \/ third(t) \/ bail1(t) \/ bail2(t)
    PROVE  CheckInv'
<1> USE DEF CheckInv, CheckTypes
<1>1. PICK l \in Lines, m \in Lines :
        /\ CallSync(t, l, m)
        /\ \/ l = "start" /\ m = IF t = Zero THEN "init" ELSE "ready"
           \/ <<l, m>> \in {<<"ready", "loop">>, <<"third", "final">>, <<"bail1", "return">>,
                            <<"bail2", "bail1">>}
  BY DEF start, ready, third, bail1, bail2, Lines
<1>2. /\ line[t] = l /\ line' = [line EXCEPT ![t] = m] /\ at[t] = "out"
      /\ entered' = [entered EXCEPT ![t] = @ + 1]
      /\ \A u \in Threads \ {t} : at'[u] = at[u]
      /\ UNCHANGED <<fault, counter, i, last, value, error, lost>>
  BY <1>1 DEF CallSync, Running, NextLine, enter, Goto, IInv, TypeOK
<1>3. CheckTypes'
  BY <1>2
<1>4. LinesInStep'
  BY <1>1, <1>2 DEF LinesInStep, First, Second, Last, IInv, TypeOK
<1>5. /\ m \notin {"start", "verify", "decrease", "torn", "third"}
      /\ l = "start" /\ t = Zero => m = "init"
      /\ m \in {"init", "ready"} => l = "start"
      /\ m = "final" => l = "third"
      /\ m = "return" => error[t]
      /\ l \notin Last
  BY <1>1, <1>2 DEF LinesInStep, Last
<1>6. LoopsCounted'
  <2>1. \A u \in Threads : line'[u] = IF u = t THEN m ELSE line[u]
    BY <1>2
  <2>2. CASE line'[Zero] \in First \cup {"start"}
    <3>1. line[Zero] \in First \cup {"start"}
      BY <1>1, <1>2, <1>5, <2>1, <2>2 DEF First
    <3>2. \A u \in Threads : i[u] = 0
      BY <3>1 DEF LoopsCounted
    <3> QED
      BY <1>2, <1>5, <2>1, <2>2, <3>2 DEF LoopsCounted, First
  <2>3. CASE line'[Zero] \notin First \cup {"start"}
    <3>1. line'[Zero] = "return" /\ ~ error[Zero] => Zero # t
      BY <1>5, <2>1
    <3> QED
      BY <1>2, <1>5, <2>1, <2>3, <3>1 DEF LoopsCounted
  <2> QED
    BY <2>2, <2>3
<1>7. /\ \A u \in Threads : line'[u] \in {"decrease", "torn"} => line'[u] = line[u]
      /\ line'[Zero] \in {"start", "init"} <=> line[Zero] \in {"start", "init"}
      /\ line'[Zero] = "return" => line[Zero] = "return" \/ error[Zero]
  <2>1. \A u \in Threads : line'[u] = IF u = t THEN m ELSE line[u]
    BY <1>2
  <2>2. l = "init" => FALSE
    BY <1>1
  <2> QED
    BY <1>2, <1>5, <2>1, <2>2
<1>8. Left' = Left
  BY <1>2, SameLeft
<1>9. fault' = "none" => Isolated'
  BY <1>2, <1>7, <1>8 DEF Isolated
<1>10. fault' = "torn" => Torn'
  BY <1>2, <1>7, <1>8 DEF Torn
<1> QED
  BY <1>2, <1>3, <1>4, <1>5, <1>6, <1>9, <1>10

LEMMA InBarrierSafe ==
    ASSUME IInv, CheckInv, NEW t \in Threads, InBarrier(t)
    PROVE  CheckInv'
<1>1. /\ at[t] # "out" /\ \A u \in Threads \ {t} : at'[u] = at[u]
      /\ UNCHANGED <<entered, fault, counter, line, i, last, value, error, lost>>
  BY DEF InBarrier, InSync, open, wait_leave, leave, close, wait_enter, Return, Goto, workers,
         IInv, TypeOK
<1>2. LinesInStep'
  BY <1>1 DEF CheckInv, LinesInStep
<1> QED
  BY <1>1, <1>2, SameLeft DEF CheckInv, CheckTypes, LoopsCounted, Isolated, Torn

-----------------------------------------------------------------------------
(* The transactions of the check. *)

LEMMA InitTxSafe ==
    ASSUME IInv, CheckInv, NEW t \in Threads, init_tx(t)
    PROVE  CheckInv'
<1> USE DEF CheckInv, CheckTypes
<1>1. /\ t = Zero /\ line[t] = "init" /\ at[t] = "out" /\ counter' = init_counter
      /\ line' = [line EXCEPT ![t] = "verify"]
      /\ UNCHANGED <<fault, at, entered, i, last, value, error, lost>>
  BY DEF init_tx, Running, NextLine, LinesInStep, barrier
<1>2. \A u \in Threads : i[u] = 0 /\ line[u] \notin {"decrease", "torn"}
  BY <1>1, Scheduled DEF LoopsCounted, First, LinesInStep
<1>3. counter' = Left' /\ counter' \in Nat
  BY <1>1, <1>2, SameLeft, DonesCounted DEF Left, init_counter
<1>4. CheckTypes'
  BY <1>1, <1>3 DEF Lines
<1>5. LinesInStep' /\ LoopsCounted'
  BY <1>1, <1>2 DEF LinesInStep, LoopsCounted, First, Second, Last
<1>6. fault' = "none" => Isolated'
  BY <1>1, <1>2, <1>3 DEF Isolated
<1>7. Left' \in Nat
  BY <1>3
<1>8. fault' = "torn" => Torn'
  BY <1>1, <1>2, <1>3, <1>7 DEF Torn
<1> QED
  BY <1>1, <1>4, <1>5, <1>6, <1>8

\* Going back with an error.
LEMMA BailIs ==
    ASSUME CheckTypes, NEW t \in Threads, Bail(t), line[t] \in {"verify", "decrease"}
    PROVE  /\ error' = [error EXCEPT ![t] = TRUE]
           /\ line' = [line EXCEPT ![t] = IF line[t] = "verify" THEN "bail2" ELSE "bail1"]
<1>1. CASE line[t] = "verify"
  BY <1>1 DEF Bail, SyncsOwed, NextLine
<1>2. CASE line[t] = "decrease"
  BY <1>2 DEF Bail, SyncsOwed, NextLine
<1> QED
  BY <1>1, <1>2

LEMMA VerifySafe ==
    ASSUME IInv, CheckInv, NEW t \in Threads, verify(t)
    PROVE  CheckInv'
<1> USE DEF CheckInv, CheckTypes
<1>1. /\ t = Zero /\ line[t] = "verify" /\ at[t] = "out"
      /\ UNCHANGED <<fault, at, entered, counter, i, last, value, lost>>
  BY DEF verify, Running, LinesInStep, barrier
<1>2. \A u \in Threads : i[u] = 0
  BY <1>1 DEF LoopsCounted, First
<1>3. counter \in Nat /\ (fault = "none" => counter = init_counter)
  BY <1>1, <1>2, DonesCounted DEF Isolated, Left
<1>4. CASE line' = [line EXCEPT ![t] = "ready"] /\ UNCHANGED error
  <2>1. CheckTypes' /\ LinesInStep' /\ LoopsCounted'
    BY <1>1, <1>2, <1>4 DEF Lines, LinesInStep, LoopsCounted, First, Second, Last
  <2>2. (fault' = "none" => Isolated') /\ (fault' = "torn" => Torn')
    BY <1>1, <1>4, SameLeft DEF Isolated, Torn
  <2> QED
    BY <1>1, <1>4, <2>1, <2>2
<1>5. CASE Bail(t) /\ fault # "none"
  <2>1. error' = [error EXCEPT ![t] = TRUE] /\ line' = [line EXCEPT ![t] = "bail2"]
    BY <1>1, <1>5, BailIs
  <2>2. CheckTypes' /\ LinesInStep' /\ LoopsCounted'
    BY <1>1, <1>2, <2>1 DEF Lines, LinesInStep, LoopsCounted, First, Second, Last
  <2>3. fault' = "torn" => Torn'
    BY <1>1, <2>1, SameLeft DEF Torn
  <2> QED
    BY <1>1, <1>5, <2>1, <2>2, <2>3
<1> QED
  BY <1>3, <1>4, <1>5 DEF verify, Reads, NextLine

LEMMA FetchSafe ==
    ASSUME IInv, CheckInv, NEW t \in Threads, fetch(t)
    PROVE  CheckInv'
<1> USE DEF CheckInv, CheckTypes
<1>1. /\ line[t] = "loop" /\ at[t] = "out"
      /\ UNCHANGED <<fault, at, entered, counter, i, value, error, lost>>
  BY DEF fetch, Running, barrier
<1>2. line[Zero] \notin First \cup {"start"} /\ ~ error[t]
  BY <1>1, Scheduled DEF LinesInStep
<1>3. CASE More(t)
  <2>1. PICK v \in Reads : last' = [last EXCEPT ![t] = v]
    BY <1>3 DEF fetch
  <2>2. line' = [line EXCEPT ![t] = "decrease"] /\ i[t] < NbTx
    BY <1>3 DEF fetch, NextLine, More
  <2>3. v \in Nat /\ (fault # "any" => v = counter)
    BY DonesCounted DEF Reads
  <2>4. CheckTypes' /\ LinesInStep' /\ LoopsCounted'
    BY <1>1, <1>2, <2>1, <2>2, <2>3 DEF Lines, LinesInStep, LoopsCounted, First, Second, Last
  <2>5. fault' = "none" => Isolated'
    BY <1>1, <1>2, <2>1, <2>2, <2>3, SameLeft DEF Isolated, First
  <2>6. fault' = "torn" => Torn'
    BY <1>1, <1>2, <2>2, SameLeft DEF Torn, First
  <2> QED
    BY <1>1, <2>2, <2>4, <2>5, <2>6
<1>4. CASE ~ More(t)
  <2>1. line' = [line EXCEPT ![t] = "third"] /\ i[t] = NbTx /\ UNCHANGED last
    BY <1>4 DEF fetch, NextLine, More
  <2>2. CheckTypes' /\ LinesInStep' /\ LoopsCounted'
    BY <1>1, <1>2, <2>1 DEF Lines, LinesInStep, LoopsCounted, First, Second, Last
  <2>3. (fault' = "none" => Isolated') /\ (fault' = "torn" => Torn')
    BY <1>1, <1>2, <2>1, SameLeft DEF Isolated, Torn, First
  <2> QED
    BY <1>1, <2>1, <2>2, <2>3
<1> QED
  BY <1>3, <1>4

\* A worker that finds the counter risen leaves the loop.
LEMMA RoseSafe ==
    ASSUME IInv, CheckInv, NEW t \in Threads, Running(t, "decrease"), Bail(t), fault # "none",
           UNCHANGED <<fault, at, entered, counter, i, last, value, lost>>
    PROVE  CheckInv'
<1> USE DEF CheckInv, CheckTypes
<1>1. line[t] = "decrease" /\ at[t] = "out"
  BY DEF Running
<1>2. error' = [error EXCEPT ![t] = TRUE] /\ line' = [line EXCEPT ![t] = "bail1"]
  BY <1>1, BailIs
<1>3. line[Zero] \notin First \cup {"start"} /\ ~ error[t]
  BY <1>1, Scheduled DEF LinesInStep
<1>4. CheckTypes' /\ LinesInStep' /\ LoopsCounted'
  BY <1>1, <1>2, <1>3 DEF Lines, LinesInStep, LoopsCounted, First, Second, Last
<1>5. fault' = "torn" => Torn'
  BY <1>1, <1>2, <1>3, SameLeft DEF Torn, First
<1> QED
  BY <1>2, <1>4, <1>5

\* One more turn of the loop.
LEMMA LoopedFacts ==
    ASSUME IInv, CheckInv, NEW t \in Threads, at[t] = "out", line[t] \in {"decrease", "torn"},
           Looped(t), counter' \in Nat, lost' \in BOOLEAN,
           UNCHANGED <<fault, at, entered, last, value, error>>
    PROVE  /\ CheckTypes' /\ LinesInStep' /\ LoopsCounted'
           /\ line' = [line EXCEPT ![t] = "loop"]
           /\ line[Zero] \notin First \cup {"start"}
           /\ line[Zero] = "return" => error[Zero]
           /\ Left' = Left - 1 /\ Left' \in Nat /\ Left \in Nat
<1> USE DEF CheckInv, CheckTypes
<1>1. /\ line' = [line EXCEPT ![t] = "loop"] /\ i' = [i EXCEPT ![t] = @ + 1]
      /\ i[t] < NbTx /\ ~ error[t]
  BY DEF Looped, NextLine, LoopsCounted, LinesInStep
<1>2. line[Zero] \notin First \cup {"start"}
  BY Scheduled
<1>3. line[Zero] = "return" => error[Zero]
  BY DEF LoopsCounted, Last
<1>4. Left' = Left - 1
  BY <1>1, OneMoreDone
<1>5. Left \in Nat /\ Left' \in Nat
  BY <1>1, <1>4, DonesCounted DEF Left
<1>6. CheckTypes' /\ LinesInStep' /\ LoopsCounted'
  BY <1>1, <1>2 DEF Lines, LinesInStep, LoopsCounted, First, Second, Last
<1> QED
  BY <1>1, <1>2, <1>3, <1>4, <1>5, <1>6

LEMMA DecreaseSafe ==
    ASSUME IInv, CheckInv, NEW t \in Threads, decrease(t)
    PROVE  CheckInv'
<1> USE DEF CheckInv, CheckTypes
<1>1. /\ Running(t, "decrease") /\ line[t] = "decrease" /\ at[t] = "out"
      /\ fault # "torn" /\ UNCHANGED <<fault, at, entered, last, value, lost>>
  BY DEF decrease, Running, barrier
<1>2. PICK v \in Reads :
        IF Rose(v, last[t]) THEN Bail(t) /\ UNCHANGED <<counter, i>>
        ELSE counter' = Decreased(v) /\ Looped(t) /\ UNCHANGED error
  BY DEF decrease
<1>3. v \in Nat /\ (fault = "none" => v = counter)
  BY DonesCounted DEF Reads
<1>4. CASE Rose(v, last[t])
  <2>1. fault # "none"
    BY <1>1, <1>3, <1>4 DEF Rose, Isolated
  <2> QED
    BY <1>1, <1>2, <1>4, <2>1, RoseSafe
<1>5. CASE ~ Rose(v, last[t])
  <2>1. counter' = Decreased(v) /\ Looped(t) /\ UNCHANGED error
    BY <1>2, <1>5
  <2>2. counter' \in Nat
    BY <1>3, <2>1, DonesCounted DEF Decreased
  <2>3. /\ CheckTypes' /\ LinesInStep' /\ LoopsCounted'
        /\ line' = [line EXCEPT ![t] = "loop"]
        /\ line[Zero] \notin First \cup {"start"}
        /\ Left' = Left - 1 /\ Left' \in Nat /\ Left \in Nat
    BY <1>1, <2>1, <2>2, LoopedFacts
  <2>4. ASSUME fault = "none" PROVE Isolated'
    <3>1. v = Left /\ v = counter
      BY <1>3, <2>3, <2>4 DEF Isolated, First
    <3>2. counter' = v - 1
      BY <1>3, <2>1, <2>3, <3>1 DEF Decreased
    <3> QED
      BY <1>1, <2>1, <2>3, <2>4, <3>1, <3>2 DEF Isolated
  <2> QED
    BY <1>1, <2>3, <2>4
<1> QED
  BY <1>4, <1>5

LEMMA TornReadSafe ==
    ASSUME IInv, CheckInv, NEW t \in Threads, torn_read(t)
    PROVE  CheckInv'
<1> USE DEF CheckInv, CheckTypes
<1>1. /\ Running(t, "decrease") /\ line[t] = "decrease" /\ at[t] = "out"
      /\ fault = "torn" /\ UNCHANGED <<fault, at, entered, counter, i, last, lost>>
  BY DEF torn_read, Running, barrier
<1>2. CASE Bail(t) /\ UNCHANGED value
  BY <1>1, <1>2, RoseSafe
<1>3. CASE /\ value' = [value EXCEPT ![t] = counter]
           /\ line' = [line EXCEPT ![t] = "torn"] /\ UNCHANGED error
  <2>1. line[Zero] \notin First \cup {"start"} /\ ~ error[t] /\ i[t] < NbTx
    BY <1>1, Scheduled DEF LinesInStep, LoopsCounted
  <2>2. CheckTypes' /\ LinesInStep' /\ LoopsCounted'
    BY <1>1, <1>3, <2>1 DEF Lines, LinesInStep, LoopsCounted, First, Second, Last
  <2>3. Torn'
    BY <1>1, <1>3, <2>1, SameLeft DEF Torn, First
  <2> QED
    BY <1>1, <2>2, <2>3
<1> QED
  BY <1>2, <1>3 DEF torn_read, NextLine

LEMMA TornWriteSafe ==
    ASSUME IInv, CheckInv, NEW t \in Threads, torn_write(t)
    PROVE  CheckInv'
<1> USE DEF CheckInv, CheckTypes
<1>1. /\ line[t] = "torn" /\ at[t] = "out" /\ fault = "torn"
      /\ counter' = Decreased(value[t]) /\ Looped(t)
      /\ lost' = (lost \/ counter # value[t])
      /\ UNCHANGED <<fault, at, entered, last, value, error>>
  BY DEF torn_write, Running, barrier
<1>2. counter' \in Nat /\ lost' \in BOOLEAN
  BY <1>1, DonesCounted DEF Decreased
<1>3. /\ CheckTypes' /\ LinesInStep' /\ LoopsCounted'
      /\ line' = [line EXCEPT ![t] = "loop"]
      /\ line[Zero] \notin First \cup {"start"}
      /\ line[Zero] = "return" => error[Zero]
      /\ Left' = Left - 1 /\ Left' \in Nat /\ Left \in Nat
  BY <1>1, <1>2, LoopedFacts
<1>4. value[t] >= Left /\ (lost' => value[t] > Left)
  BY <1>1 DEF Torn
<1>5. counter' >= Left' /\ (lost' => counter' > Left')
  <2>1. CASE value[t] = 0
    <3>1. counter' = init_counter + 1 /\ Left' < init_counter + 1
      BY <1>1, <1>3, <2>1, DonesCounted DEF Decreased, Left
    <3> QED
      BY <1>2, <1>3, <3>1
  <2>2. CASE value[t] # 0
    <3>1. counter' = value[t] - 1
      BY <1>1, <2>2 DEF Decreased
    <3> QED
      BY <1>3, <1>4, <3>1
  <2> QED
    BY <2>1, <2>2
<1>6. ASSUME NEW u \in Threads, line'[u] = "torn"
      PROVE  value'[u] > Left'
  BY <1>1, <1>3, <1>6 DEF Torn
<1>7. Torn'
  BY <1>1, <1>3, <1>5, <1>6 DEF Torn, First
<1> QED
  BY <1>1, <1>3, <1>7

LEMMA FinalSafe ==
    ASSUME IInv, CheckInv, NEW t \in Threads, final(t)
    PROVE  CheckInv'
<1> USE DEF CheckInv, CheckTypes
<1>1. /\ line[t] = "final" /\ at[t] = "out" /\ line' = [line EXCEPT ![t] = "return"]
      /\ UNCHANGED <<fault, at, entered, counter, i, last, value, lost>>
  BY DEF final, Running, NextLine, barrier
<1>2. PICK v \in Reads : error' = [error EXCEPT ![t] = (t = Zero /\ Remains(v))]
  BY DEF final
<1>3. (\A u \in Threads : line[u] \in Last) /\ i[t] = NbTx /\ ~ error[t]
  BY <1>1, Scheduled DEF Last, LoopsCounted, LinesInStep
<1>4. CheckTypes' /\ LinesInStep' /\ LoopsCounted'
  BY <1>1, <1>2, <1>3 DEF Lines, LinesInStep, LoopsCounted, First, Second, Last
<1>5. ASSUME \A u \in Threads : ~ error[u] PROVE Left = 0
  <2>1. \A u \in Threads : i[u] = NbTx
    BY <1>3, <1>5 DEF Last, LoopsCounted
  <2> QED
    BY <2>1, DonesCounted DEF Left
<1>6. ASSUME fault = "none" PROVE Isolated'
  <2>1. v = 0
    BY <1>3, <1>5, <1>6 DEF Reads, Isolated, Last
  <2>2. \A u \in Threads : ~ error'[u]
    BY <1>2, <1>6, <2>1 DEF Isolated, Remains
  <2> QED
    BY <1>1, <1>6, <2>2, SameLeft DEF Isolated
<1>7. ASSUME fault = "torn" PROVE Torn'
  <2>1. ASSUME lost, line'[Zero] = "return" PROVE \E u \in Threads : error'[u]
    <3>1. CASE \E u \in Threads : error[u]
      BY <1>2, <1>3, <3>1
    <3>2. CASE t = Zero /\ \A u \in Threads : ~ error[u]
      <4>1. v = counter /\ v > 0
        BY <1>1, <1>5, <1>7, <2>1, <3>2 DEF Reads, Torn
      <4> QED
        <5>1. t = Zero /\ Remains(v)
          BY <3>2, <4>1 DEF Remains
        <5>2. error' = [error EXCEPT ![t] = TRUE]
          BY <1>2, <5>1
        <5> QED
          BY <5>2
    <3>3. CASE t # Zero /\ \A u \in Threads : ~ error[u]
      BY <1>1, <1>7, <2>1, <3>3 DEF Torn
    <3> QED
      BY <3>1, <3>2, <3>3
  <2> QED
    BY <1>1, <1>3, <1>7, <2>1, SameLeft DEF Torn, Last
<1> QED
  BY <1>1, <1>4, <1>6, <1>7

-----------------------------------------------------------------------------
(* The invariant of the check. *)

LEMMA InitCheck == Init => IInv /\ CheckInv
<1> SUFFICES ASSUME Init PROVE CheckInv
  BY InitInv DEF Init
<1>1. cardinal \in Nat
  BY FS_CardinalityType DEF cardinal
<1>2. init_counter \in Nat
  BY <1>1 DEF init_counter
<1>3. CheckTypes
  <2>1. error \in [Threads -> BOOLEAN] /\ lost \in BOOLEAN
    BY Zenon DEF Init
  <2>2. i \in [Threads -> 0..NbTx]
    BY DEF Init
  <2> QED
    BY <1>2, <2>1, <2>2 DEF Init, CheckTypes, Lines
<1>4. LinesInStep
  BY DEF Init, BarrierInit, LinesInStep, First, Second, Last
<1>5. LoopsCounted
  BY DEF Init, LoopsCounted
<1>6. Isolated /\ Torn /\ ~ lost /\ \A t \in Threads : line[t] # "torn"
  BY DEF Init, Isolated, Torn
<1> QED
  BY <1>3, <1>4, <1>5, <1>6 DEF CheckInv

LEMMA NextCheck == IInv /\ CheckInv /\ [CheckNext]_vars => IInv' /\ CheckInv'
<1> SUFFICES ASSUME IInv, CheckInv, [CheckNext]_vars PROVE IInv' /\ CheckInv'
  OBVIOUS
<1>1. ASSUME NEW t \in Threads, Work(t) PROVE CheckInv' /\ BarrierStep
  <2>1. CASE start(t) \/ ready(t) \/ third(t) \/ bail1(t) \/ bail2(t)
    BY <2>1, CallSyncSafe DEF BarrierStep, start, ready, third, bail1, bail2, CallSync
  <2>2. CASE init_tx(t) \/ verify(t) \/ fetch(t)
    BY <2>2, InitTxSafe, VerifySafe, FetchSafe DEF BarrierStep, init_tx, verify, fetch
  <2>3. CASE decrease(t) \/ torn_read(t) \/ torn_write(t) \/ final(t)
    BY <2>3, DecreaseSafe, TornReadSafe, TornWriteSafe, FinalSafe
    DEF BarrierStep, decrease, torn_read, torn_write, final
  <2> QED
    BY <1>1, <2>1, <2>2, <2>3 DEF Work
<1>2. ASSUME NEW t \in Threads, InBarrier(t) PROVE CheckInv' /\ BarrierStep
  BY <1>2, InBarrierSafe DEF BarrierStep, InBarrier
<1>3. ASSUME UNCHANGED vars PROVE CheckInv' /\ BarrierStep
  <2>1. UNCHANGED <<barrier, fault, counter, line, i, last, value, error, lost, at, entered>>
    BY <1>3 DEF vars, workers, barrier
  <2> QED
    BY <2>1, SameLeft
    DEF BarrierStep, CheckInv, CheckTypes, LinesInStep, LoopsCounted, Isolated, Torn
<1>4. CheckInv' /\ BarrierStep
  BY <1>1, <1>2, <1>3 DEF CheckNext, Spinning, Finished
<1> QED
  BY <1>4, NextInv

LEMMA CheckInvariance == CheckSpec => [](IInv /\ CheckInv)
BY InitCheck, NextCheck, PTL DEF CheckSpec

\* The barrier also separates the phases of check, whose error returns make up
\* for the calls of sync they leave out.
THEOREM CheckSeparated == CheckSpec => []Separates
BY CheckInvariance, Separated, PTL

\* A library whose transactions are isolated passes the check: no worker ever
\* returns a message (NoFalseAlarm), for any number of workers and turns.
THEOREM CorrectPasses == CheckSpec => []NoFalseAlarm
<1>1. CheckInv => NoFalseAlarm
  BY DEF CheckInv, Isolated, NoFalseAlarm
<1> QED
  BY <1>1, CheckInvariance, PTL

\* A library that overwrites a decrement is found out (Detects): the counter is
\* too large from then on, and is not zero when worker 0 looks at it.
THEOREM LostIsDetected == CheckSpec => []Detects
<1>1. CheckInv => Detects
  BY DEF CheckInv, CheckTypes, Torn, Detects, Returned, Running
<1> QED
  BY <1>1, CheckInvariance, PTL
=============================================================================
