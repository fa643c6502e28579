------------------------- MODULE SyncExamples_proofs -------------------------
(***************************************************************************)
(* Theorems about the example programs of module SyncExamples, for any     *)
(* number of threads and rounds and any size of the buffer: how much a     *)
(* counter may lose and when it loses nothing (CountsRight), one leader    *)
(* per round (OneLeader), every round handed over whole (HandedOver) and   *)
(* nothing read that happens-before does not order (Ordered).              *)
(***************************************************************************)
EXTENDS SyncExamples, Integers, FiniteSetTheorems, TLAPS

-----------------------------------------------------------------------------
(* The counters *)

\* Threads that have stored in this round, and not ended it yet.
AfterStore == {"stored", "counted"}

\* The increments, and those that have been stored; a call of the playground's
\* shared_access is over when its round is.
All == Threads \X (0 .. RUNS - 1)

Stored == {p \in All : \/ p[2] < round[p[1]]
                       \/ p[2] = round[p[1]] /\ pc[p[1]] \in AfterStore}

Called == {p \in All : p[2] < round[p[1]]}

CounterTypes ==
    /\ program \in C!Programs
    /\ pc \in [Threads -> {"next", "loaded", "locked", "stored", "counted"}]
    /\ round \in [Threads -> 0 .. RUNS]
    /\ \A t \in Threads : pc[t] # "next" => round[t] < RUNS
    /\ counter \in Nat /\ local \in [Threads -> Nat] /\ check_counter \in Nat
    /\ program \in {"counter1", "counter3", "counter4"} =>
          \A t \in Threads : pc[t] \notin AfterStore
    /\ program # "counter2" => \A t \in Threads : pc[t] # "locked"

\* No more is counted than has been stored ...
Upper ==
    /\ counter <= Cardinality(Stored)
    /\ \A t \in Threads : pc[t] = "loaded" => local[t] <= Cardinality(Stored)

\* ... and at least two: whoever stores last has stored before it loaded.
Lower ==
    /\ Stored # {} => counter >= 1
    /\ \A t \in Threads : (pc[t] = "loaded" /\ round[t] >= 1) => local[t] >= 1
    /\ (RUNS >= 2 /\ \A t \in Threads : <<t, RUNS - 1>> \in Stored) => counter >= 2

\* With a lock or an atomic addition nothing gets lost.
Exact == program \in {"counter2", "counter4"} => counter = Cardinality(Stored)

CounterLocked ==
    program = "counter2" =>
        /\ \A t \in Threads : pc[t] # "next" <=> mutex = t
        /\ \A t \in Threads : pc[t] = "loaded" => local[t] = counter

CallsCounted == check_counter = IF program = "playground" THEN Cardinality(Called) ELSE 0

CounterVerdict ==
    verdict # "none" =>
        /\ \A t \in Threads : pc[t] = "next" /\ round[t] = RUNS
        /\ verdict = IF counter = C!Expected THEN "correct" ELSE "wrong"

CounterInv ==
    CounterTypes /\ Upper /\ Lower /\ Exact /\ CounterLocked /\ CallsCounted /\ CounterVerdict

\* Module Counter has the Cardinality of FiniteSets.
LEMMA SameCardinality == \A S : C!Cardinality(S) = Cardinality(S)
BY DEF Cardinality, C!Cardinality

LEMMA Constants ==
    /\ IsFiniteSet(Threads) /\ Threads # {} /\ RUNS \in Nat /\ RUNS >= 1
    /\ IsFiniteSet(All) /\ C!Expected \in Nat /\ Cardinality(All) = C!Expected
<1>1. IsFiniteSet(Threads) /\ Threads # {} /\ RUNS \in Nat /\ RUNS >= 1
  BY ExampleConstantsOk
<1>2. IsFiniteSet(0 .. RUNS - 1) /\ Cardinality(0 .. RUNS - 1) = RUNS
  <2>1. 0 \in Int /\ RUNS - 1 \in Int /\ 0 <= RUNS - 1 /\ (RUNS - 1) - 0 + 1 = RUNS
    BY <1>1
  <2>. QED
    BY <1>1, <2>1, FS_Interval
<1>3. /\ IsFiniteSet(All) /\ Cardinality(All) = Cardinality(Threads) * Cardinality(0 .. RUNS - 1)
  BY <1>1, <1>2, FS_Product DEF All
<1>4. PICK n : n = Cardinality(Threads)
  OBVIOUS
<1>5. n \in Nat
  BY <1>1, <1>4, FS_CardinalityType
<1>6. n * RUNS = RUNS * n /\ RUNS * n \in Nat
  BY <1>1, <1>5
<1>7. C!Expected = RUNS * n
  BY <1>4, SameCardinality DEF C!Expected
<1>8. Cardinality(All) = n * RUNS
  BY <1>2, <1>3, <1>4
<1>. QED
  BY <1>1, <1>3, <1>6, <1>7, <1>8

\* What there is to count.
LEMMA Counted ==
    ASSUME NEW S \in SUBSET All
    PROVE  /\ IsFiniteSet(S) /\ Cardinality(S) \in Nat /\ Cardinality(S) <= C!Expected
           /\ S = {} => Cardinality(S) = 0
           /\ S = All => Cardinality(S) = C!Expected
           /\ \A x : x \notin S => Cardinality(S \cup {x}) = Cardinality(S) + 1
BY Constants, FS_Subset, FS_CardinalityType, FS_EmptySet, FS_AddElement

LEMMA AllStored ==
    ASSUME CounterTypes
    PROVE  /\ Stored \in SUBSET All /\ Called \in SUBSET All
           /\ (\A t \in Threads : round[t] = RUNS) => Stored = All /\ Called = All
<1>1. Stored \in SUBSET All /\ Called \in SUBSET All
  BY DEF Stored, Called
<1>2. ASSUME \A t \in Threads : round[t] = RUNS PROVE All \subseteq Called
  BY <1>2, Constants DEF Called, All
<1>3. Called \subseteq Stored
  BY DEF Stored, Called
<1>. QED
  BY <1>1, <1>2, <1>3

\* A step that stores nothing, though it may load.
LEMMA QuietKeeps ==
    ASSUME CounterTypes, Upper, Lower, UNCHANGED counter, Stored' = Stored,
           \A u \in Threads : pc'[u] = "loaded" =>
               /\ round'[u] = round[u]
               /\ (pc[u] = "loaded" /\ local'[u] = local[u]) \/ local'[u] = counter
    PROVE  Upper' /\ Lower'
<1>1. Upper'
  BY DEF Upper
<1>2. ASSUME NEW u \in Threads, round[u] >= 1 PROVE Stored # {}
  <2>1. <<u, 0>> \in Stored
    BY <1>2, Constants DEF Stored, All, CounterTypes
  <2>. QED
    BY <2>1
<1>3. Lower'
  BY <1>2 DEF Lower
<1>. QED
  BY <1>1, <1>3

\* A step that stores the increment of what thread t has loaded, or of the counter.
LEMMA StoreKeeps ==
    ASSUME CounterTypes, Upper, Lower, NEW t \in Threads, round[t] < RUNS,
           pc[t] \notin AfterStore,
           Stored' = Stored \cup {<<t, round[t]>>},
           NEW c, c = counter \/ (pc[t] = "loaded" /\ c = local[t]), counter' = c + 1,
           \A u \in Threads : pc'[u] = "loaded" =>
               pc[u] = "loaded" /\ local'[u] = local[u] /\ round'[u] = round[u]
    PROVE  /\ Upper' /\ Lower'
           /\ Cardinality(Stored') = Cardinality(Stored) + 1
<1>1. PICK n : n = Cardinality(Stored)
  OBVIOUS
<1>2. <<t, round[t]>> \notin Stored
  BY DEF Stored, CounterTypes
<1>3. n \in Nat /\ Cardinality(Stored') = n + 1
  BY <1>1, <1>2, AllStored, Counted
<1>4. c \in Nat /\ c <= n
  BY <1>1 DEF Upper, CounterTypes
<1>5. Upper'
  <2>1. counter' <= n + 1
    BY <1>3, <1>4
  <2>2. ASSUME NEW u \in Threads, pc'[u] = "loaded" PROVE local'[u] <= n + 1
    BY <1>1, <1>3, <2>2 DEF Upper, CounterTypes
  <2>. QED
    BY <1>3, <2>1, <2>2 DEF Upper
<1>6. counter' >= 1
  BY <1>4
<1>7. ASSUME RUNS >= 2, <<t, RUNS - 1>> \in Stored' PROVE counter' >= 2
  <2>1. <<t, RUNS - 1>> \notin Stored
    BY Constants DEF Stored, CounterTypes
  <2>2. round[t] = RUNS - 1
    BY <1>7, <2>1
  <2>3. <<t, 0>> \in Stored /\ round[t] >= 1
    BY <1>7, <2>2, Constants DEF Stored, All
  <2>4. c >= 1
    BY <2>3 DEF Lower
  <2>. QED
    BY <1>4, <2>4
<1>8. Lower'
  BY <1>6, <1>7 DEF Lower
<1>. QED
  BY <1>1, <1>3, <1>5, <1>8

-----------------------------------------------------------------------------
(* The counters: the steps *)

\* A thread goes to place l of the same round, without storing.
LEMMA Stays ==
    ASSUME CounterTypes, NEW t \in Threads, NEW l, pc' = [pc EXCEPT ![t] = l], UNCHANGED round,
           l \in AfterStore <=> pc[t] \in AfterStore
    PROVE  Stored' = Stored /\ Called' = Called
BY DEF Stored, Called, All, CounterTypes

\* It ends a round in which it has stored before.
LEMMA Ends ==
    ASSUME CounterTypes, NEW t \in Threads, C!EndRound(t), pc[t] \in AfterStore
    PROVE  /\ Stored' = Stored /\ Called' = Called \cup {<<t, round[t]>>}
           /\ <<t, round[t]>> \notin Called
<1>1. round[t] < RUNS /\ round[t] \in 0 .. RUNS - 1
  BY Constants DEF CounterTypes, AfterStore
<1>2. /\ pc' = [pc EXCEPT ![t] = "next"] /\ round' = [round EXCEPT ![t] = @ + 1]
  BY DEF C!EndRound
<1>3. /\ pc'[t] = "next" /\ round'[t] = round[t] + 1
      /\ \A u \in Threads : u # t => pc'[u] = pc[u] /\ round'[u] = round[u]
      /\ \A u \in Threads : round[u] \in 0 .. RUNS
  BY <1>2 DEF CounterTypes
<1>4. ASSUME NEW p \in All
      PROVE  /\ p \in Stored' <=> p \in Stored
             /\ p \in Called' <=> p \in Called \cup {<<t, round[t]>>}
  <2>1. PICK u \in Threads, r \in 0 .. RUNS - 1 : p = <<u, r>>
    BY <1>4 DEF All
  <2>2. /\ p \in Stored <=> (r < round[u] \/ (r = round[u] /\ pc[u] \in AfterStore))
        /\ p \in Stored' <=> (r < round'[u] \/ (r = round'[u] /\ pc'[u] \in AfterStore))
        /\ p \in Called <=> r < round[u]
        /\ p \in Called' <=> r < round'[u]
    BY <2>1 DEF Stored, Called, All
  <2>3. CASE u = t
    BY <1>1, <1>3, <2>1, <2>2, <2>3 DEF AfterStore
  <2>4. CASE u # t
    BY <1>3, <2>1, <2>2, <2>4
  <2>. QED
    BY <2>3, <2>4
<1>5. <<t, round[t]>> \in All /\ <<t, round[t]>> \notin Called
  BY <1>1 DEF All, Called
<1>. QED
  BY <1>4, <1>5 DEF Stored, Called

\* It stores, and may end its round with that.
LEMMA Stores ==
    ASSUME CounterTypes, NEW t \in Threads, round[t] < RUNS, pc[t] \notin AfterStore,
           C!EndRound(t) \/ \E l \in AfterStore : C!Goto(t, l)
    PROVE  Stored' = Stored \cup {<<t, round[t]>>}
<1>1. round[t] \in 0 .. RUNS - 1
  BY Constants DEF CounterTypes
<1>2. /\ \/ pc'[t] = "next" /\ round'[t] = round[t] + 1
         \/ pc'[t] \in AfterStore /\ round'[t] = round[t]
      /\ \A u \in Threads : u # t => pc'[u] = pc[u] /\ round'[u] = round[u]
      /\ \A u \in Threads : round[u] \in 0 .. RUNS
  BY DEF C!EndRound, C!Goto, CounterTypes
<1>3. ASSUME NEW p \in All
      PROVE  p \in Stored' <=> p \in Stored \cup {<<t, round[t]>>}
  <2>1. PICK u \in Threads, r \in 0 .. RUNS - 1 : p = <<u, r>>
    BY <1>3 DEF All
  <2>2. /\ p \in Stored <=> (r < round[u] \/ (r = round[u] /\ pc[u] \in AfterStore))
        /\ p \in Stored' <=> (r < round'[u] \/ (r = round'[u] /\ pc'[u] \in AfterStore))
    BY <2>1 DEF Stored, All
  <2>3. CASE u = t
    BY <1>1, <1>2, <2>1, <2>2, <2>3 DEF AfterStore
  <2>4. CASE u # t
    BY <1>2, <2>1, <2>2, <2>4
  <2>. QED
    BY <2>3, <2>4
<1>4. <<t, round[t]>> \in All
  BY <1>1 DEF All
<1>. QED
  BY <1>3, <1>4 DEF Stored

-----------------------------------------------------------------------------

\* A plain increment, by two steps; where the store leads depends on the program.
LEMMA LoadKeeps ==
    ASSUME CounterInv, NEW t \in Threads, pc[t] \in {"next", "locked"}, round[t] < RUNS,
           C!load(t), C!Goto(t, "loaded"), UNCHANGED <<program, verdict>>,
           program = "counter2" => pc[t] = "locked", program # "counter4"
    PROVE  CounterInv'
<1>1. /\ pc' = [pc EXCEPT ![t] = "loaded"] /\ local' = [local EXCEPT ![t] = counter]
      /\ UNCHANGED <<round, counter, check_counter, mutex>>
  BY DEF C!Goto, C!load
<1>2. Stored' = Stored /\ Called' = Called
  BY <1>1, Stays DEF CounterInv, AfterStore
<1>3. CounterTypes'
  BY <1>1 DEF CounterInv, CounterTypes, AfterStore
<1>4. Upper' /\ Lower'
  BY <1>1, <1>2, QuietKeeps DEF CounterInv, CounterTypes
<1>5. CounterLocked'
  BY <1>1 DEF CounterInv, CounterTypes, CounterLocked
<1>6. verdict = "none"
  BY Constants DEF CounterInv, CounterVerdict
<1>. QED
  BY <1>1, <1>2, <1>3, <1>4, <1>5, <1>6 DEF CounterInv, Exact, CallsCounted, CounterVerdict

LEMMA StoreKeepsAll ==
    ASSUME CounterInv, NEW t \in Threads, pc[t] = "loaded", C!store(t),
           UNCHANGED <<program, verdict>>,
           \/ program \in {"counter1", "counter3"} /\ C!EndRound(t)
           \/ program = "counter2" /\ C!Goto(t, "stored")
           \/ program = "playground" /\ C!Goto(t, "counted")
    PROVE  CounterInv'
<1>1. counter' = local[t] + 1 /\ UNCHANGED <<local, check_counter, mutex>>
  BY DEF C!store
<1>2. round[t] < RUNS /\ pc[t] \notin AfterStore
  BY DEF CounterInv, CounterTypes, AfterStore
<1>3. Stored' = Stored \cup {<<t, round[t]>>}
  BY <1>2, Stores DEF CounterInv, AfterStore
<1>4. \A u \in Threads : pc'[u] = "loaded" =>
               u # t /\ pc[u] = "loaded" /\ local'[u] = local[u] /\ round'[u] = round[u]
  BY <1>1 DEF CounterInv, CounterTypes, C!EndRound, C!Goto
<1>5. Upper' /\ Lower' /\ Cardinality(Stored') = Cardinality(Stored) + 1
  BY <1>1, <1>2, <1>3, <1>4, StoreKeeps DEF CounterInv
<1>6. CounterTypes'
  BY <1>1, <1>2, Constants DEF CounterInv, CounterTypes, C!EndRound, C!Goto, AfterStore
<1>7. program = "counter2" => local[t] = counter /\ mutex = t
  BY DEF CounterInv, CounterLocked
<1>8. Exact'
  BY <1>1, <1>5, <1>7 DEF CounterInv, Exact
<1>9. CounterLocked'
  <2>1. CASE program = "counter2"
    <3>1. pc' = [pc EXCEPT ![t] = "stored"]
      BY <2>1 DEF C!Goto
    <3>2. \A u \in Threads : pc[u] # "next" <=> mutex = u
      BY <2>1 DEF CounterInv, CounterLocked
    <3>3. \A u \in Threads : pc'[u] # "next" <=> mutex = u
      BY <1>2, <3>1, <3>2 DEF CounterInv, CounterTypes
    <3>4. \A u \in Threads : pc'[u] # "loaded"
      BY <1>4, <1>7, <3>2
    <3>. QED
      BY <1>1, <3>3, <3>4 DEF CounterLocked
  <2>2. CASE program # "counter2"
    BY <2>2 DEF CounterLocked
  <2>. QED
    BY <2>1, <2>2
<1>10. CallsCounted'
  <2>1. CASE program = "playground"
    <3>1. Called' = Called
      BY <2>1 DEF Called, C!Goto
    <3>. QED
      BY <1>1, <2>1, <3>1 DEF CounterInv, CallsCounted
  <2>. QED
    BY <1>1, <2>1 DEF CounterInv, CallsCounted
<1>11. verdict = "none"
  BY <1>2, Constants DEF CounterInv, CounterVerdict
<1>. QED
  BY <1>5, <1>6, <1>8, <1>9, <1>10, <1>11 DEF CounterInv, CounterVerdict

LEMMA AddKeeps ==
    ASSUME CounterInv, NEW t \in Threads, program = "counter4", C!OneAccess(t),
           UNCHANGED <<program, verdict>>
    PROVE  CounterInv'
<1>1. /\ counter' = counter + 1 /\ UNCHANGED <<local, check_counter, mutex>>
      /\ pc[t] = "next" /\ round[t] < RUNS
      /\ pc' = [pc EXCEPT ![t] = "next"] /\ round' = [round EXCEPT ![t] = @ + 1]
  BY DEF C!OneAccess, C!atomic_fetch_add, C!At, C!EndRound
<1>2. Stored' = Stored \cup {<<t, round[t]>>}
  BY <1>1, Stores DEF CounterInv, AfterStore, C!OneAccess
<1>3. \A u \in Threads : pc'[u] = "loaded" =>
               pc[u] = "loaded" /\ local'[u] = local[u] /\ round'[u] = round[u]
  BY <1>1 DEF CounterInv, CounterTypes
<1>4. Upper' /\ Lower' /\ Cardinality(Stored') = Cardinality(Stored) + 1
  BY <1>1, <1>2, <1>3, StoreKeeps DEF CounterInv, AfterStore
<1>5. CounterTypes'
  BY <1>1, Constants DEF CounterInv, CounterTypes, AfterStore
<1>6. verdict = "none"
  BY <1>1, Constants DEF CounterInv, CounterVerdict
<1>. QED
  BY <1>1, <1>4, <1>5, <1>6 DEF CounterInv, Exact, CounterLocked, CallsCounted, CounterVerdict

\* The lock of counter2, and the end of a call in the playground.
LEMMA LockKeeps ==
    ASSUME CounterInv, NEW t \in Threads, program = "counter2", UNCHANGED <<program, verdict>>,
           C!At(t, "next"), C!lock_acquire(t), C!Goto(t, "locked"), UNCHANGED C!values
    PROVE  CounterInv'
<1>1. /\ pc[t] = "next" /\ round[t] < RUNS /\ mutex = NoOne /\ mutex' = t
      /\ pc' = [pc EXCEPT ![t] = "locked"] /\ UNCHANGED <<round, counter, local, check_counter>>
  BY DEF C!At, C!lock_acquire, C!Goto, C!values
<1>2. Stored' = Stored /\ Called' = Called
  BY <1>1, Stays DEF CounterInv, AfterStore
<1>3. CounterTypes'
  BY <1>1 DEF CounterInv, CounterTypes, AfterStore
<1>4. \A u \in Threads : pc'[u] = "loaded" => pc[u] = "loaded"
  BY <1>1 DEF CounterInv, CounterTypes
<1>5. Upper' /\ Lower'
  BY <1>1, <1>2, <1>4, QuietKeeps DEF CounterInv
<1>6. CounterLocked'
  BY <1>1, ExampleConstantsOk DEF CounterInv, CounterTypes, CounterLocked
<1>7. verdict = "none"
  BY <1>1, Constants DEF CounterInv, CounterVerdict
<1>. QED
  BY <1>1, <1>2, <1>3, <1>5, <1>6, <1>7 DEF CounterInv, Exact, CallsCounted, CounterVerdict

LEMMA UnlockKeeps ==
    ASSUME CounterInv, NEW t \in Threads, program = "counter2", UNCHANGED <<program, verdict>>,
           C!At(t, "stored"), C!lock_release(t), C!EndRound(t), UNCHANGED C!values
    PROVE  CounterInv'
<1>1. /\ pc[t] = "stored" /\ mutex = t /\ mutex' = NoOne
      /\ pc' = [pc EXCEPT ![t] = "next"] /\ round' = [round EXCEPT ![t] = @ + 1]
      /\ UNCHANGED <<counter, local, check_counter>>
  BY DEF C!At, C!lock_release, C!EndRound, C!values
<1>2. Stored' = Stored
  BY <1>1, Ends DEF CounterInv, AfterStore
<1>3. CounterTypes'
  BY <1>1, Constants DEF CounterInv, CounterTypes, AfterStore
<1>4. \A u \in Threads : pc'[u] = "loaded" => pc[u] = "loaded" /\ round'[u] = round[u]
  BY <1>1 DEF CounterInv, CounterTypes
<1>5. Upper' /\ Lower'
  BY <1>1, <1>2, <1>4, QuietKeeps DEF CounterInv
<1>6. CounterLocked'
  BY <1>1, ExampleConstantsOk DEF CounterInv, CounterTypes, CounterLocked
<1>7. verdict = "none"
  BY <1>1 DEF CounterInv, CounterVerdict
<1>. QED
  BY <1>1, <1>2, <1>3, <1>5, <1>6, <1>7 DEF CounterInv, Exact, CallsCounted, CounterVerdict

LEMMA CallKeeps ==
    ASSUME CounterInv, NEW t \in Threads, program = "playground", UNCHANGED <<program, verdict>>,
           C!At(t, "counted"), C!EndRound(t), check_counter' = check_counter + 1,
           UNCHANGED <<counter, local, mutex>>
    PROVE  CounterInv'
<1>1. /\ pc[t] = "counted"
      /\ pc' = [pc EXCEPT ![t] = "next"] /\ round' = [round EXCEPT ![t] = @ + 1]
  BY DEF C!At, C!EndRound
<1>2. /\ Stored' = Stored /\ Called' = Called \cup {<<t, round[t]>>}
      /\ <<t, round[t]>> \notin Called
  BY <1>1, Ends DEF CounterInv, AfterStore
<1>3. CounterTypes'
  BY <1>1, Constants DEF CounterInv, CounterTypes, AfterStore
<1>4. \A u \in Threads : pc'[u] = "loaded" => pc[u] = "loaded" /\ round'[u] = round[u]
  BY <1>1 DEF CounterInv, CounterTypes
<1>5. Upper' /\ Lower'
  BY <1>1, <1>2, <1>4, QuietKeeps DEF CounterInv
<1>6. CallsCounted'
  <2>1. Cardinality(Called') = Cardinality(Called) + 1
    BY <1>2, AllStored, Counted DEF CounterInv
  <2>. QED
    BY <2>1 DEF CounterInv, CallsCounted
<1>7. verdict = "none"
  BY <1>1 DEF CounterInv, CounterVerdict
<1>. QED
  BY <1>1, <1>2, <1>3, <1>5, <1>6, <1>7 DEF CounterInv, Exact, CounterLocked, CounterVerdict

LEMMA MainKeeps ==
    ASSUME CounterInv, NEW e, C!main(e), UNCHANGED program,
           e = IF program = "playground" THEN check_counter ELSE C!Expected
    PROVE  CounterInv'
<1>1. /\ \A t \in Threads : pc[t] = "next" /\ round[t] = RUNS
      /\ verdict' = IF counter = e THEN "correct" ELSE "wrong"
      /\ UNCHANGED <<pc, round, mutex, counter, local, check_counter>>
  BY DEF C!main, C!AllReturned, C!values
<1>2. program = "playground" => check_counter = C!Expected
  BY <1>1, AllStored, Counted DEF CounterInv, CallsCounted
<1>3. e = C!Expected
  BY <1>2
<1>4. Stored' = Stored /\ Called' = Called
  BY <1>1 DEF Stored, Called
<1>5. C!Expected' = C!Expected
  BY SameCardinality DEF C!Expected
<1>6. CounterTypes' /\ Upper' /\ Lower'
  BY <1>1, <1>4 DEF CounterInv, CounterTypes, Upper, Lower
<1>7. CounterVerdict'
  BY <1>1, <1>3, <1>5 DEF CounterVerdict
<1>. QED
  BY <1>1, <1>4, <1>6, <1>7 DEF CounterInv, Exact, CounterLocked, CallsCounted

-----------------------------------------------------------------------------

LEMMA CounterStarts == Init /\ program \in C!Programs => CounterInv
<1>. SUFFICES ASSUME Init, program \in C!Programs PROVE CounterInv
  OBVIOUS
<1>1. /\ pc = [t \in Threads |-> "next"] /\ round = [t \in Threads |-> 0] /\ mutex = NoOne
      /\ verdict = "none" /\ counter = 0 /\ check_counter = 0 /\ local = [t \in Threads |-> 0]
  BY DEF Init, C!Init, E!Init, P!Init, C!Programs, E!Programs, P!Programs, C!Fresh, C!lock_init
<1>2. CounterTypes
  BY <1>1, Constants DEF CounterTypes, AfterStore
<1>3. Stored = {} /\ Called = {}
  BY <1>1 DEF Stored, Called, All, AfterStore
<1>4. Cardinality(Stored) = 0 /\ Cardinality(Called) = 0
  BY <1>3, FS_EmptySet
<1>. QED
  BY <1>1, <1>2, <1>3, <1>4, Constants, ExampleConstantsOk
     DEF CounterInv, Upper, Lower, Exact, CounterLocked, CallsCounted, CounterVerdict

LEMMA CounterNext == CounterInv /\ C!Next => CounterInv'
<1>. SUFFICES ASSUME CounterInv, C!Next PROVE CounterInv'
  OBVIOUS
<1>0. UNCHANGED program
  BY DEF C!Next
<1>1. CASE C!Counter1 \/ C!Counter3
  <2>1. program \in {"counter1", "counter3"}
    BY <1>1 DEF C!Counter1, C!Counter3
  <2>2. CASE C!main(C!Expected)
    BY <1>0, <2>1, <2>2, MainKeeps
  <2>3. ASSUME NEW t \in Threads, C!TwoAccesses(t), UNCHANGED verdict PROVE CounterInv'
    BY <1>0, <2>1, <2>3, LoadKeeps, StoreKeepsAll DEF C!TwoAccesses, C!At
  <2>. QED
    BY <1>1, <2>2, <2>3 DEF C!Counter1, C!Counter3, C!Thread
<1>2. CASE C!Counter2
  <2>1. program = "counter2"
    BY <1>2 DEF C!Counter2
  <2>2. CASE C!main(C!Expected)
    BY <1>0, <2>1, <2>2, MainKeeps
  <2>3. ASSUME NEW t \in Threads, C!Counter2Step(t), UNCHANGED verdict PROVE CounterInv'
    <3>1. CASE C!At(t, "locked") /\ C!load(t) /\ C!Goto(t, "loaded")
      <4>1. pc[t] = "locked" /\ round[t] < RUNS
        BY <3>1 DEF C!At, CounterInv, CounterTypes
      <4>. QED
        BY <1>0, <2>1, <2>3, <3>1, <4>1, LoadKeeps
    <3>2. CASE C!At(t, "loaded") /\ C!store(t) /\ C!Goto(t, "stored")
      BY <1>0, <2>1, <2>3, <3>2, StoreKeepsAll DEF C!At
    <3>. QED
      BY <1>0, <2>1, <2>3, <3>1, <3>2, LockKeeps, UnlockKeeps DEF C!Counter2Step
  <2>. QED
    BY <1>2, <2>2, <2>3 DEF C!Counter2, C!Thread
<1>3. CASE C!Counter4
  <2>1. program = "counter4"
    BY <1>3 DEF C!Counter4
  <2>2. CASE C!main(C!Expected)
    BY <1>0, <2>1, <2>2, MainKeeps
  <2>. QED
    BY <1>0, <1>3, <2>1, <2>2, AddKeeps DEF C!Counter4, C!Thread
<1>4. CASE C!Playground
  <2>1. program = "playground"
    BY <1>4 DEF C!Playground
  <2>2. CASE C!main(check_counter)
    BY <1>0, <2>1, <2>2, MainKeeps
  <2>3. ASSUME NEW t \in Threads, C!shared_access(t), UNCHANGED verdict PROVE CounterInv'
    BY <1>0, <2>1, <2>3, LoadKeeps, StoreKeepsAll, CallKeeps DEF C!shared_access, C!At
  <2>. QED
    BY <1>4, <2>2, <2>3 DEF C!Playground, C!Thread
<1>. QED
  BY <1>1, <1>2, <1>3, <1>4 DEF C!Next

LEMMA CounterRight == CounterInv => C!CountsRight
<1>. SUFFICES ASSUME CounterInv PROVE C!CountsRight
  OBVIOUS
<1>1. PICK e : e = C!Expected
  OBVIOUS
<1>2. e \in Nat /\ Cardinality(Stored) \in Nat /\ Cardinality(Stored) <= e
      /\ Cardinality(Called) \in Nat /\ Cardinality(Called) <= e
  BY <1>1, Constants, AllStored, Counted DEF CounterInv
<1>3. check_counter <= e
  BY <1>2 DEF CounterInv, CallsCounted
<1>4. ASSUME verdict # "none"
      PROVE  /\ counter \in (IF RUNS = 1 THEN 1 ELSE 2) .. e
             /\ verdict = "correct" <=> counter = e
             /\ program \in {"counter2", "counter4"} => verdict # "wrong"
  <2>1. /\ \A t \in Threads : pc[t] = "next" /\ round[t] = RUNS
        /\ verdict = IF counter = e THEN "correct" ELSE "wrong"
    BY <1>1, <1>4 DEF CounterInv, CounterVerdict
  <2>2. Stored = All /\ Cardinality(Stored) = e
    BY <1>1, <2>1, AllStored, Counted DEF CounterInv
  <2>3. \A t \in Threads : <<t, RUNS - 1>> \in Stored
    BY <2>2, Constants DEF All
  <2>4. counter \in Nat /\ counter <= e /\ counter >= 1 /\ (RUNS >= 2 => counter >= 2)
    BY <2>2, <2>3, Constants DEF CounterInv, CounterTypes, Upper, Lower
  <2>5. program \in {"counter2", "counter4"} => counter = e
    BY <2>2 DEF CounterInv, Exact
  <2>. QED
    BY <1>2, <2>1, <2>4, <2>5, Constants
<1>. QED
  BY <1>1, <1>3, <1>4 DEF C!CountsRight

-----------------------------------------------------------------------------
(* The elections *)

Turns == 0 .. RUNS - 1

ElectionTypes ==
    /\ program \in E!Programs
    /\ pc \in [Threads -> {"next", "vacant", "imposed", "locked", "counted"}]
    /\ round \in [Threads -> 0 .. RUNS]
    /\ \A t \in Threads : pc[t] # "next" => round[t] < RUNS
    /\ leader \in [Turns -> Threads \cup {NoOne}] /\ nb_leaders \in [Turns -> Nat]
    /\ program # "election2" => \A t \in Threads : pc[t] \notin {"locked", "counted"}
    /\ program = "election4" => \A t \in Threads : pc[t] # "vacant"

\* A round that somebody has left has a leader, and a leader has said so or will.
Passed ==
    \A t \in Threads : \A r \in Turns :
        (r < round[t] \/ (r = round[t] /\ pc[t] \in {"imposed", "counted"})) => leader[r] # NoOne

Said ==
    \A r \in Turns : leader[r] # NoOne =>
        nb_leaders[r] >= 1 \/ \E t \in Threads : pc[t] = "imposed" /\ round[t] = r

\* Where the test and the assignment are one, there is one leader.
Single ==
    program \in {"election2", "election4"} =>
        \A r \in Turns :
            /\ \A t \in Threads : (pc[t] = "imposed" /\ round[t] = r) =>
                                      leader[r] = t /\ nb_leaders[r] = 0
            /\ leader[r] = NoOne => nb_leaders[r] = 0
            /\ nb_leaders[r] <= 1

ElectionLocked ==
    program = "election2" => \A t \in Threads :
        /\ pc[t] # "next" <=> mutex = t
        /\ pc[t] = "vacant" => leader[round[t]] = NoOne

ElectionVerdict ==
    verdict # "none" =>
        /\ \A t \in Threads : pc[t] = "next" /\ round[t] = RUNS
        /\ program \in {"election2", "election4"} => verdict # "wrong"

ElectionInv ==
    ElectionTypes /\ Passed /\ Said /\ Single /\ ElectionLocked /\ ElectionVerdict

\* Module Election has the Cardinality of FiniteSets.
LEMMA ElectionCardinality == \A S : E!Cardinality(S) = Cardinality(S)
BY DEF Cardinality, E!Cardinality

\* A thread that has a round before it, or is in one, finds main waiting.
LEMMA NotJoined ==
    ASSUME ElectionInv, NEW t \in Threads, round[t] < RUNS
    PROVE  verdict = "none" /\ round[t] \in Turns
BY Constants DEF ElectionInv, ElectionTypes, ElectionVerdict, Turns

\* A thread moves without touching the arrays.
LEMMA MoveKeeps ==
    ASSUME ElectionInv, NEW t \in Threads, UNCHANGED <<program, verdict, leader, nb_leaders>>,
           round[t] < RUNS,
           pc[t] # "imposed",
           \/ E!EndRound(t) /\ leader[round[t]] # NoOne
           \/ \E l \in {"vacant", "locked", "counted"} :
                 /\ E!Goto(t, l)
                 /\ l = "vacant" => leader[round[t]] = NoOne /\ program # "election4"
                 /\ l = "counted" => leader[round[t]] # NoOne
                 /\ l # "vacant" => program = "election2",
           program = "election2" =>
              \/ pc[t] = "next" /\ pc'[t] # "next" /\ mutex = NoOne /\ mutex' = t
              \/ pc[t] # "next" /\ pc'[t] # "next" /\ UNCHANGED mutex
              \/ pc[t] # "next" /\ pc'[t] = "next" /\ mutex' = NoOne
    PROVE  ElectionInv'
<1>1. /\ verdict = "none" /\ round[t] \in Turns
      /\ \A u \in Threads : round[u] \in 0 .. RUNS
  BY NotJoined DEF ElectionInv, ElectionTypes
<1>2. /\ \/ pc'[t] = "next" /\ round'[t] = round[t] + 1 /\ leader[round[t]] # NoOne
         \/ /\ pc'[t] \in {"vacant", "locked", "counted"} /\ round'[t] = round[t]
            /\ pc'[t] = "vacant" => leader[round[t]] = NoOne /\ program # "election4"
            /\ pc'[t] = "counted" => leader[round[t]] # NoOne
            /\ pc'[t] # "vacant" => program = "election2"
      /\ \A u \in Threads : u # t => pc'[u] = pc[u] /\ round'[u] = round[u]
      /\ pc' = [u \in Threads |-> pc'[u]] /\ round' = [u \in Threads |-> round'[u]]
  BY DEF E!EndRound, E!Goto, ElectionInv, ElectionTypes
<1>3. ElectionTypes'
  <2>1. \A u \in Threads : /\ pc'[u] \in {"next", "vacant", "imposed", "locked", "counted"}
                           /\ round'[u] \in 0 .. RUNS
                           /\ pc'[u] # "next" => round'[u] < RUNS
                           /\ program # "election2" => pc'[u] \notin {"locked", "counted"}
                           /\ program = "election4" => pc'[u] # "vacant"
    BY <1>1, <1>2, Constants DEF ElectionInv, ElectionTypes
  <2>. QED
    BY <1>2, <2>1 DEF ElectionInv, ElectionTypes
<1>4. Passed'
  BY <1>1, <1>2 DEF ElectionInv, Passed, Turns
<1>5. Said'
  BY <1>2 DEF ElectionInv, Said
<1>6. Single'
  BY <1>2 DEF ElectionInv, Single
<1>7. ElectionLocked'
  BY <1>2, ExampleConstantsOk DEF ElectionInv, ElectionLocked
<1>. QED
  BY <1>1, <1>3, <1>4, <1>5, <1>6, <1>7 DEF ElectionInv, ElectionVerdict

\* A thread makes itself the leader.
LEMMA ImposeKeeps ==
    ASSUME ElectionInv, NEW t \in Threads, UNCHANGED <<program, verdict>>,
           round[t] < RUNS, E!Goto(t, "imposed"), E!impose(t), pc[t] \in {"next", "vacant"},
           program = "election2" => pc[t] = "vacant",
           program = "election4" => leader[round[t]] = NoOne
    PROVE  ElectionInv'
<1>1. verdict = "none" /\ round[t] \in Turns /\ t # NoOne
  BY NotJoined, ExampleConstantsOk
<1>2. /\ pc' = [pc EXCEPT ![t] = "imposed"] /\ leader' = [leader EXCEPT ![round[t]] = t]
      /\ UNCHANGED <<round, nb_leaders, mutex>>
  BY DEF E!Goto, E!impose
<1>3. ElectionTypes'
  BY <1>1, <1>2 DEF ElectionInv, ElectionTypes
<1>4. \A r \in Turns : leader'[r] = IF r = round[t] THEN t ELSE leader[r]
  BY <1>2 DEF ElectionInv, ElectionTypes
<1>5. \A u \in Threads : pc'[u] = IF u = t THEN "imposed" ELSE pc[u]
  BY <1>2 DEF ElectionInv, ElectionTypes
<1>6. Passed'
  BY <1>1, <1>2, <1>4, <1>5 DEF ElectionInv, Passed
<1>7. Said'
  <2>1. ASSUME NEW r \in Turns, leader'[r] # NoOne
        PROVE  nb_leaders[r] >= 1 \/ \E u \in Threads : pc'[u] = "imposed" /\ round[u] = r
    <3>1. CASE r = round[t]
      BY <1>5, <3>1
    <3>2. CASE r # round[t]
      <4>1. leader[r] # NoOne
        BY <1>4, <2>1, <3>2
      <4>. QED
        BY <1>5, <4>1 DEF ElectionInv, Said
    <3>. QED
      BY <3>1, <3>2
  <2>. QED
    BY <1>2, <2>1 DEF Said
<1>8. program \in {"election2", "election4"} => leader[round[t]] = NoOne
  BY DEF ElectionInv, ElectionLocked
<1>9. Single'
  BY <1>1, <1>2, <1>4, <1>5, <1>8, ExampleConstantsOk DEF ElectionInv, Single
<1>10. ElectionLocked'
  BY <1>2, <1>4, <1>5 DEF ElectionInv, ElectionLocked
<1>. QED
  BY <1>1, <1>3, <1>6, <1>7, <1>9, <1>10 DEF ElectionInv, ElectionVerdict

\* It counts itself.
LEMMA TallyKeeps ==
    ASSUME ElectionInv, NEW t \in Threads, UNCHANGED <<program, verdict>>,
           pc[t] = "imposed", E!tally(t),
           \/ program # "election2" /\ E!EndRound(t)
           \/ program = "election2" /\ E!Goto(t, "counted")
    PROVE  ElectionInv'
<1>1. round[t] < RUNS /\ verdict = "none" /\ round[t] \in Turns
  BY NotJoined DEF ElectionInv, ElectionTypes
<1>2. /\ nb_leaders' = [nb_leaders EXCEPT ![round[t]] = @ + 1]
      /\ UNCHANGED <<leader, mutex>>
  BY DEF E!tally
<1>3. /\ \/ pc'[t] = "next" /\ round'[t] = round[t] + 1 /\ program # "election2"
         \/ pc'[t] = "counted" /\ round'[t] = round[t] /\ program = "election2"
      /\ \A u \in Threads : u # t => pc'[u] = pc[u] /\ round'[u] = round[u]
      /\ pc' = [u \in Threads |-> pc'[u]] /\ round' = [u \in Threads |-> round'[u]]
      /\ \A u \in Threads : round[u] \in 0 .. RUNS
  BY DEF E!EndRound, E!Goto, ElectionInv, ElectionTypes
<1>4. \A r \in Turns : /\ nb_leaders[r] \in Nat
                       /\ nb_leaders'[r] = IF r = round[t] THEN nb_leaders[r] + 1 ELSE nb_leaders[r]
  BY <1>2 DEF ElectionInv, ElectionTypes
<1>5. ElectionTypes'
  <2>1. \A u \in Threads : /\ pc'[u] \in {"next", "vacant", "imposed", "locked", "counted"}
                           /\ round'[u] \in 0 .. RUNS
                           /\ pc'[u] # "next" => round'[u] < RUNS
                           /\ program # "election2" => pc'[u] \notin {"locked", "counted"}
                           /\ program = "election4" => pc'[u] # "vacant"
    BY <1>1, <1>3, Constants DEF ElectionInv, ElectionTypes
  <2>2. nb_leaders' \in [Turns -> Nat]
    <3>1. nb_leaders' = [r \in Turns |-> nb_leaders'[r]]
      BY <1>2 DEF ElectionInv, ElectionTypes
    <3>2. \A r \in Turns : nb_leaders'[r] \in Nat
      BY <1>4
    <3>. QED
      BY <3>1, <3>2
  <2>. QED
    BY <1>2, <1>3, <2>1, <2>2 DEF ElectionInv, ElectionTypes
<1>6. leader[round[t]] # NoOne
  BY <1>1 DEF ElectionInv, Passed
<1>7. Passed'
  BY <1>1, <1>2, <1>3, <1>6 DEF ElectionInv, Passed, Turns
<1>8. Said'
  <2>1. ASSUME NEW r \in Turns, leader[r] # NoOne
        PROVE  nb_leaders'[r] >= 1 \/ \E u \in Threads : pc'[u] = "imposed" /\ round'[u] = r
    BY <1>3, <1>4, <2>1 DEF ElectionInv, Said
  <2>. QED
    BY <1>2, <2>1 DEF Said
<1>9. Single'
  <2>1. ASSUME program \in {"election2", "election4"}, NEW r \in Turns
        PROVE  /\ \A u \in Threads : (pc'[u] = "imposed" /\ round'[u] = r) =>
                                          leader[r] = u /\ nb_leaders'[r] = 0
               /\ leader[r] = NoOne => nb_leaders'[r] = 0
               /\ nb_leaders'[r] <= 1
    <3>1. CASE r = round[t]
      <4>1. leader[r] = t /\ nb_leaders[r] = 0
        BY <2>1, <3>1 DEF ElectionInv, Single
      <4>2. nb_leaders'[r] = 1 /\ leader[r] # NoOne
        BY <1>4, <1>6, <3>1, <4>1
      <4>3. \A u \in Threads : (pc'[u] = "imposed" /\ round'[u] = r) => FALSE
        BY <1>3, <2>1, <3>1, <4>1 DEF ElectionInv, Single
      <4>. QED
        BY <4>2, <4>3
    <3>2. CASE r # round[t]
      BY <1>3, <1>4, <2>1, <3>2 DEF ElectionInv, Single
    <3>. QED
      BY <3>1, <3>2
  <2>. QED
    BY <1>2, <2>1 DEF Single
<1>10. ElectionLocked'
  BY <1>2, <1>3 DEF ElectionInv, ElectionLocked
<1>. QED
  BY <1>1, <1>5, <1>7, <1>8, <1>9, <1>10 DEF ElectionInv, ElectionVerdict

LEMMA ElectionMainKeeps ==
    ASSUME ElectionInv, E!main, UNCHANGED program
    PROVE  ElectionInv'
<1>1. /\ \A t \in Threads : pc[t] = "next" /\ round[t] = RUNS
      /\ verdict' = IF \A r \in Turns : nb_leaders[r] = 1 THEN "correct" ELSE "wrong"
      /\ UNCHANGED <<pc, round, mutex, leader, nb_leaders>>
  BY DEF E!main, E!AllReturned, E!arrays, E!Rounds, Turns
<1>2. ASSUME program \in {"election2", "election4"}, NEW r \in Turns PROVE nb_leaders[r] = 1
  <2>1. leader[r] # NoOne
    BY <1>1, Constants DEF ElectionInv, Passed, Turns
  <2>2. nb_leaders[r] >= 1
    BY <1>1, <2>1 DEF ElectionInv, Said
  <2>. QED
    BY <1>2, <2>2 DEF ElectionInv, Single, ElectionTypes
<1>3. ElectionTypes'
  BY <1>1 DEF ElectionInv, ElectionTypes
<1>4. Passed' /\ Said' /\ Single' /\ ElectionLocked'
  BY <1>1 DEF ElectionInv, Passed, Said, Single, ElectionLocked
<1>5. ElectionVerdict'
  BY <1>1, <1>2 DEF ElectionVerdict
<1>. QED
  BY <1>3, <1>4, <1>5 DEF ElectionInv

-----------------------------------------------------------------------------

LEMMA ElectionStarts == Init /\ program \in E!Programs => ElectionInv
<1>. SUFFICES ASSUME Init, program \in E!Programs PROVE ElectionInv
  OBVIOUS
<1>1. /\ pc = [t \in Threads |-> "next"] /\ round = [t \in Threads |-> 0] /\ mutex = NoOne
      /\ verdict = "none" /\ leader = [r \in Turns |-> NoOne] /\ nb_leaders = [r \in Turns |-> 0]
  BY DEF Init, C!Init, E!Init, P!Init, C!Programs, E!Programs, P!Programs, E!Fresh, E!lock_init,
         E!Rounds, Turns
<1>. QED
  BY <1>1, Constants, ExampleConstantsOk
     DEF ElectionInv, ElectionTypes, Passed, Said, Single, ElectionLocked, ElectionVerdict, Turns

LEMMA ElectionNext == ElectionInv /\ E!Next => ElectionInv'
<1>. SUFFICES ASSUME ElectionInv, E!Next PROVE ElectionInv'
  OBVIOUS
<1>0. UNCHANGED program
  BY DEF E!Next
<1>1. CASE E!main
  BY <1>0, <1>1, ElectionMainKeeps
<1>2. \A t \in Threads : pc[t] # "next" => round[t] < RUNS
  BY DEF ElectionInv, ElectionTypes
<1>3. ASSUME NEW t \in Threads, E!TestThenSet(t), UNCHANGED verdict,
             program \in {"election1", "election3"}
      PROVE  ElectionInv'
  <2>1. CASE E!At(t, "next") /\ UNCHANGED <<E!arrays, mutex, asleep>>
    BY <1>0, <1>3, <2>1, MoveKeeps DEF E!TestThenSet, E!At, E!Vacant, E!arrays
  <2>2. CASE E!At(t, "vacant") /\ E!impose(t) /\ E!Goto(t, "imposed")
    BY <1>0, <1>2, <1>3, <2>2, ImposeKeeps DEF E!At
  <2>3. CASE E!At(t, "imposed") /\ E!tally(t) /\ E!EndRound(t)
    BY <1>0, <1>3, <2>3, TallyKeeps DEF E!At
  <2>. QED
    BY <1>3, <2>1, <2>2, <2>3 DEF E!TestThenSet
<1>4. ASSUME NEW t \in Threads, E!LockedTestThenSet(t), UNCHANGED verdict, program = "election2"
      PROVE  ElectionInv'
  <2>1. CASE E!At(t, "next") /\ E!lock_acquire(t) /\ E!Goto(t, "locked") /\ UNCHANGED E!arrays
    <3>1. /\ pc[t] = "next" /\ round[t] < RUNS /\ mutex = NoOne /\ mutex' = t
          /\ UNCHANGED <<leader, nb_leaders>>
      BY <2>1 DEF E!At, E!lock_acquire, E!arrays
    <3>2. pc'[t] = "locked"
      BY <2>1 DEF E!Goto, ElectionInv, ElectionTypes
    <3>. QED
      BY <1>0, <1>4, <2>1, <3>1, <3>2, MoveKeeps
  <2>2. CASE /\ E!At(t, "locked") /\ UNCHANGED <<E!arrays, mutex, asleep>>
             /\ E!Goto(t, IF E!Vacant(t) THEN "vacant" ELSE "counted")
    <3>1. /\ pc[t] = "locked" /\ round[t] < RUNS /\ UNCHANGED <<leader, nb_leaders, mutex>>
      BY <1>2, <2>2 DEF E!At, E!arrays
    <3>2. PICK l \in {"vacant", "counted"} :
              /\ E!Goto(t, l)
              /\ l = "vacant" => leader[round[t]] = NoOne
              /\ l = "counted" => leader[round[t]] # NoOne
      BY <2>2 DEF E!Vacant
    <3>3. pc'[t] = l
      BY <3>2 DEF E!Goto, ElectionInv, ElectionTypes
    <3>. QED
      BY <1>0, <1>4, <3>1, <3>2, <3>3, MoveKeeps
  <2>3. CASE E!At(t, "vacant") /\ E!impose(t) /\ E!Goto(t, "imposed")
    BY <1>0, <1>2, <1>4, <2>3, ImposeKeeps DEF E!At
  <2>4. CASE E!At(t, "imposed") /\ E!tally(t) /\ E!Goto(t, "counted")
    BY <1>0, <1>4, <2>4, TallyKeeps DEF E!At
  <2>5. CASE E!At(t, "counted") /\ E!lock_release(t) /\ E!EndRound(t) /\ UNCHANGED E!arrays
    <3>1. /\ pc[t] = "counted" /\ round[t] < RUNS /\ mutex' = NoOne
          /\ UNCHANGED <<leader, nb_leaders>>
      BY <1>2, <2>5 DEF E!At, E!lock_release, E!arrays
    <3>2. pc'[t] = "next"
      BY <2>5 DEF E!EndRound, ElectionInv, ElectionTypes
    <3>3. leader[round[t]] # NoOne
      BY <3>1, NotJoined DEF ElectionInv, Passed
    <3>. QED
      BY <1>0, <1>4, <2>5, <3>1, <3>2, <3>3, MoveKeeps
  <2>. QED
    BY <1>4, <2>1, <2>2, <2>3, <2>4, <2>5 DEF E!LockedTestThenSet
<1>5. ASSUME NEW t \in Threads, E!SwapThenTally(t), UNCHANGED verdict, program = "election4"
      PROVE  ElectionInv'
  <2>1. CASE E!CompareAndSwap(t)
    BY <1>0, <1>5, <2>1, MoveKeeps, ImposeKeeps DEF E!CompareAndSwap, E!At, E!Vacant, E!arrays
  <2>2. CASE E!At(t, "imposed") /\ E!tally(t) /\ E!EndRound(t)
    BY <1>0, <1>5, <2>2, TallyKeeps DEF E!At
  <2>. QED
    BY <1>5, <2>1, <2>2 DEF E!SwapThenTally
<1>. QED
  BY <1>1, <1>3, <1>4, <1>5
     DEF E!Next, E!Election1, E!Election2, E!Election3, E!Election4, E!Thread

LEMMA ElectionRight == ElectionInv => E!OneLeader
<1>. SUFFICES ASSUME ElectionInv PROVE E!OneLeader
  OBVIOUS
<1>1. program \in {"election2", "election4"} => verdict # "wrong"
  BY DEF ElectionInv, ElectionVerdict
<1>2. ASSUME verdict # "none", NEW r \in Turns
      PROVE  leader[r] # NoOne /\ nb_leaders[r] >= 1
  <2>1. leader[r] # NoOne
    BY <1>2, Constants DEF ElectionInv, ElectionVerdict, Passed, Turns
  <2>. QED
    BY <1>2, <2>1 DEF ElectionInv, ElectionVerdict, Said
<1>3. ASSUME program \in {"election2", "election4"}, NEW r \in Turns
      PROVE  /\ nb_leaders[r] + E!Cardinality(E!Imposed(r)) = IF leader[r] = NoOne THEN 0 ELSE 1
             /\ E!Imposed(r) \subseteq {leader[r]}
  <2>1. /\ \A t \in E!Imposed(r) : leader[r] = t /\ nb_leaders[r] = 0
        /\ leader[r] = NoOne => nb_leaders[r] = 0
        /\ nb_leaders[r] <= 1 /\ nb_leaders[r] \in Nat
    BY <1>3 DEF ElectionInv, ElectionTypes, Single, E!Imposed
  <2>2. leader[r] # NoOne => nb_leaders[r] >= 1 \/ E!Imposed(r) # {}
    BY DEF ElectionInv, Said, E!Imposed
  <2>3. PICK n : n = E!Cardinality(E!Imposed(r))
    OBVIOUS
  <2>4. E!Imposed(r) = {} => n = 0
    BY <2>3, ElectionCardinality, FS_EmptySet
  <2>5. \A x : E!Imposed(r) = {x} => n = 1
    BY <2>3, ElectionCardinality, FS_Singleton
  <2>6. E!Imposed(r) = {} \/ E!Imposed(r) = {leader[r]}
    BY <2>1
  <2>7. E!Imposed(r) # {} => leader[r] # NoOne
    BY <2>1, ExampleConstantsOk DEF E!Imposed
  <2>8. nb_leaders[r] + n = IF leader[r] = NoOne THEN 0 ELSE 1
    BY <2>1, <2>2, <2>4, <2>5, <2>6, <2>7
  <2>. QED
    BY <2>3, <2>6, <2>8
<1>. QED
  BY <1>1, <1>2, <1>3 DEF E!OneLeader, E!Rounds, Turns

-----------------------------------------------------------------------------
(* The producers and consumers *)

Held == {"locked", "copy", "copying", "copied", "advanced"}

InCopy == {"copy", "copying", "copied"}

ItemTypes ==
    /\ program \in P!Programs \ {"procon1"}
    /\ pc \in [P!Pair -> Held \cup {"next", "asleep", "signal"}]
    /\ round \in [P!Pair -> 0 .. Items]
    /\ \A t \in P!Pair : pc[t] # "next" => round[t] < Items
    /\ program = "procon3" => \A t \in P!Pair : pc[t] \in InCopy \cup {"next"}
    /\ buffer \in [0 .. BUFFER_SIZE - 1 -> Int \X Int]
    /\ consumed \in [0 .. Items - 1 -> Int \X Int]
    /\ published \in [P!Pair -> Nat] /\ known \in [P!Pair -> Nat]

\* The counters are what the threads have finished, a thread that copies has room.
Bounded ==
    /\ produced_until = P!Over(producer) /\ consumed_until = P!Over(consumer)
    /\ P!Over(consumer) <= P!Over(producer)
    /\ P!Over(producer) <= P!Over(consumer) + BUFFER_SIZE
    /\ pc[producer] \in InCopy => round[producer] < P!Over(consumer) + BUFFER_SIZE
    /\ pc[consumer] \in InCopy => round[consumer] < P!Over(producer)

\* The data of round r.
Item(r) == <<r, r>>

InBuffer ==
    /\ \A r \in Nat : P!Over(consumer) <= r /\ r < P!Over(producer) =>
                          buffer[r % BUFFER_SIZE] = Item(r)
    /\ pc[producer] = "copying" => buffer[P!Slot(producer)][1] = round[producer]
    /\ pc[producer] = "copied" => buffer[P!Slot(producer)] = Item(round[producer])

Taken ==
    /\ \A r \in Nat : r < P!Over(consumer) => consumed[r] = Item(r)
    /\ pc[consumer] = "copying" => consumed[round[consumer]][1] = round[consumer]
    /\ pc[consumer] = "copied" => consumed[round[consumer]] = Item(round[consumer])

\* Who holds the mutex knows all that the other one has finished.
Informed ==
    /\ program # "procon3" => \A t \in P!Pair :
          /\ pc[t] \in Held <=> mutex = t
          /\ pc[t] \in Held => known[t] = P!Over(P!Other(t))
          /\ pc[t] \notin Held => published[t] = P!Over(t)
    /\ program = "procon3" =>
          /\ \A t \in P!Pair : published[t] = P!Over(t)
          /\ pc[consumer] \in InCopy => known[consumer] > round[consumer]

ItemVerdict ==
    verdict # "none" => verdict # "wrong" /\ \A t \in P!Pair : pc[t] = "next" /\ round[t] = Items

ItemInv == ItemTypes /\ Bounded /\ InBuffer /\ Taken /\ Informed /\ ItemVerdict

-----------------------------------------------------------------------------
(* The slots *)

LEMMA Quotient ==
    ASSUME NEW a \in Nat, NEW B \in Nat \ {0}
    PROVE  a % B \in 0 .. B - 1 /\ a \div B \in Nat /\ a = B * (a \div B) + (a % B)
OBVIOUS

LEMMA NoMultiple ==
    ASSUME NEW B \in Nat \ {0}, NEW k \in Int
    PROVE  k <= 0 => B * k <= 0
OBVIOUS

LEMMA WholeMultiple ==
    ASSUME NEW B \in Nat \ {0}, NEW k \in Int
    PROVE  k >= 1 => B * k >= B
OBVIOUS

\* Rounds that are less than a buffer apart are in different slots.
LEMMA SlotsDiffer ==
    ASSUME NEW B \in Nat \ {0}, NEW a \in Nat, NEW b \in Nat, a < b, b < a + B
    PROVE  a % B # b % B
<1>1. SUFFICES ASSUME a % B = b % B PROVE FALSE
  OBVIOUS
<1>2. PICK x : x = a % B
  OBVIOUS
<1>3. PICK q \in Nat : x \in Nat /\ a = B * q + x
  <2>1. x \in 0 .. B - 1 /\ a = B * (a \div B) + x /\ a \div B \in Nat
    BY <1>2, Quotient
  <2>. QED
    BY <2>1
<1>4. PICK p \in Nat : b = B * p + x
  <2>1. b = B * (b \div B) + x /\ b \div B \in Nat
    BY <1>1, <1>2, Quotient
  <2>. QED
    BY <2>1
<1>5. PICK k : k = p - q
  OBVIOUS
<1>6. k \in Int /\ b - a = B * k
  BY <1>3, <1>4, <1>5
<1>7. k <= 0 => B * k <= 0
  BY <1>6, NoMultiple
<1>8. k >= 1 => B * k >= B
  BY <1>6, WholeMultiple
<1>9. k <= 0 \/ k >= 1
  BY <1>6
<1>. QED
  BY <1>6, <1>7, <1>8, <1>9

-----------------------------------------------------------------------------

\* The two threads, and the constants.
LEMMA PairFacts ==
    /\ P!Pair = {producer, consumer} /\ producer # consumer
    /\ P!Other(producer) = consumer /\ P!Other(consumer) = producer
    /\ NoOne \notin P!Pair
    /\ Items \in Nat /\ Items >= 1 /\ BUFFER_SIZE \in Nat \ {0}
BY ExampleConstantsOk DEF P!Pair, P!Other

\* A copy of one half, and of the other one after it.
LEMMA Halves ==
    ASSUME NEW d \in Int \X Int, NEW v \in Int
    PROVE  /\ [d EXCEPT ![1] = v] \in Int \X Int /\ [d EXCEPT ![2] = v] \in Int \X Int
           /\ [d EXCEPT ![1] = v][1] = v
           /\ d[1] = v => [d EXCEPT ![2] = v] = Item(v)
BY DEF Item

\* What the counters say in numbers.
LEMMA Numbers ==
    ASSUME ItemInv
    PROVE  /\ \A t \in P!Pair : /\ round[t] \in Nat /\ P!Over(t) \in Nat /\ round[t] <= P!Over(t)
                                /\ P!Over(t) <= Items
                                /\ pc[t] \notin {"advanced", "signal"} => P!Over(t) = round[t]
                                /\ pc[t] \in {"advanced", "signal"} => P!Over(t) = round[t] + 1
                                /\ P!Slot(t) \in 0 .. BUFFER_SIZE - 1
           /\ \A r \in Nat : r % BUFFER_SIZE \in 0 .. BUFFER_SIZE - 1
           /\ produced_until \in Nat /\ consumed_until \in Nat
<1>1. \A r \in Nat : r % BUFFER_SIZE \in 0 .. BUFFER_SIZE - 1
  BY PairFacts, Quotient
<1>2. ASSUME NEW t \in P!Pair
      PROVE  /\ round[t] \in Nat /\ P!Over(t) \in Nat /\ round[t] <= P!Over(t)
             /\ P!Over(t) <= Items
             /\ pc[t] \notin {"advanced", "signal"} => P!Over(t) = round[t]
             /\ pc[t] \in {"advanced", "signal"} => P!Over(t) = round[t] + 1
  <2>1. round[t] \in 0 .. Items /\ (pc[t] # "next" => round[t] < Items)
    BY DEF ItemInv, ItemTypes
  <2>. QED
    BY <2>1, PairFacts DEF P!Over
<1>. QED
  BY <1>1, <1>2, PairFacts DEF ItemInv, Bounded, P!Slot

\* A step of thread t that copies nothing and finishes nothing.
LEMMA ControlKeeps ==
    ASSUME ItemInv, NEW t \in P!Pair, NEW l \in Held \cup {"next", "asleep", "signal"},
           UNCHANGED <<program, verdict, buffer, consumed, produced_until, consumed_until>>,
           pc' = [pc EXCEPT ![t] = l],
           l \in InCopy => l = "copy" /\ P!Ready(t) /\ pc[t] \notin {"advanced", "signal"},
           program = "procon3" => l \in InCopy \cup {"next"},
           round[t] < Items,
           \/ UNCHANGED round /\ (l \in {"advanced", "signal"} <=> pc[t] \in {"advanced", "signal"})
           \/ /\ pc[t] \in {"advanced", "signal"} /\ l = "next"
              /\ round' = [round EXCEPT ![t] = @ + 1],
           published' \in [P!Pair -> Nat], known' \in [P!Pair -> Nat]
    PROVE  /\ ItemTypes' /\ Bounded' /\ InBuffer' /\ Taken' /\ ItemVerdict'
           /\ \A u \in P!Pair : P!Over(u)' = P!Over(u)
           /\ pc'[t] = l /\ \A u \in P!Pair : u # t => pc'[u] = pc[u] /\ round'[u] = round[u]
<1>1. /\ pc'[t] = l
      /\ \/ round'[t] = round[t] /\ (l \in {"advanced", "signal"} <=> pc[t] \in {"advanced", "signal"})
         \/ pc[t] \in {"advanced", "signal"} /\ l = "next" /\ round'[t] = round[t] + 1
      /\ l \in InCopy => round'[t] = round[t]
      /\ \A u \in P!Pair : u # t => pc'[u] = pc[u] /\ round'[u] = round[u]
      /\ round' = [u \in P!Pair |-> round'[u]]
  BY DEF ItemInv, ItemTypes, InCopy
<1>2. \A u \in P!Pair : P!Over(u)' = P!Over(u)
  BY <1>1, Numbers DEF P!Over
<1>3. ItemTypes'
  <2>1. ASSUME NEW u \in P!Pair
        PROVE  /\ pc'[u] \in Held \cup {"next", "asleep", "signal"}
               /\ round'[u] \in 0 .. Items
               /\ pc'[u] # "next" => round'[u] < Items
               /\ program = "procon3" => pc'[u] \in InCopy \cup {"next"}
    <3>1. CASE u = t
      <4>1. round[t] \in Nat /\ round[t] < Items /\ Items \in Nat
        BY Numbers, PairFacts
      <4>2. round'[t] \in 0 .. Items /\ (l # "next" => round'[t] < Items)
        BY <1>1, <4>1
      <4>. QED
        BY <1>1, <3>1, <4>2
    <3>2. CASE u # t
      BY <1>1, <3>2 DEF ItemInv, ItemTypes
    <3>. QED
      BY <3>1, <3>2
  <2>. QED
    BY <1>1, <2>1 DEF ItemInv, ItemTypes
<1>4. Bounded'
  <2>1. pc'[producer] \in InCopy => round'[producer] < P!Over(consumer) + BUFFER_SIZE
    BY <1>1, PairFacts DEF ItemInv, Bounded, P!Ready, P!Room
  <2>2. pc'[consumer] \in InCopy => round'[consumer] < P!Over(producer)
    BY <1>1, PairFacts DEF ItemInv, Bounded, P!Ready
  <2>. QED
    BY <1>2, <2>1, <2>2, PairFacts DEF ItemInv, Bounded
<1>5. \A u \in P!Pair : pc'[u] \in {"copying", "copied"} => pc'[u] = pc[u] /\ round'[u] = round[u]
  BY <1>1 DEF InCopy
<1>6. InBuffer'
  BY <1>2, <1>5, PairFacts DEF ItemInv, InBuffer, P!Slot
<1>7. Taken'
  BY <1>2, <1>5, PairFacts DEF ItemInv, Taken
<1>8. ItemVerdict'
  <2>1. round[t] \in Nat /\ Items \in Nat
    BY Numbers, PairFacts
  <2>2. verdict = "none"
    BY <2>1 DEF ItemInv, ItemVerdict
  <2>. QED
    BY <2>2 DEF ItemVerdict
<1>. QED
  BY <1>1, <1>2, <1>3, <1>4, <1>6, <1>7, <1>8

-----------------------------------------------------------------------------

\* The order of the accesses: a step inside or outside a critical section,
LEMMA QuietInformed ==
    ASSUME ItemInv, UNCHANGED <<program, mutex, published, known>>,
           \A u \in P!Pair : P!Over(u)' = P!Over(u) /\ (pc'[u] \in Held <=> pc[u] \in Held),
           program = "procon3" /\ pc'[consumer] \in InCopy =>
               pc[consumer] \in InCopy /\ round'[consumer] = round[consumer]
    PROVE  Informed'
BY PairFacts DEF ItemInv, Informed, P!Other

\* one that enters it,
LEMMA LockInformed ==
    ASSUME ItemInv, program # "procon3", UNCHANGED program, NEW t \in P!Pair,
           P!lock_acquire(t), P!Acquire(t), pc'[t] \in Held,
           \A u \in P!Pair : P!Over(u)' = P!Over(u) /\ (u # t => pc'[u] = pc[u])
    PROVE  Informed'
<1>1. /\ mutex = NoOne /\ mutex' = t /\ UNCHANGED published
      /\ known' = [known EXCEPT ![t] = published[P!Other(t)]]
  BY DEF P!lock_acquire, P!Acquire
<1>2. \A u \in P!Pair : pc[u] \notin Held /\ published[u] = P!Over(u) /\ P!Other(u) \in P!Pair
  BY <1>1, PairFacts DEF ItemInv, Informed
<1>3. known'[t] = P!Over(P!Other(t)) /\ P!Other(t) # t
  BY <1>1, <1>2, PairFacts DEF ItemInv, ItemTypes
<1>. QED
  BY <1>1, <1>2, <1>3, PairFacts DEF Informed, P!Other

\* and one that leaves it.
LEMMA UnlockInformed ==
    ASSUME ItemInv, program # "procon3", UNCHANGED program, NEW t \in P!Pair,
           pc[t] \in Held, mutex' = NoOne, P!Release(t), pc'[t] \notin Held,
           \A u \in P!Pair : P!Over(u)' = P!Over(u) /\ (u # t => pc'[u] = pc[u])
    PROVE  Informed'
<1>1. mutex = t /\ published' = [published EXCEPT ![t] = P!Over(t)] /\ UNCHANGED known
  BY DEF P!Release, ItemInv, Informed
<1>2. \A u \in P!Pair : u # t => pc[u] \notin Held /\ published[u] = P!Over(u)
  BY <1>1 DEF ItemInv, Informed
<1>3. \A u \in P!Pair : published'[u] = P!Over(u)
  BY <1>1, <1>2 DEF ItemInv, ItemTypes
<1>. QED
  BY <1>2, <1>3, PairFacts DEF Informed

-----------------------------------------------------------------------------
(* The copies *)

\* A step that copies one half.
LEMMA CopyControl ==
    ASSUME ItemInv, NEW t \in P!Pair, NEW h, P!copy_half(t, h), UNCHANGED <<program, verdict>>,
           \/ h = 1 /\ P!At(t, "copy") /\ P!Goto(t, "copying")
           \/ h = 2 /\ P!At(t, "copying") /\ P!Goto(t, "copied"),
           ItemTypes'
    PROVE  Bounded' /\ Informed' /\ ItemVerdict' /\ \A u \in P!Pair : P!Over(u)' = P!Over(u)
<1>1. /\ pc' = [pc EXCEPT ![t] = IF h = 1 THEN "copying" ELSE "copied"] /\ UNCHANGED round
      /\ UNCHANGED <<mutex, produced_until, consumed_until, published, known>>
      /\ pc[t] \in InCopy
  BY DEF P!copy_half, P!Goto, P!bounds, P!order, P!At, InCopy
<1>2. /\ pc'[t] \in InCopy
      /\ \A u \in P!Pair : u # t => pc'[u] = pc[u]
  BY <1>1 DEF ItemInv, ItemTypes, InCopy
<1>3. \A u \in P!Pair : P!Over(u)' = P!Over(u)
  BY <1>1, <1>2 DEF P!Over, InCopy
<1>4. Bounded'
  BY <1>1, <1>2, <1>3, PairFacts DEF ItemInv, Bounded
<1>5. Informed'
  BY <1>1, <1>2, <1>3, QuietInformed DEF Held, InCopy
<1>6. ItemVerdict'
  BY <1>1 DEF ItemInv, ItemVerdict, InCopy
<1>. QED
  BY <1>3, <1>4, <1>5, <1>6

\* The producer's slot is none of those that are full.
LEMMA FreeSlot ==
    ASSUME ItemInv, pc[producer] \in InCopy, NEW r \in Nat,
           P!Over(consumer) <= r, r < P!Over(producer)
    PROVE  r % BUFFER_SIZE # P!Slot(producer)
<1>1. /\ round[producer] \in Nat /\ r < round[producer]
      /\ round[producer] < r + BUFFER_SIZE
  <2>1. pc[producer] \notin {"advanced", "signal"} /\ {producer, consumer} \subseteq P!Pair
    BY PairFacts DEF InCopy
  <2>2. /\ P!Over(producer) = round[producer] /\ round[producer] \in Nat
        /\ P!Over(consumer) \in Nat /\ BUFFER_SIZE \in Nat
    BY <2>1, PairFacts, Numbers
  <2>3. round[producer] < P!Over(consumer) + BUFFER_SIZE
    BY DEF ItemInv, Bounded
  <2>. QED
    BY <2>2, <2>3
<1>. QED
  BY <1>1, PairFacts, SlotsDiffer DEF P!Slot

LEMMA ProducerCopies ==
    ASSUME ItemInv, NEW h, P!copy_half(producer, h), UNCHANGED <<program, verdict>>,
           \/ h = 1 /\ P!At(producer, "copy") /\ P!Goto(producer, "copying")
           \/ h = 2 /\ P!At(producer, "copying") /\ P!Goto(producer, "copied")
    PROVE  ItemInv'
<1>1. PICK s : s = P!Slot(producer)
  OBVIOUS
<1>2. PICK v : v = round[producer]
  OBVIOUS
<1>3. /\ producer \in P!Pair /\ consumer \in P!Pair /\ s \in 0 .. BUFFER_SIZE - 1
      /\ v \in Int /\ buffer[s] \in Int \X Int
  <2>1. producer \in P!Pair /\ consumer \in P!Pair
    BY PairFacts
  <2>2. s \in 0 .. BUFFER_SIZE - 1 /\ v \in Nat
    BY <1>1, <1>2, <2>1, Numbers
  <2>. QED
    BY <2>1, <2>2 DEF ItemInv, ItemTypes
<1>4. /\ buffer' = [buffer EXCEPT ![s] = [@ EXCEPT ![h] = v]] /\ UNCHANGED <<consumed, round>>
      /\ published' = published /\ known' = known
      /\ pc' = [pc EXCEPT ![producer] = IF h = 1 THEN "copying" ELSE "copied"]
      /\ pc[producer] = IF h = 1 THEN "copy" ELSE "copying"
      /\ h \in {1, 2}
  BY <1>1, <1>2 DEF P!copy_half, P!Goto, P!At, P!order
<1>5. /\ pc'[producer] = (IF h = 1 THEN "copying" ELSE "copied") /\ pc'[consumer] = pc[consumer]
      /\ buffer'[s] = [buffer[s] EXCEPT ![h] = v] /\ buffer'[s] \in Int \X Int
      /\ \A i \in 0 .. BUFFER_SIZE - 1 : i # s => buffer'[i] = buffer[i]
  <2>1. [buffer[s] EXCEPT ![h] = v] \in Int \X Int
    BY <1>3, <1>4, Halves
  <2>2. /\ buffer'[s] = [buffer[s] EXCEPT ![h] = v]
        /\ \A i \in 0 .. BUFFER_SIZE - 1 : i # s => buffer'[i] = buffer[i]
    BY <1>3, <1>4 DEF ItemInv, ItemTypes
  <2>3. /\ pc'[producer] = (IF h = 1 THEN "copying" ELSE "copied")
        /\ pc'[consumer] = pc[consumer]
    BY <1>3, <1>4, PairFacts DEF ItemInv, ItemTypes
  <2>. QED
    BY <2>1, <2>2, <2>3
<1>6. ItemTypes'
  <2>1. buffer' \in [0 .. BUFFER_SIZE - 1 -> Int \X Int]
    BY <1>3, <1>4, <1>5 DEF ItemInv, ItemTypes
  <2>. QED
    BY <1>4, <2>1, PairFacts DEF ItemInv, ItemTypes, Held, InCopy
<1>7. Bounded' /\ Informed' /\ ItemVerdict' /\ \A u \in P!Pair : P!Over(u)' = P!Over(u)
  BY <1>3, <1>6, CopyControl
<1>8. P!Slot(producer)' = s
  BY <1>1, <1>4 DEF P!Slot
<1>9. InBuffer'
  <2>1. ASSUME NEW r \in Nat, P!Over(consumer)' <= r, r < P!Over(producer)'
        PROVE  buffer'[r % BUFFER_SIZE] = Item(r)
    <3>1. P!Over(consumer) <= r /\ r < P!Over(producer)
      BY <1>3, <1>7, <2>1
    <3>2. r % BUFFER_SIZE # s
      BY <1>1, <1>4, <3>1, FreeSlot DEF InCopy
    <3>. QED
      BY <1>5, <3>1, <3>2, Numbers DEF ItemInv, InBuffer
  <2>2. h = 1 => buffer'[s][1] = v
    BY <1>3, <1>5, Halves
  <2>3. h = 2 => buffer'[s] = Item(v)
    <3>1. h = 2 => buffer[s][1] = v
      BY <1>1, <1>2, <1>4 DEF ItemInv, InBuffer
    <3>. QED
      BY <1>3, <1>5, <3>1, Halves
  <2>. QED
    BY <1>2, <1>4, <1>5, <1>8, <2>1, <2>2, <2>3 DEF InBuffer
<1>10. Taken'
  BY <1>3, <1>4, <1>5, <1>7 DEF ItemInv, Taken
<1>. QED
  BY <1>6, <1>7, <1>9, <1>10 DEF ItemInv

LEMMA ConsumerCopies ==
    ASSUME ItemInv, NEW h, P!copy_half(consumer, h), UNCHANGED <<program, verdict>>,
           \/ h = 1 /\ P!At(consumer, "copy") /\ P!Goto(consumer, "copying")
           \/ h = 2 /\ P!At(consumer, "copying") /\ P!Goto(consumer, "copied")
    PROVE  ItemInv'
<1>1. PICK v : v = round[consumer]
  OBVIOUS
<1>2. /\ producer \in P!Pair /\ consumer \in P!Pair /\ v \in 0 .. Items - 1
      /\ v \in Nat /\ consumed[v] \in Int \X Int
      /\ pc[consumer] \in {"copy", "copying"} /\ P!Over(consumer) = v
  <2>1. pc[consumer] \in {"copy", "copying"} /\ consumer \in P!Pair /\ producer \in P!Pair
    BY PairFacts DEF P!At
  <2>2. round[consumer] \in Nat /\ round[consumer] < Items /\ P!Over(consumer) = round[consumer]
    BY <2>1, Numbers DEF ItemInv, ItemTypes
  <2>3. v \in 0 .. Items - 1
    BY <1>1, <2>2, PairFacts
  <2>. QED
    BY <1>1, <2>1, <2>2, <2>3 DEF ItemInv, ItemTypes
<1>3. buffer[P!Slot(consumer)] = Item(v)
  BY <1>1, <1>2 DEF ItemInv, Bounded, InBuffer, InCopy, P!Slot
<1>4. /\ consumed' = [consumed EXCEPT ![v] = [@ EXCEPT ![h] = Item(v)[h]]]
      /\ UNCHANGED <<buffer, round>>
      /\ published' = published /\ known' = known
      /\ pc' = [pc EXCEPT ![consumer] = IF h = 1 THEN "copying" ELSE "copied"]
      /\ pc[consumer] = IF h = 1 THEN "copy" ELSE "copying"
      /\ h \in {1, 2}
  BY <1>1, <1>3, PairFacts DEF P!copy_half, P!Goto, P!At, P!order
<1>5. /\ pc'[consumer] = (IF h = 1 THEN "copying" ELSE "copied") /\ pc'[producer] = pc[producer]
      /\ consumed'[v] = [consumed[v] EXCEPT ![h] = v] /\ consumed'[v] \in Int \X Int
      /\ \A i \in 0 .. Items - 1 : i # v => consumed'[i] = consumed[i]
  <2>1. Item(v)[h] = v
    BY <1>4 DEF Item
  <2>2. consumed' = [consumed EXCEPT ![v] = [@ EXCEPT ![h] = v]]
    BY <1>4, <2>1
  <2>3. [consumed[v] EXCEPT ![h] = v] \in Int \X Int
    BY <1>2, <1>4, Halves
  <2>4. /\ consumed'[v] = [consumed[v] EXCEPT ![h] = v]
        /\ \A i \in 0 .. Items - 1 : i # v => consumed'[i] = consumed[i]
    BY <1>2, <2>2 DEF ItemInv, ItemTypes
  <2>5. /\ pc'[consumer] = (IF h = 1 THEN "copying" ELSE "copied")
        /\ pc'[producer] = pc[producer]
    BY <1>2, <1>4, PairFacts DEF ItemInv, ItemTypes
  <2>. QED
    BY <2>3, <2>4, <2>5
<1>6. ItemTypes'
  <2>1. consumed' \in [0 .. Items - 1 -> Int \X Int]
    BY <1>2, <1>4, <1>5 DEF ItemInv, ItemTypes
  <2>. QED
    BY <1>4, <2>1, PairFacts DEF ItemInv, ItemTypes, Held, InCopy
<1>7. Bounded' /\ Informed' /\ ItemVerdict' /\ \A u \in P!Pair : P!Over(u)' = P!Over(u)
  BY <1>2, <1>6, CopyControl
<1>8. InBuffer'
  BY <1>2, <1>4, <1>5, <1>7 DEF ItemInv, InBuffer, P!Slot
<1>9. Taken'
  <2>1. ASSUME NEW r \in Nat, r < P!Over(consumer)' PROVE consumed'[r] = Item(r)
    <3>1. r < v /\ r \in 0 .. Items - 1 /\ r # v
      BY <1>2, <1>7, <2>1, PairFacts
    <3>. QED
      BY <1>2, <1>5, <3>1 DEF ItemInv, Taken
  <2>2. h = 1 => consumed'[v][1] = v
    BY <1>2, <1>5, Halves
  <2>3. h = 2 => consumed'[v] = Item(v)
    <3>1. h = 2 => consumed[v][1] = v
      BY <1>1, <1>4 DEF ItemInv, Taken
    <3>. QED
      BY <1>2, <1>5, <3>1, Halves
  <2>. QED
    BY <1>1, <1>4, <1>5, <2>1, <2>2, <2>3 DEF Taken
<1>. QED
  BY <1>6, <1>7, <1>8, <1>9 DEF ItemInv

-----------------------------------------------------------------------------

\* The counter moves on, and the round with it or later.
LEMMA AdvanceNumbers ==
    ASSUME ItemInv, NEW t \in P!Pair, P!At(t, "copied"), P!Advance(t),
           UNCHANGED <<program, verdict, buffer, consumed>>,
           \/ P!Goto(t, "advanced") /\ program # "procon3"
           \/ P!EndRound(t),
           published' \in [P!Pair -> Nat], known' \in [P!Pair -> Nat]
    PROVE  /\ ItemTypes' /\ Bounded' /\ ItemVerdict'
           /\ P!Over(t)' = round[t] + 1 /\ P!Over(t) = round[t] /\ round[t] \in 0 .. Items - 1
           /\ pc'[t] \in {"advanced", "next"}
           /\ \A u \in P!Pair : u # t => /\ P!Over(u)' = P!Over(u)
                                         /\ pc'[u] = pc[u] /\ round'[u] = round[u]
<1>1. /\ pc[t] = "copied" /\ round[t] \in 0 .. Items - 1 /\ P!Over(t) = round[t]
  <2>1. pc[t] = "copied"
    BY DEF P!At
  <2>2. round[t] \in Nat /\ round[t] < Items /\ P!Over(t) = round[t]
    BY <2>1, Numbers DEF ItemInv, ItemTypes
  <2>. QED
    BY <2>1, <2>2, PairFacts
<1>2. /\ \/ pc'[t] = "advanced" /\ round'[t] = round[t] /\ program # "procon3"
         \/ pc'[t] = "next" /\ round'[t] = round[t] + 1
      /\ \A u \in P!Pair : u # t => pc'[u] = pc[u] /\ round'[u] = round[u]
      /\ pc' = [u \in P!Pair |-> pc'[u]] /\ round' = [u \in P!Pair |-> round'[u]]
  BY DEF ItemInv, ItemTypes, P!Goto, P!EndRound
<1>3. P!Over(t)' = round[t] + 1
  BY <1>1, <1>2, PairFacts DEF P!Over
<1>4. \A u \in P!Pair : u # t => P!Over(u)' = P!Over(u)
  BY <1>2 DEF P!Over
<1>5. ItemTypes'
  <2>1. ASSUME NEW u \in P!Pair
        PROVE  /\ pc'[u] \in Held \cup {"next", "asleep", "signal"}
               /\ round'[u] \in 0 .. Items
               /\ pc'[u] # "next" => round'[u] < Items
               /\ program = "procon3" => pc'[u] \in InCopy \cup {"next"}
    <3>1. CASE u = t
      BY <1>1, <1>2, <3>1, PairFacts DEF Held
    <3>2. CASE u # t
      BY <1>2, <3>2 DEF ItemInv, ItemTypes
    <3>. QED
      BY <3>1, <3>2
  <2>. QED
    BY <1>2, <2>1 DEF ItemInv, ItemTypes
<1>6. Bounded'
  <2>1. /\ P!Over(consumer) \in Nat /\ P!Over(producer) \in Nat /\ BUFFER_SIZE \in Nat
        /\ round[consumer] \in Nat /\ round[producer] \in Nat
    BY Numbers, PairFacts
  <2>2. CASE t = producer
    <3>1. produced_until' = produced_until + 1 /\ consumed_until' = consumed_until
      BY <2>2 DEF P!Advance
    <3>2. /\ P!Over(producer)' = P!Over(producer) + 1 /\ P!Over(consumer)' = P!Over(consumer)
          /\ pc'[producer] \notin InCopy
          /\ pc'[consumer] = pc[consumer] /\ round'[consumer] = round[consumer]
      BY <1>1, <1>2, <1>3, <1>4, <2>2, PairFacts DEF InCopy
    <3>3. P!Over(producer) < P!Over(consumer) + BUFFER_SIZE
      BY <1>1, <2>2 DEF ItemInv, Bounded, InCopy
    <3>. QED
      BY <2>1, <3>1, <3>2, <3>3 DEF ItemInv, Bounded
  <2>3. CASE t = consumer
    <3>1. consumed_until' = consumed_until + 1 /\ produced_until' = produced_until
      BY <2>3, PairFacts DEF P!Advance
    <3>2. /\ P!Over(consumer)' = P!Over(consumer) + 1 /\ P!Over(producer)' = P!Over(producer)
          /\ pc'[consumer] \notin InCopy
          /\ pc'[producer] = pc[producer] /\ round'[producer] = round[producer]
      BY <1>1, <1>2, <1>3, <1>4, <2>3, PairFacts DEF InCopy
    <3>3. P!Over(consumer) < P!Over(producer)
      BY <1>1, <2>3 DEF ItemInv, Bounded, InCopy
    <3>. QED
      BY <2>1, <3>1, <3>2, <3>3 DEF ItemInv, Bounded
  <2>. QED
    BY <2>2, <2>3, PairFacts
<1>7. ItemVerdict'
  BY <1>1 DEF ItemInv, ItemVerdict
<1>. QED
  BY <1>1, <1>2, <1>3, <1>4, <1>5, <1>6, <1>7

LEMMA AdvanceData ==
    ASSUME ItemInv, NEW t \in P!Pair, P!At(t, "copied"), UNCHANGED <<buffer, consumed>>,
           P!Over(t)' = round[t] + 1, P!Over(t) = round[t], round[t] \in 0 .. Items - 1,
           pc'[t] \in {"advanced", "next"},
           \A u \in P!Pair : u # t => /\ P!Over(u)' = P!Over(u)
                                      /\ pc'[u] = pc[u] /\ round'[u] = round[u]
    PROVE  InBuffer' /\ Taken'
<1>1. pc[t] = "copied"
  BY DEF P!At
<1>2. P!Over(consumer) \in Nat /\ P!Over(producer) \in Nat
  BY Numbers, PairFacts
<1>3. CASE t = producer
  <2>1. ASSUME NEW r \in Nat, P!Over(consumer)' <= r, r < P!Over(producer)'
        PROVE  buffer[r % BUFFER_SIZE] = Item(r)
    <3>1. P!Over(consumer) <= r /\ (r < P!Over(producer) \/ r = round[producer])
      BY <1>2, <1>3, <2>1, PairFacts
    <3>2. CASE r = round[producer]
      BY <1>1, <1>3, <3>2 DEF ItemInv, InBuffer, P!Slot
    <3>. QED
      BY <3>1, <3>2 DEF ItemInv, InBuffer
  <2>2. InBuffer'
    BY <1>3, <2>1 DEF InBuffer
  <2>3. Taken'
    BY <1>3, PairFacts DEF ItemInv, Taken
  <2>. QED
    BY <2>2, <2>3
<1>4. CASE t = consumer
  <2>1. ASSUME NEW r \in Nat, P!Over(consumer)' <= r, r < P!Over(producer)'
        PROVE  buffer[r % BUFFER_SIZE] = Item(r)
    <3>1. P!Over(consumer) <= r /\ r < P!Over(producer)
      BY <1>2, <1>4, <2>1, PairFacts
    <3>. QED
      BY <3>1 DEF ItemInv, InBuffer
  <2>2. InBuffer'
    BY <1>4, <2>1, PairFacts DEF ItemInv, InBuffer, P!Slot
  <2>3. ASSUME NEW r \in Nat, r < P!Over(consumer)' PROVE consumed[r] = Item(r)
    <3>1. r < P!Over(consumer) \/ r = round[consumer]
      BY <1>2, <1>4, <2>3
    <3>. QED
      BY <1>1, <1>4, <3>1 DEF ItemInv, Taken
  <2>4. Taken'
    BY <1>4, <2>3 DEF Taken
  <2>. QED
    BY <2>2, <2>4
<1>. QED
  BY <1>3, <1>4, PairFacts

LEMMA AdvanceLockedKeeps ==
    ASSUME ItemInv, NEW t \in P!Pair, P!AdvanceLocked(t), UNCHANGED <<program, verdict>>,
           program # "procon3"
    PROVE  ItemInv'
<1>1. /\ P!At(t, "copied") /\ P!Advance(t) /\ P!Goto(t, "advanced")
      /\ UNCHANGED <<mutex, buffer, consumed, published, known>>
  BY DEF P!AdvanceLocked, P!copies, P!order
<1>2. published' \in [P!Pair -> Nat] /\ known' \in [P!Pair -> Nat]
  BY <1>1 DEF ItemInv, ItemTypes
<1>3. /\ ItemTypes' /\ Bounded' /\ ItemVerdict' /\ InBuffer' /\ Taken'
      /\ \A u \in P!Pair : u # t => P!Over(u)' = P!Over(u) /\ pc'[u] = pc[u]
  BY <1>1, <1>2, AdvanceNumbers, AdvanceData
<1>4. pc[t] \in Held /\ pc'[t] \in Held
  BY <1>1 DEF P!At, P!Goto, Held, ItemInv, ItemTypes
<1>5. Informed'
  BY <1>1, <1>3, <1>4, PairFacts DEF ItemInv, Informed, P!Other
<1>. QED
  BY <1>3, <1>5 DEF ItemInv

LEMMA AdvanceAtomicKeeps ==
    ASSUME ItemInv, NEW t \in P!Pair, P!AdvanceAtomic(t), UNCHANGED <<program, verdict>>,
           program = "procon3"
    PROVE  ItemInv'
<1>1. /\ P!At(t, "copied") /\ P!Advance(t) /\ P!EndRound(t)
      /\ published' = [published EXCEPT ![t] = round[t] + 1]
      /\ UNCHANGED <<mutex, buffer, consumed, known>>
  BY DEF P!AdvanceAtomic, P!copies
<1>2. published' \in [P!Pair -> Nat] /\ known' \in [P!Pair -> Nat]
  BY <1>1, Numbers DEF ItemInv, ItemTypes
<1>3. /\ ItemTypes' /\ Bounded' /\ ItemVerdict' /\ P!Over(t)' = round[t] + 1
      /\ \A u \in P!Pair : u # t => /\ P!Over(u)' = P!Over(u)
                                    /\ pc'[u] = pc[u] /\ round'[u] = round[u]
  BY <1>1, <1>2, AdvanceNumbers
<1>4. InBuffer' /\ Taken'
  BY <1>1, <1>2, AdvanceNumbers, AdvanceData
<1>5. \A u \in P!Pair : published'[u] = P!Over(u)'
  BY <1>1, <1>3 DEF ItemInv, ItemTypes, Informed
<1>6. pc'[consumer] \in InCopy => known[consumer] > round'[consumer]
  <2>1. pc'[t] = "next"
    BY <1>1 DEF P!EndRound, ItemInv, ItemTypes
  <2>. QED
    BY <1>3, <2>1, PairFacts DEF ItemInv, Informed, InCopy
<1>. QED
  BY <1>1, <1>3, <1>4, <1>5, <1>6 DEF ItemInv, Informed

-----------------------------------------------------------------------------
(* The other steps *)

LEMMA CopyKeeps ==
    ASSUME ItemInv, NEW t \in P!Pair, UNCHANGED <<program, verdict>>,
           P!Copy(t, P!Goto(t, "copied"))
    PROVE  ItemInv'
BY PairFacts, ProducerCopies, ConsumerCopies DEF P!Copy

LEMMA BoundKeeps ==
    ASSUME ItemInv, NEW t \in P!Pair, P!LoadBound(t), UNCHANGED <<program, verdict>>,
           program = "procon3"
    PROVE  ItemInv'
<1>1. /\ pc[t] = "next" /\ round[t] < Items /\ P!Ready(t) /\ P!LoadOrder(t)
      /\ pc' = [pc EXCEPT ![t] = "copy"]
      /\ UNCHANGED <<round, mutex, buffer, consumed, produced_until, consumed_until>>
  BY DEF P!LoadBound, P!At, P!Goto, P!copies, P!bounds
<1>2. /\ published' = published
      /\ t = consumer => known' = [known EXCEPT ![t] = published[producer]]
      /\ t = producer => known' = known
  BY <1>1, PairFacts DEF P!LoadOrder, P!Acquire, P!order
<1>3. published' \in [P!Pair -> Nat] /\ known' \in [P!Pair -> Nat]
  BY <1>2, PairFacts DEF ItemInv, ItemTypes
<1>4. /\ ItemTypes' /\ Bounded' /\ InBuffer' /\ Taken' /\ ItemVerdict'
      /\ \A u \in P!Pair : P!Over(u)' = P!Over(u)
      /\ pc'[t] = "copy" /\ \A u \in P!Pair : u # t => pc'[u] = pc[u] /\ round'[u] = round[u]
  BY <1>1, <1>3, ControlKeeps DEF Held, InCopy
<1>5. \A u \in P!Pair : published'[u] = P!Over(u)'
  BY <1>2, <1>4 DEF ItemInv, Informed
<1>6. pc'[consumer] \in InCopy => known'[consumer] > round'[consumer]
  <2>1. CASE t = consumer
    <3>1. produced_until > round[consumer] /\ published[producer] = produced_until
      BY <1>1, <2>1, PairFacts DEF P!Ready, ItemInv, Informed, Bounded
    <3>2. known'[consumer] = published[producer]
      BY <1>2, <2>1 DEF ItemInv, ItemTypes
    <3>. QED
      BY <1>1, <3>1, <3>2
  <2>2. CASE t = producer
    BY <1>2, <1>4, <2>2, PairFacts DEF ItemInv, Informed
  <2>. QED
    BY <2>1, <2>2, PairFacts
<1>. QED
  BY <1>4, <1>5, <1>6 DEF ItemInv, Informed

\* Into the critical section,
LEMMA EnterKeeps ==
    ASSUME ItemInv, NEW t \in P!Pair, P!Lock(t), UNCHANGED <<program, verdict>>,
           P!At(t, "next") \/ P!At(t, "asleep"), program # "procon3"
    PROVE  ItemInv'
<1>1. /\ pc[t] \in {"next", "asleep"} /\ round[t] < Items /\ P!lock_acquire(t) /\ P!Acquire(t)
      /\ pc' = [pc EXCEPT ![t] = "locked"]
      /\ UNCHANGED <<round, buffer, consumed, produced_until, consumed_until>>
  BY DEF P!Lock, P!At, P!Goto, P!copies, P!bounds, ItemInv, ItemTypes
<1>2. published' \in [P!Pair -> Nat] /\ known' \in [P!Pair -> Nat]
  BY <1>1, PairFacts DEF P!Acquire, P!Other, ItemInv, ItemTypes
<1>3. /\ ItemTypes' /\ Bounded' /\ InBuffer' /\ Taken' /\ ItemVerdict'
      /\ \A u \in P!Pair : P!Over(u)' = P!Over(u)
      /\ pc'[t] = "locked" /\ \A u \in P!Pair : u # t => pc'[u] = pc[u] /\ round'[u] = round[u]
  BY <1>1, <1>2, ControlKeeps DEF Held, InCopy
<1>4. Informed'
  BY <1>1, <1>3, LockInformed DEF Held
<1>. QED
  BY <1>3, <1>4 DEF ItemInv

\* out of it,
LEMMA LeaveKeeps ==
    ASSUME ItemInv, NEW t \in P!Pair, UNCHANGED <<program, verdict>>, program # "procon3",
           mutex' = NoOne, P!Release(t),
           UNCHANGED <<buffer, consumed, produced_until, consumed_until>>,
           \/ pc[t] = "locked" /\ P!Goto(t, "next")
           \/ pc[t] = "locked" /\ P!Goto(t, "asleep")
           \/ pc[t] = "advanced" /\ P!Goto(t, "signal")
           \/ pc[t] = "advanced" /\ P!EndRound(t)
    PROVE  ItemInv'
<1>1. round[t] < Items
  BY DEF ItemInv, ItemTypes
<1>2. PICK l \in {"next", "asleep", "signal"} :
         /\ pc' = [pc EXCEPT ![t] = l]
         /\ \/ pc[t] = "locked" /\ l \in {"next", "asleep"} /\ UNCHANGED round
            \/ pc[t] = "advanced" /\ l = "signal" /\ UNCHANGED round
            \/ pc[t] = "advanced" /\ l = "next" /\ round' = [round EXCEPT ![t] = @ + 1]
  BY DEF P!Goto, P!EndRound
<1>3. published' \in [P!Pair -> Nat] /\ known' \in [P!Pair -> Nat]
  BY Numbers DEF P!Release, ItemInv, ItemTypes
<1>4. /\ ItemTypes' /\ Bounded' /\ InBuffer' /\ Taken' /\ ItemVerdict'
      /\ \A u \in P!Pair : P!Over(u)' = P!Over(u)
      /\ pc'[t] = l /\ \A u \in P!Pair : u # t => pc'[u] = pc[u] /\ round'[u] = round[u]
  BY <1>1, <1>2, <1>3, ControlKeeps DEF Held, InCopy
<1>5. Informed'
  BY <1>2, <1>4, UnlockInformed DEF Held
<1>. QED
  BY <1>4, <1>5 DEF ItemInv

\* within it, or outside.
LEMMA GoKeeps ==
    ASSUME ItemInv, NEW t \in P!Pair, UNCHANGED <<program, verdict>>, program # "procon3",
           UNCHANGED <<mutex, buffer, consumed, produced_until, consumed_until, published, known>>,
           \/ pc[t] = "locked" /\ P!Ready(t) /\ P!Goto(t, "copy")
           \/ pc[t] = "signal" /\ P!EndRound(t)
    PROVE  ItemInv'
<1>1. round[t] < Items /\ published' \in [P!Pair -> Nat] /\ known' \in [P!Pair -> Nat]
  BY DEF ItemInv, ItemTypes
<1>2. PICK l \in {"copy", "next"} :
         /\ pc' = [pc EXCEPT ![t] = l]
         /\ \/ pc[t] = "locked" /\ l = "copy" /\ P!Ready(t) /\ UNCHANGED round
            \/ pc[t] = "signal" /\ l = "next" /\ round' = [round EXCEPT ![t] = @ + 1]
  BY DEF P!Goto, P!EndRound
<1>3. /\ ItemTypes' /\ Bounded' /\ InBuffer' /\ Taken' /\ ItemVerdict'
      /\ \A u \in P!Pair : P!Over(u)' = P!Over(u)
      /\ pc'[t] = l /\ \A u \in P!Pair : u # t => pc'[u] = pc[u] /\ round'[u] = round[u]
  BY <1>1, <1>2, ControlKeeps DEF Held, InCopy
<1>4. Informed'
  BY <1>2, <1>3, QuietInformed DEF Held
<1>. QED
  BY <1>3, <1>4 DEF ItemInv

\* Only the verdict, the sleepers and the spurious wake-ups change.
LEMMA NothingMoves ==
    ASSUME ItemInv, ItemVerdict',
           UNCHANGED <<program, pc, round, mutex, buffer, consumed, produced_until,
                       consumed_until, published, known>>
    PROVE  ItemInv'
<1>1. \A t \in P!Pair : P!Over(t)' = P!Over(t) /\ P!Slot(t)' = P!Slot(t)
  BY DEF P!Over, P!Slot
<1>2. producer \in P!Pair /\ consumer \in P!Pair
  BY PairFacts
<1>3. ItemTypes'
  BY DEF ItemInv, ItemTypes
<1>4. Bounded' /\ InBuffer' /\ Taken'
  BY <1>1, <1>2 DEF ItemInv, Bounded, InBuffer, Taken
<1>5. Informed'
  BY <1>1, QuietInformed
<1>. QED
  BY <1>3, <1>4, <1>5 DEF ItemInv

LEMMA ItemMainKeeps ==
    ASSUME ItemInv, P!main, UNCHANGED program
    PROVE  ItemInv'
<1>1. /\ \A t \in P!Pair : pc[t] = "next" /\ round[t] = Items
      /\ verdict' = IF \A r \in 0 .. Items - 1 : consumed[r] = <<r, r>> THEN "correct" ELSE "wrong"
      /\ UNCHANGED <<pc, round, mutex, buffer, consumed, produced_until, consumed_until,
                     published, known>>
  BY DEF P!main, P!AllReturned, P!copies, P!bounds, P!order
<1>2. P!Over(consumer) = Items
  BY <1>1, PairFacts DEF P!Over
<1>3. \A r \in 0 .. Items - 1 : consumed[r] = <<r, r>>
  BY <1>2, PairFacts DEF ItemInv, Taken, Item
<1>4. ItemVerdict'
  BY <1>1, <1>3 DEF ItemVerdict
<1>. QED
  BY <1>1, <1>4, NothingMoves

LEMMA SpuriousKeeps ==
    ASSUME ItemInv, P!spurious_wakeup, UNCHANGED program
    PROVE  ItemInv'
<1>1. UNCHANGED <<pc, round, mutex, verdict, buffer, consumed, produced_until, consumed_until,
                  published, known>>
  BY DEF P!spurious_wakeup, P!copies, P!bounds, P!order
<1>2. ItemVerdict'
  BY <1>1 DEF ItemInv, ItemVerdict
<1>. QED
  BY <1>1, <1>2, NothingMoves

-----------------------------------------------------------------------------

LEMMA ItemStarts == Init /\ program \in P!Programs \ {"procon1"} => ItemInv
<1>. SUFFICES ASSUME Init, program \in P!Programs \ {"procon1"} PROVE ItemInv
  OBVIOUS
<1>1. /\ pc = [t \in P!Pair |-> "next"] /\ round = [t \in P!Pair |-> 0] /\ mutex = NoOne
      /\ verdict = "none"
  BY DEF Init, C!Init, E!Init, P!Init, C!Programs, E!Programs, P!Programs, P!lock_init
<1>2. /\ buffer = [i \in 0 .. BUFFER_SIZE - 1 |-> <<-1, -1>>]
      /\ consumed = [r \in 0 .. Items - 1 |-> <<-1, -1>>]
      /\ produced_until = 0 /\ consumed_until = 0
      /\ published = [t \in P!Pair |-> 0] /\ known = [t \in P!Pair |-> 0]
  BY DEF Init, P!Fresh
<1>3. <<-1, -1>> \in Int \X Int
  OBVIOUS
<1>4. ItemTypes
  BY <1>1, <1>2, <1>3, PairFacts DEF ItemTypes, Held, InCopy
<1>5. \A t \in P!Pair : P!Over(t) = 0
  BY <1>1 DEF P!Over
<1>6. producer \in P!Pair /\ consumer \in P!Pair /\ BUFFER_SIZE \in Nat
  BY PairFacts
<1>7. Bounded
  BY <1>1, <1>2, <1>5, <1>6 DEF Bounded, InCopy
<1>8. InBuffer /\ Taken
  BY <1>1, <1>5, <1>6 DEF InBuffer, Taken
<1>9. Informed
  BY <1>1, <1>2, <1>5, <1>6, PairFacts DEF Informed, Held, InCopy
<1>. QED
  BY <1>1, <1>4, <1>7, <1>8, <1>9 DEF ItemInv, ItemVerdict

LEMMA ItemNext == ItemInv /\ P!Next => ItemInv'
<1>. SUFFICES ASSUME ItemInv, P!Next PROVE ItemInv'
  OBVIOUS
<1>0. UNCHANGED program
  BY DEF P!Next
<1>1. program # "procon1"
  BY DEF ItemInv, ItemTypes
<1>2. CASE P!main
  BY <1>0, <1>2, ItemMainKeeps
<1>3. ASSUME NEW t \in P!Pair, P!BusyWaiting(t), UNCHANGED verdict, program = "procon2"
      PROVE  ItemInv'
  <2>1. CASE P!At(t, "next") /\ P!Lock(t)
    BY <1>0, <1>3, <2>1, EnterKeeps
  <2>2. CASE /\ P!At(t, "locked") /\ P!Ready(t) /\ P!Goto(t, "copy")
             /\ UNCHANGED <<mutex, asleep, P!copies, P!bounds, P!order, spurious>>
    BY <1>0, <1>3, <2>2, GoKeeps DEF P!At, P!copies, P!bounds, P!order
  <2>3. CASE /\ P!At(t, "locked") /\ ~ P!Ready(t) /\ P!lock_release(t) /\ P!Release(t)
             /\ P!Goto(t, "next") /\ UNCHANGED <<P!copies, P!bounds, spurious>>
    BY <1>0, <1>3, <2>3, LeaveKeeps DEF P!At, P!lock_release, P!copies, P!bounds
  <2>4. CASE P!Copy(t, P!Goto(t, "copied"))
    BY <1>0, <1>3, <2>4, CopyKeeps
  <2>5. CASE P!AdvanceLocked(t)
    BY <1>0, <1>3, <2>5, AdvanceLockedKeeps
  <2>6. CASE /\ P!At(t, "advanced") /\ P!lock_release(t) /\ P!Release(t) /\ P!EndRound(t)
             /\ UNCHANGED <<P!copies, P!bounds, spurious>>
    BY <1>0, <1>3, <2>6, LeaveKeeps DEF P!At, P!lock_release, P!copies, P!bounds
  <2>. QED
    BY <1>3, <2>1, <2>2, <2>3, <2>4, <2>5, <2>6 DEF P!BusyWaiting
<1>4. ASSUME NEW t \in P!Pair, P!Overtaking(t), UNCHANGED verdict, program = "procon3"
      PROVE  ItemInv'
  BY <1>0, <1>4, BoundKeeps, CopyKeeps, AdvanceAtomicKeeps DEF P!Overtaking
<1>5. ASSUME NEW t \in P!Pair, P!Sleeping(t), UNCHANGED verdict, program = "procon4"
      PROVE  ItemInv'
  <2>1. CASE (P!At(t, "next") /\ P!Lock(t)) \/ (P!At(t, "asleep") /\ t \notin asleep /\ P!Lock(t))
    BY <1>0, <1>5, <2>1, EnterKeeps
  <2>2. CASE P!Wait(t)
    BY <1>0, <1>5, <2>2, LeaveKeeps DEF P!Wait, P!At, P!lock_wait, P!copies, P!bounds
  <2>3. CASE /\ P!At(t, "locked") /\ P!Ready(t) /\ P!Goto(t, "copy")
             /\ UNCHANGED <<mutex, asleep, P!copies, P!bounds, P!order, spurious>>
    BY <1>0, <1>5, <2>3, GoKeeps DEF P!At, P!copies, P!bounds, P!order
  <2>4. CASE P!Copy(t, P!Goto(t, "copied"))
    BY <1>0, <1>5, <2>4, CopyKeeps
  <2>5. CASE P!AdvanceLocked(t)
    BY <1>0, <1>5, <2>5, AdvanceLockedKeeps
  <2>6. CASE /\ P!At(t, "advanced") /\ P!lock_release(t) /\ P!Release(t) /\ P!Goto(t, "signal")
             /\ UNCHANGED <<P!copies, P!bounds, spurious>>
    BY <1>0, <1>5, <2>6, LeaveKeeps DEF P!At, P!lock_release, P!copies, P!bounds
  <2>7. CASE P!Signal(t)
    BY <1>0, <1>5, <2>7, GoKeeps
       DEF P!Signal, P!At, P!lock_wake_up, P!copies, P!bounds, P!order
  <2>. QED
    BY <1>5, <2>1, <2>2, <2>3, <2>4, <2>5, <2>6, <2>7 DEF P!Sleeping
<1>6. CASE P!Procon2
  BY <1>2, <1>3, <1>6 DEF P!Procon2, P!Thread
<1>7. CASE P!Procon3
  BY <1>2, <1>4, <1>7 DEF P!Procon3, P!Thread
<1>8. CASE P!Procon4
  BY <1>0, <1>2, <1>5, <1>8, SpuriousKeeps DEF P!Procon4, P!Thread
<1>. QED
  BY <1>1, <1>6, <1>7, <1>8 DEF P!Next, P!Procon1

LEMMA ItemsRight == ItemInv => P!HandedOver /\ P!Ordered
<1>. SUFFICES ASSUME ItemInv PROVE P!HandedOver /\ P!Ordered
  OBVIOUS
<1>1. producer \in P!Pair /\ consumer \in P!Pair
  BY PairFacts
<1>2. \A t \in P!Pair : P!Copying(t) => pc[t] \in InCopy /\ pc[t] \in Held /\ P!Over(t) = round[t]
  BY Numbers DEF P!Copying, InCopy, Held
<1>3. verdict # "wrong"
  BY DEF ItemInv, ItemVerdict
<1>4. ASSUME P!Copying(producer), P!Copying(consumer)
      PROVE  P!Slot(producer) # P!Slot(consumer)
  <2>1. /\ round[consumer] \in Nat /\ P!Over(consumer) = round[consumer]
        /\ round[consumer] < P!Over(producer) /\ pc[producer] \in InCopy
    BY <1>1, <1>2, <1>4, Numbers DEF ItemInv, Bounded
  <2>. QED
    BY <2>1, FreeSlot DEF P!Slot
<1>5. \A r \in 0 .. round[consumer] - 1 : consumed[r] = <<r, r>>
  BY <1>1, Numbers DEF ItemInv, Taken, Item
<1>6. ASSUME P!Copying(consumer) PROVE known[consumer] > round[consumer]
  <2>1. CASE program = "procon3"
    BY <1>2, <1>1, <1>6, <2>1 DEF ItemInv, Informed
  <2>2. CASE program # "procon3"
    <3>1. known[consumer] = P!Over(producer) /\ round[consumer] < P!Over(producer)
      BY <1>1, <1>2, <1>6, <2>2, PairFacts DEF ItemInv, Informed, Bounded
    <3>. QED
      BY <1>1, <3>1, Numbers
  <2>. QED
    BY <2>1, <2>2
<1>7. ASSUME program # "procon3", P!Copying(producer)
      PROVE  known[producer] > round[producer] - BUFFER_SIZE
  <2>1. /\ known[producer] = P!Over(consumer)
        /\ round[producer] < P!Over(consumer) + BUFFER_SIZE
    BY <1>1, <1>2, <1>7, PairFacts DEF ItemInv, Informed, Bounded
  <2>2. round[producer] \in Nat /\ P!Over(consumer) \in Nat /\ BUFFER_SIZE \in Nat
    BY <1>1, Numbers, PairFacts
  <2>. QED
    BY <2>1, <2>2
<1>. QED
  BY <1>3, <1>4, <1>5, <1>6, <1>7 DEF P!HandedOver, P!Ordered

-----------------------------------------------------------------------------
(* The theorems *)

\* A behaviour runs one program; its invariant is the one that has to hold.
ExamplesInv ==
    /\ program \in C!Programs => CounterInv
    /\ program \in E!Programs => ElectionInv
    /\ program \in P!Programs \ {"procon1"} => ItemInv

LEMMA OneProgram ==
    /\ C!Next => program \in C!Programs /\ UNCHANGED program
    /\ E!Next => program \in E!Programs /\ UNCHANGED program
    /\ P!Next => program \in P!Programs /\ UNCHANGED program
    /\ C!Programs \cap E!Programs = {} /\ C!Programs \cap P!Programs = {}
    /\ E!Programs \cap P!Programs = {}
<1>1. C!Next => program \in C!Programs /\ UNCHANGED program
  BY DEF C!Next, C!Programs, C!Counter1, C!Counter2, C!Counter3, C!Counter4, C!Playground
<1>2. E!Next => program \in E!Programs /\ UNCHANGED program
  BY DEF E!Next, E!Programs, E!Election1, E!Election2, E!Election3, E!Election4
<1>3. P!Next => program \in P!Programs /\ UNCHANGED program
  BY DEF P!Next, P!Programs, P!Procon1, P!Procon2, P!Procon3, P!Procon4
<1>4. /\ C!Programs \cap E!Programs = {} /\ C!Programs \cap P!Programs = {}
      /\ E!Programs \cap P!Programs = {}
  BY DEF C!Programs, E!Programs, P!Programs
<1>. QED
  BY <1>1, <1>2, <1>3, <1>4

\* Nothing an invariant reads changes.
LEMMA StutterKeeps == ExamplesInv /\ UNCHANGED vars => ExamplesInv'
<1>. SUFFICES ASSUME ExamplesInv, UNCHANGED vars PROVE ExamplesInv'
  OBVIOUS
<1>1. UNCHANGED <<program, pc, round, mutex, asleep, verdict, counter, local, check_counter,
                  leader, nb_leaders, buffer, produced_until, consumed_until, consumed,
                  published, known, spurious>>
  BY DEF vars, counting, electing, producing
<1>2. CounterInv => CounterInv'
  <2>1. Stored' = Stored /\ Called' = Called
    BY <1>1 DEF Stored, Called
  <2>2. C!Expected' = C!Expected
    BY SameCardinality DEF C!Expected
  <2>3. CounterTypes => CounterTypes'
    BY <1>1 DEF CounterTypes
  <2>4. (Upper => Upper') /\ (Lower => Lower') /\ (Exact => Exact')
    BY <1>1, <2>1 DEF Upper, Lower, Exact
  <2>5. (CounterLocked => CounterLocked') /\ (CallsCounted => CallsCounted')
    BY <1>1, <2>1 DEF CounterLocked, CallsCounted
  <2>6. CounterVerdict => CounterVerdict'
    BY <1>1, <2>2 DEF CounterVerdict
  <2>. QED
    BY <2>3, <2>4, <2>5, <2>6 DEF CounterInv
<1>3. ElectionInv => ElectionInv'
  BY <1>1 DEF ElectionInv, ElectionTypes, Passed, Said, Single, ElectionLocked, ElectionVerdict
<1>4. ItemInv => ItemInv'
  BY <1>1, NothingMoves DEF ItemInv, ItemVerdict
<1>. QED
  BY <1>1, <1>2, <1>3, <1>4 DEF ExamplesInv

LEMMA ExamplesStart == Init => ExamplesInv
BY CounterStarts, ElectionStarts, ItemStarts DEF ExamplesInv

LEMMA ExamplesNext == ExamplesInv /\ [Next]_vars => ExamplesInv'
<1>. SUFFICES ASSUME ExamplesInv, [Next]_vars PROVE ExamplesInv'
  OBVIOUS
<1>1. CASE C!Next
  BY <1>1, OneProgram, CounterNext DEF ExamplesInv
<1>2. CASE E!Next
  BY <1>2, OneProgram, ElectionNext DEF ExamplesInv
<1>3. CASE P!Next
  BY <1>3, OneProgram, ItemNext DEF ExamplesInv
<1>4. CASE UNCHANGED vars
  BY <1>4, StutterKeeps
<1>. QED
  BY <1>1, <1>2, <1>3, <1>4 DEF Next, Counts, Elects, Produces, Finished

LEMMA ExamplesStay == Spec => []ExamplesInv
<1>1. Init => ExamplesInv
  BY ExamplesStart
<1>2. ExamplesInv /\ [Next]_vars => ExamplesInv'
  BY ExamplesNext
<1>. QED
  BY <1>1, <1>2, PTL DEF Spec

\* Two increments that overlap lose one and never make one up; behind a lock or
\* with an atomic addition none gets lost.  sync-examples/counter1.c to 4.
THEOREM CountersRight == Spec => []CountsRight
<1>1. ExamplesInv => CountsRight
  BY CounterRight DEF ExamplesInv, CountsRight
<1>. QED
  BY <1>1, ExamplesStay, PTL

\* Every round of election2 and election4 has one leader, and none of any
\* program has none.  sync-examples/election1.c to 4.
THEOREM LeadersSingle == Spec => []OneLeader
<1>1. ExamplesInv => OneLeader
  BY ElectionRight DEF ExamplesInv, OneLeader
<1>. QED
  BY <1>1, ExamplesStay, PTL

\* procon2 to procon4 hand every round over whole, and the two threads are never
\* in the same slot.
THEOREM ItemsHandedOver == Spec => []HandedOver
<1>1. ExamplesInv => HandedOver
  <2>1. program = "procon1" => P!HandedOver
    BY DEF P!HandedOver
  <2>. QED
    BY <2>1, ItemsRight DEF ExamplesInv, HandedOver
<1>. QED
  BY <1>1, ExamplesStay, PTL

\* What the consumer reads it has been told of, by the mutex or by the counter it
\* acquires; under the mutex the producer knows that a slot has been read.
THEOREM ReadsOrdered == Spec => []Ordered
<1>1. ExamplesInv => Ordered
  <2>1. program = "procon1" => P!Ordered
    BY DEF P!Ordered
  <2>. QED
    BY <2>1, ItemsRight DEF ExamplesInv, Ordered
<1>. QED
  BY <1>1, ExamplesStay, PTL
=============================================================================
