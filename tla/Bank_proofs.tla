----------------------------- MODULE Bank_proofs -----------------------------
(***************************************************************************)
(* For any number of workers, accounts and transactions, and whatever the  *)
(* closures do, the wrapper ends every transaction once and a call commits *)
(* once (Transactional!CommittedOnce); with the closures of the bank, no   *)
(* money appears or goes (MoneyConserved) and the accounts stay where an   *)
(* index finds them (ChainFull).                                           *)
(***************************************************************************)
EXTENDS Bank, TLAPS, SequenceTheorems, WellFoundedInduction

TxTypes ==
    /\ at \in [Workers -> {"idle", "attempt", "destructor", "returned", "threw"}]
    /\ handle \in [Workers -> {"none", "live", "dead"}]
    /\ aborted \in [Workers -> BOOLEAN]
    /\ exception \in [Workers -> {"none", "retry", "alloc", "begin"}]
    /\ commits \in [Workers -> Int]

\* An exception is in flight only in the destructor, where it is a retry if
\* and only if the library has ended the transaction; what leaves the call is
\* a failed allocation or a failed begin.
InFlight ==
    \A t \in Workers :
        /\ at[t] \in {"idle", "attempt"} => exception[t] = "none"
        /\ at[t] = "destructor" =>
              /\ commits[t] = 0
              /\ exception[t] \in IF aborted[t] THEN {"retry"} ELSE {"none", "alloc"}
        /\ at[t] = "threw" => exception[t] \in {"alloc", "begin"}

TxInv == TxTypes /\ InFlight /\ CommittedOnce

-----------------------------------------------------------------------------

\* The steps of the wrapper, with any closure.
TxStep(t) ==
    \/ \E m : transactional(t, m)
    \/ leave(t)
    \/ \E writes, v : closure_returns(t, writes, v)
    \/ operation_refused(t)
    \/ \E writes : alloc_nomem(t, writes)
    \/ begin_fails(t)
    \/ destructor(t)

\* Every step of the bank is one of them.
LEMMA BankSteps ==
    ASSUME NEW t \in Workers, Worker(t)
    PROVE  TxStep(t)
BY DEF Worker, TxStep, init, init_closure, init_check, check_closure, init_returns,
       long_tx, long_closure, long_returns, alloc_tx, alloc_closure, alloc_throws,
       alloc_returns, short_tx, short_closure, short_returns, refused, Wrapper,
       Call, Pure, NextTx

\* One step of a worker keeps the invariant.
LEMMA TxStepSafe ==
    ASSUME TxInv, ~ terminated, NEW t \in Workers, TxStep(t)
    PROVE  TxInv'
<1> USE DEF TxInv, TxTypes, InFlight, CommittedOnce
<1>1. CASE \E m : transactional(t, m)
  BY <1>1 DEF transactional, transaction
<1>2. CASE leave(t)
  BY <1>2 DEF leave, transaction
<1>3. CASE \E writes, v : closure_returns(t, writes, v)
  BY <1>3 DEF closure_returns, Attempted
<1>4. CASE operation_refused(t)
  BY <1>4 DEF operation_refused, Attempted, Marked
<1>5. CASE \E writes : alloc_nomem(t, writes)
  BY <1>5 DEF alloc_nomem, Attempted
<1>6. CASE begin_fails(t)
  BY <1>6 DEF begin_fails
<1>7. CASE end_commits(t)
  BY <1>7 DEF end_commits, Ending, Destroyed
<1>8. CASE end_refused(t)
  <2>1. CASE exception[t] = "none"
    BY <1>8, <2>1 DEF end_refused, Ending, Destroyed, AfterRefusal
  <2>2. CASE exception[t] # "none"
    <3>1. exception[t] = "alloc" /\ ~ aborted[t] /\ terminated'
      BY <1>8, <2>2 DEF end_refused, Ending
    <3>2. /\ at' = [at EXCEPT ![t] = "threw"] /\ handle' = [handle EXCEPT ![t] = "none"]
          /\ aborted' = [aborted EXCEPT ![t] = FALSE] /\ UNCHANGED <<exception, commits>>
      BY <1>8, <2>2 DEF end_refused, Destroyed
    <3> QED
      BY <3>1, <3>2
  <2> QED
    BY <2>1, <2>2
<1>9. CASE end_skipped(t)
  BY <1>9 DEF end_skipped, Destroyed
<1> QED
  BY <1>1, <1>2, <1>3, <1>4, <1>5, <1>6, <1>7, <1>8, <1>9 DEF TxStep, destructor

LEMMA TxInvariance == Spec => []TxInv
<1>1. Init => TxInv
  BY DEF Init, TxInit, TxInv, TxTypes, InFlight, CommittedOnce
<1>2. TxInv /\ [Next]_vars => TxInv'
  <2>1. ASSUME TxInv, UNCHANGED vars PROVE TxInv'
    BY <2>1 DEF vars, tx_vars, transaction, TxInv, TxTypes, InFlight, CommittedOnce
  <2>2. ASSUME TxInv, ~ terminated, NEW t \in Workers, Worker(t) PROVE TxInv'
    BY <2>2, BankSteps, TxStepSafe
  <2> QED
    BY <2>1, <2>2 DEF Next
<1> QED
  BY <1>1, <1>2, PTL DEF Spec

\* transactional.hpp:605, "Repeat a given transaction until it commits", and
\* the destructor before it: no call returns without a commit or after two, and
\* no transaction of the library is ended twice or not at all, for any closures.
THEOREM WrapperCommitsOnce == Spec => []CommittedOnce
<1>1. TxInv => CommittedOnce
  BY DEF TxInv
<1> QED
  BY <1>1, TxInvariance, PTL

-----------------------------------------------------------------------------
(* Sums *)

LEMMA Least ==
    ASSUME NEW T \in SUBSET Nat, T # {}
    PROVE  \E x \in T : \A y \in T : x <= y
<1>. DEFINE R == OpToRel(<, Nat)
<1>1. \A x, y \in Nat : y < x => <<y, x>> \in R
  BY DEF OpToRel
<1>2. IsWellFoundedOn(R, Nat)
  BY NatLessThanWellFounded
<1>. HIDE DEF R
<1>3. PICK x \in T : \A y \in T : ~ (<<y, x>> \in R)
  BY <1>2, WFMin
<1>4. \A y \in T : ~ (y < x)
  BY <1>1, <1>3
<1>. QED
  BY <1>4

\* Induction, over a set of naturals instead of a predicate.
LEMMA Induct ==
    ASSUME NEW S \in SUBSET Nat, 0 \in S, \A n \in Nat : n \in S => n + 1 \in S
    PROVE  S = Nat
<1>1. SUFFICES ASSUME Nat \ S # {} PROVE FALSE
  OBVIOUS
<1>2. PICK x \in Nat \ S : \A y \in Nat \ S : x <= y
  BY <1>1, Least
<1>3. x # 0 /\ x - 1 \in Nat /\ x - 1 \in S
  BY <1>2
<1>. QED
  BY <1>2, <1>3

\* The first n values of f are integers.
Ints(f, n) == \A k \in 1 .. n : f[k] \in Int

\* g[k] is the sum of the first k values of f.
Sums(g, f, n) ==
    /\ g \in [0 .. n -> Int]
    /\ g[0] = 0
    /\ \A k \in 0 .. n - 1 : g[k + 1] = g[k] + f[k + 1]

LEMMA SumsExist ==
    ASSUME NEW f, NEW N \in Nat, Ints(f, N)
    PROVE  \E g : Sums(g, f, N)
<1>. DEFINE B == {n \in Nat : n <= N => \E g : Sums(g, f, n)}
<1>1. 0 \in B
  <2>1. Sums([k \in 0 .. 0 |-> 0], f, 0)
    BY DEF Sums
  <2>. QED
    BY <2>1
<1>2. ASSUME NEW n \in Nat, n \in B PROVE n + 1 \in B
  <2>1. SUFFICES ASSUME n + 1 <= N PROVE \E g : Sums(g, f, n + 1)
    OBVIOUS
  <2>2. PICK g : Sums(g, f, n)
    BY <1>2, <2>1
  <2>3. f[n + 1] \in Int
    BY <2>1 DEF Ints
  <2>. DEFINE h == [k \in 0 .. n + 1 |-> IF k = n + 1 THEN g[n] + f[n + 1] ELSE g[k]]
  <2>4. g \in [0 .. n -> Int] /\ g[0] = 0 /\ \A k \in 0 .. n - 1 : g[k + 1] = g[k] + f[k + 1]
    BY <2>2 DEF Sums
  <2>5. h \in [0 .. n + 1 -> Int]
    BY <2>3, <2>4
  <2>6. h[0] = 0 /\ \A k \in 0 .. (n + 1) - 1 : h[k + 1] = h[k] + f[k + 1]
    BY <2>4
  <2>. HIDE DEF h
  <2>7. Sums(h, f, n + 1)
    BY <2>5, <2>6 DEF Sums
  <2>. QED
    BY <2>7
<1>3. B = Nat
  <2>. HIDE DEF B
  <2>1. B \in SUBSET Nat
    BY DEF B
  <2>. QED
    BY <1>1, <1>2, <2>1, Induct
<1>. QED
  BY <1>3

\* SumTo is that sum.
LEMMA SumToIs ==
    ASSUME NEW f, NEW n \in Nat, Ints(f, n), NEW g, Sums(g, f, n)
    PROVE  SumTo(f, n) = g[n]
<1>. DEFINE sum[k \in 0 .. n] == IF k = 0 THEN 0 ELSE sum[k - 1] + f[k]
<1>1. sum = CHOOSE h : h = [k \in 0 .. n |-> IF k = 0 THEN 0 ELSE h[k - 1] + f[k]]
  OBVIOUS
<1>2. SumTo(f, n) = sum[n]
  BY DEF SumTo
<1>3. g = [k \in 0 .. n |-> IF k = 0 THEN 0 ELSE g[k - 1] + f[k]]
  <2>1. \A k \in 0 .. n : g[k] = IF k = 0 THEN 0 ELSE g[k - 1] + f[k]
    <3>1. TAKE k \in 0 .. n
    <3>2. CASE k = 0
      BY <3>2 DEF Sums
    <3>3. CASE k # 0
      <4>1. k - 1 \in 0 .. n - 1 /\ (k - 1) + 1 = k
        BY <3>3
      <4>2. g[(k - 1) + 1] = g[k - 1] + f[(k - 1) + 1]
        BY <4>1 DEF Sums
      <4>. QED
        BY <3>3, <4>1, <4>2
    <3>. QED
      BY <3>2, <3>3
  <2>2. g = [k \in 0 .. n |-> g[k]]
    BY DEF Sums
  <2>. QED
    BY <2>1, <2>2
<1>. HIDE DEF sum
<1>4. sum = [k \in 0 .. n |-> IF k = 0 THEN 0 ELSE sum[k - 1] + f[k]]
  BY <1>1, <1>3
<1>. DEFINE B == {k \in Nat : k <= n => sum[k] = g[k]}
<1>5. 0 \in B
  BY <1>3, <1>4
<1>6. ASSUME NEW k \in Nat, k \in B PROVE k + 1 \in B
  <2>1. SUFFICES ASSUME k + 1 <= n PROVE sum[k + 1] = g[k + 1]
    OBVIOUS
  <2>2. k + 1 \in 0 .. n /\ k + 1 # 0 /\ (k + 1) - 1 = k /\ k \in 0 .. n - 1
    BY <2>1
  <2>3. sum[k + 1] = sum[k] + f[k + 1]
    BY <1>4, <2>2
  <2>4. g[k + 1] = g[k] + f[k + 1]
    BY <2>2 DEF Sums
  <2>5. sum[k] = g[k]
    BY <1>6, <2>1
  <2>. QED
    BY <2>3, <2>4, <2>5
<1>7. B = Nat
  <2>. HIDE DEF B
  <2>1. B \in SUBSET Nat
    BY DEF B
  <2>. QED
    BY <1>5, <1>6, <2>1, Induct
<1>8. n \in B
  BY <1>7
<1>. QED
  BY <1>2, <1>8

LEMMA SumZero == \A f : SumTo(f, 0) = 0
<1>1. TAKE f
<1>2. Ints(f, 0) /\ 0 \in Nat
  BY DEF Ints
<1>3. PICK g : Sums(g, f, 0)
  BY <1>2, SumsExist
<1>. QED
  BY <1>2, <1>3, SumToIs DEF Sums

\* Sums grow one value at a time.
LEMMA SumStep ==
    ASSUME NEW f, NEW n \in Nat, Ints(f, n + 1)
    PROVE  /\ SumTo(f, n) \in Int
           /\ SumTo(f, n + 1) = SumTo(f, n) + f[n + 1]
<1>1. PICK g : Sums(g, f, n + 1)
  BY SumsExist
<1>2. /\ g \in [0 .. n + 1 -> Int] /\ g[0] = 0
      /\ \A k \in 0 .. (n + 1) - 1 : g[k + 1] = g[k] + f[k + 1]
  BY <1>1 DEF Sums
<1>3. PICK h : h = [k \in 0 .. n |-> g[k]]
  OBVIOUS
<1>4. Sums(h, f, n)
  BY <1>2, <1>3 DEF Sums
<1>5. Ints(f, n)
  BY DEF Ints
<1>6. SumTo(f, n) = h[n]
  BY <1>4, <1>5, SumToIs
<1>7. SumTo(f, n + 1) = g[n + 1]
  BY <1>1, SumToIs
<1>8. h[n] = g[n] /\ g[n] \in Int /\ g[n + 1] = g[n] + f[n + 1]
  BY <1>2, <1>3
<1>. QED
  BY <1>6, <1>7, <1>8

LEMMA SumInt ==
    ASSUME NEW f, NEW n \in Nat, Ints(f, n)
    PROVE  SumTo(f, n) \in Int
<1>1. PICK g : Sums(g, f, n)
  BY SumsExist
<1>. QED
  BY <1>1, SumToIs DEF Sums

\* A sum of which one value, the j-th, changes.
LEMMA SumChange ==
    ASSUME NEW f, NEW g, NEW n \in Nat, Ints(f, n), Ints(g, n),
           NEW j \in Int, \A k \in 1 .. n : k # j => f[k] = g[k]
    PROVE  SumTo(g, n) = SumTo(f, n) + (IF j \in 1 .. n THEN g[j] - f[j] ELSE 0)
<1>. DEFINE D(k) == IF j \in 1 .. k THEN g[j] - f[j] ELSE 0
            B == {k \in Nat : k <= n => SumTo(g, k) = SumTo(f, k) + D(k)}
<1>1. 0 \in B
  <2>1. D(0) = 0
    OBVIOUS
  <2>. QED
    BY <2>1, SumZero
<1>2. ASSUME NEW k \in Nat, k \in B PROVE k + 1 \in B
  <2>1. SUFFICES ASSUME k + 1 <= n PROVE SumTo(g, k + 1) = SumTo(f, k + 1) + D(k + 1)
    OBVIOUS
  <2>2. Ints(f, k + 1) /\ Ints(g, k + 1)
    BY <2>1 DEF Ints
  <2>3. /\ SumTo(f, k) \in Int /\ SumTo(f, k + 1) = SumTo(f, k) + f[k + 1]
        /\ SumTo(g, k) \in Int /\ SumTo(g, k + 1) = SumTo(g, k) + g[k + 1]
    BY <2>2, SumStep
  <2>4. SumTo(g, k) = SumTo(f, k) + D(k)
    BY <1>2, <2>1
  <2>5. f[k + 1] \in Int /\ g[k + 1] \in Int
    BY <2>2 DEF Ints
  <2>6. CASE k + 1 = j
    <3>1. D(k) = 0 /\ D(k + 1) = g[k + 1] - f[k + 1]
      BY <2>6
    <3>. QED
      BY <2>3, <2>4, <2>5, <3>1
  <2>7. CASE k + 1 # j
    <3>1. D(k + 1) = D(k)
      BY <2>7
    <3>2. f[k + 1] = g[k + 1]
      BY <2>1, <2>7
    <3>3. D(k) \in Int
      <4>1. j \in 1 .. k => f[j] \in Int /\ g[j] \in Int
        BY <2>1 DEF Ints
      <4>. QED
        BY <4>1
    <3>. HIDE DEF D
    <3>. QED
      BY <2>3, <2>4, <2>5, <3>1, <3>2, <3>3
  <2>. QED
    BY <2>6, <2>7
<1>3. B = Nat
  <2>. HIDE DEF B
  <2>1. B \in SUBSET Nat
    BY DEF B
  <2>. QED
    BY <1>1, <1>2, <2>1, Induct
<1>4. n \in B
  BY <1>3
<1>. QED
  BY <1>4

LEMMA SumSame ==
    ASSUME NEW f, NEW g, NEW n \in Nat, Ints(f, n), \A k \in 1 .. n : f[k] = g[k]
    PROVE  SumTo(g, n) = SumTo(f, n)
<1>1. Ints(g, n)
  BY DEF Ints
<1>2. SumTo(g, n) = SumTo(f, n) + (IF 0 \in 1 .. n THEN g[0] - f[0] ELSE 0)
  BY <1>1, SumChange
<1>3. SumTo(f, n) \in Int
  BY SumInt
<1>. QED
  BY <1>2, <1>3

\* Sums of naturals only grow.
LEMMA SumGrows ==
    ASSUME NEW f, NEW n \in Nat, \A k \in 1 .. n : f[k] \in Nat, NEW i \in 0 .. n
    PROVE  SumTo(f, i) \in Nat /\ SumTo(f, i) <= SumTo(f, n)
<1>. DEFINE A == {k \in Nat : k <= n => SumTo(f, k) \in Nat}
            B == {k \in Nat : i + k <= n => SumTo(f, i) <= SumTo(f, i + k)}
<1>1. \A k \in Nat : k + 1 <= n => SumTo(f, k + 1) = SumTo(f, k) + f[k + 1] /\ f[k + 1] \in Nat
  <2>1. ASSUME NEW k \in Nat, k + 1 <= n
        PROVE  SumTo(f, k + 1) = SumTo(f, k) + f[k + 1] /\ f[k + 1] \in Nat
    <3>1. Ints(f, k + 1)
      BY <2>1 DEF Ints
    <3>2. k + 1 \in 1 .. n
      BY <2>1
    <3>. QED
      BY <3>1, <3>2, SumStep
  <2>. QED
    BY <2>1
<1>2. A = Nat
  <2>1. 0 \in A
    BY SumZero
  <2>2. ASSUME NEW k \in Nat, k \in A PROVE k + 1 \in A
    BY <1>1, <2>2
  <2>. HIDE DEF A
  <2>3. A \in SUBSET Nat
    BY DEF A
  <2>. QED
    BY <2>1, <2>2, <2>3, Induct
<1>3. \A k \in 0 .. n : SumTo(f, k) \in Nat
  <2>1. TAKE k \in 0 .. n
  <2>2. k \in A
    BY <1>2
  <2>. QED
    BY <2>2
<1>4. B = Nat
  <2>1. 0 \in B
    <3>1. SumTo(f, i) \in Nat /\ i + 0 = i
      BY <1>3
    <3>. QED
      BY <3>1
  <2>2. ASSUME NEW k \in Nat, k \in B PROVE k + 1 \in B
    <3>1. SUFFICES ASSUME i + (k + 1) <= n PROVE SumTo(f, i) <= SumTo(f, i + (k + 1))
      OBVIOUS
    <3>2. i + k \in Nat /\ (i + k) + 1 = i + (k + 1) /\ i + k \in 0 .. n /\ i + (k + 1) \in 0 .. n
      BY <3>1
    <3>3. SumTo(f, (i + k) + 1) = SumTo(f, i + k) + f[(i + k) + 1] /\ f[(i + k) + 1] \in Nat
      BY <1>1, <3>1, <3>2
    <3>4. SumTo(f, i) <= SumTo(f, i + k)
      BY <2>2, <3>1, <3>2
    <3>5. SumTo(f, i) \in Nat /\ SumTo(f, i + k) \in Nat
      BY <1>3, <3>2
    <3>. QED
      BY <3>2, <3>3, <3>4, <3>5
  <2>. HIDE DEF B
  <2>3. B \in SUBSET Nat
    BY DEF B
  <2>. QED
    BY <2>1, <2>2, <2>3, Induct
<1>5. n - i \in Nat /\ i + (n - i) = n
  OBVIOUS
<1>6. n - i \in B
  BY <1>4, <1>5
<1>. QED
  BY <1>3, <1>5, <1>6

-----------------------------------------------------------------------------
(* Chains of segments *)

Segs == [count : 0 .. nbaccounts, parity : Int, accounts : [0 .. nbaccounts - 1 -> Int]]

\* A chain the transactions leave: all segments but the last are full, and the
\* last is not empty ...
Shape(m) ==
    /\ m \in Seq(Segs) /\ Len(m) >= 1
    /\ \A k \in 1 .. Len(m) - 1 : m[k].count = nbaccounts
    /\ m[Len(m)].count >= 1

\* ... and the balances are right.
Good(m) == Shape(m) /\ Consistent(m)

Held(s) == [i \in 1 .. nbaccounts |-> s.accounts[i - 1]]
Worth(s) == s.parity + Balances(s)
Worths(m) == [k \in 1 .. Len(m) |-> m[k].parity + Balances(m[k])]
Counts(m) == [j \in 1 .. Len(m) |-> m[j].count]

LEMMA Balanced ==
    ASSUME NEW s \in Segs
    PROVE  /\ s.count \in Nat /\ s.count <= nbaccounts /\ s.parity \in Int
           /\ \A i \in 0 .. nbaccounts - 1 : s.accounts[i] \in Int
           /\ Ints(Held(s), s.count)
           /\ Balances(s) = SumTo(Held(s), s.count)
           /\ Balances(s) \in Int /\ Worth(s) \in Int
<1>1. /\ s.count \in Nat /\ s.count <= nbaccounts /\ s.parity \in Int /\ nbaccounts \in Nat
      /\ \A i \in 0 .. nbaccounts - 1 : s.accounts[i] \in Int
  BY BankConstantsOk DEF Segs
<1>2. Ints(Held(s), s.count)
  BY <1>1 DEF Ints, Held
<1>3. Balances(s) = SumTo(Held(s), s.count)
  BY DEF Balances, Held
<1>4. Balances(s) \in Int
  BY <1>1, <1>2, <1>3, SumInt
<1>. QED
  BY <1>1, <1>2, <1>3, <1>4 DEF Worth

LEMMA ChainSums ==
    ASSUME NEW m \in Seq(Segs)
    PROVE  /\ Len(m) \in Nat
           /\ \A k \in 1 .. Len(m) : m[k] \in Segs
           /\ Sum(m) = SumTo(Worths(m), Len(m))
           /\ Ints(Worths(m), Len(m)) /\ Sum(m) \in Int
           /\ \A k \in 1 .. Len(m) : Worths(m)[k] = Worth(m[k])
           /\ \A k \in 1 .. Len(m) + 1 : Before(m, k) = SumTo(Counts(m), k - 1)
           /\ Total(m) = SumTo(Counts(m), Len(m))
           /\ \A k \in 1 .. Len(m) : Counts(m)[k] = m[k].count /\ Counts(m)[k] \in Nat
           /\ Ints(Counts(m), Len(m)) /\ Total(m) \in Nat
<1>1. /\ Len(m) \in Nat
      /\ \A k \in 1 .. Len(m) : m[k] \in Segs
  BY ElementOfSeq, LenProperties
<1>2. Sum(m) = SumTo(Worths(m), Len(m))
  BY DEF Sum, Worths
<1>3. \A k \in 1 .. Len(m) : Worths(m)[k] = Worth(m[k])
  BY DEF Worths, Worth
<1>4. \A k \in 1 .. Len(m) : Worth(m[k]) \in Int /\ m[k].count \in Nat
  BY <1>1, Balanced
<1>5. Ints(Worths(m), Len(m))
  BY <1>3, <1>4 DEF Ints
<1>6. \A k : Before(m, k) = SumTo(Counts(m), k - 1)
  BY DEF Before, Counts
<1>7. \A k \in 1 .. Len(m) : Counts(m)[k] = m[k].count /\ Counts(m)[k] \in Nat
  BY <1>4 DEF Counts
<1>8. Total(m) = SumTo(Counts(m), Len(m))
  <2>1. (Len(m) + 1) - 1 = Len(m)
    BY <1>1
  <2>. QED
    BY <1>6, <2>1 DEF Total
<1>9. Ints(Counts(m), Len(m))
  BY <1>7 DEF Ints
<1>10. Sum(m) \in Int
  BY <1>1, <1>2, <1>5, SumInt
<1>11. Total(m) \in Nat
  <2>1. Len(m) \in 0 .. Len(m)
    BY <1>1
  <2>. QED
    BY <1>1, <1>7, <1>8, <2>1, SumGrows
<1>. QED
  BY <1>1, <1>2, <1>3, <1>5, <1>6, <1>7, <1>8, <1>9, <1>10, <1>11

\* One segment changes.
LEMMA SegmentChange ==
    ASSUME NEW m \in Seq(Segs), NEW n \in Seq(Segs), Len(n) = Len(m), NEW k \in 1 .. Len(m),
           \A j \in 1 .. Len(m) : j # k => n[j] = m[j]
    PROVE  /\ Sum(n) = Sum(m) + Worth(n[k]) - Worth(m[k])
           /\ Total(n) = Total(m) + n[k].count - m[k].count
<1>0. /\ Len(m) \in Nat
      /\ Worth(m[k]) \in Int /\ Worth(n[k]) \in Int
      /\ m[k].count \in Nat /\ n[k].count \in Nat
      /\ Sum(m) \in Int /\ Total(m) \in Nat
  BY ChainSums, Balanced
<1>1. /\ \A j \in 1 .. Len(m) : j # k => Worths(m)[j] = Worths(n)[j]
      /\ \A j \in 1 .. Len(m) : j # k => Counts(m)[j] = Counts(n)[j]
  <2>1. \A j \in 1 .. Len(m) : Worths(n)[j] = Worth(n[j]) /\ Counts(n)[j] = n[j].count
    BY ChainSums
  <2>2. \A j \in 1 .. Len(m) : Worths(m)[j] = Worth(m[j]) /\ Counts(m)[j] = m[j].count
    BY ChainSums
  <2>. QED
    BY <2>1, <2>2
<1>2. Ints(Worths(m), Len(m)) /\ Ints(Worths(n), Len(m))
      /\ Ints(Counts(m), Len(m)) /\ Ints(Counts(n), Len(m))
  BY ChainSums
<1>3. SumTo(Worths(n), Len(m)) = SumTo(Worths(m), Len(m))
                                   + (IF k \in 1 .. Len(m) THEN Worths(n)[k] - Worths(m)[k] ELSE 0)
  <2>1. \A j \in 1 .. Len(m) : j # k => Worths(m)[j] = Worths(n)[j]
    BY <1>1
  <2>2. k \in Int
    OBVIOUS
  <2>. QED
    BY <1>0, <1>2, <2>1, <2>2, SumChange
<1>4. SumTo(Counts(n), Len(m)) = SumTo(Counts(m), Len(m))
                                   + (IF k \in 1 .. Len(m) THEN Counts(n)[k] - Counts(m)[k] ELSE 0)
  <2>1. \A j \in 1 .. Len(m) : j # k => Counts(m)[j] = Counts(n)[j]
    BY <1>1
  <2>2. k \in Int
    OBVIOUS
  <2>. QED
    BY <1>0, <1>2, <2>1, <2>2, SumChange
<1>5. Sum(n) = Sum(m) + (Worth(n[k]) - Worth(m[k]))
  BY <1>3, ChainSums
<1>6. Total(n) = Total(m) + (n[k].count - m[k].count)
  BY <1>4, ChainSums
<1>. QED
  BY <1>0, <1>5, <1>6

\* n is m and one segment more.
LEMMA SegmentMore ==
    ASSUME NEW m \in Seq(Segs), NEW n \in Seq(Segs), Len(n) = Len(m) + 1,
           \A j \in 1 .. Len(m) : n[j] = m[j]
    PROVE  /\ Sum(n) = Sum(m) + Worth(n[Len(n)])
           /\ Total(n) = Total(m) + n[Len(n)].count
<1>0. Len(m) \in Nat /\ Len(n) \in 1 .. Len(n)
  BY ChainSums
<1>1. \A j \in 1 .. Len(m) : Worths(n)[j] = Worths(m)[j] /\ Counts(n)[j] = Counts(m)[j]
  <2>1. \A j \in 1 .. Len(m) : j \in 1 .. Len(n)
    BY <1>0
  <2>2. \A j \in 1 .. Len(n) : Worths(n)[j] = Worth(n[j]) /\ Counts(n)[j] = n[j].count
    BY ChainSums
  <2>3. \A j \in 1 .. Len(m) : Worths(m)[j] = Worth(m[j]) /\ Counts(m)[j] = m[j].count
    BY ChainSums
  <2>. QED
    BY <2>1, <2>2, <2>3
<1>2. Ints(Worths(m), Len(m)) /\ Ints(Worths(n), Len(m) + 1)
      /\ Ints(Counts(m), Len(m)) /\ Ints(Counts(n), Len(m) + 1)
  BY ChainSums
<1>3. /\ SumTo(Worths(n), Len(m) + 1) = SumTo(Worths(n), Len(m)) + Worths(n)[Len(m) + 1]
      /\ SumTo(Counts(n), Len(m) + 1) = SumTo(Counts(n), Len(m)) + Counts(n)[Len(m) + 1]
  BY <1>0, <1>2, SumStep
<1>4. /\ SumTo(Worths(n), Len(m)) = SumTo(Worths(m), Len(m))
      /\ SumTo(Counts(n), Len(m)) = SumTo(Counts(m), Len(m))
  BY <1>0, <1>1, <1>2, SumSame
<1>5. Sum(n) = SumTo(Worths(n), Len(m) + 1) /\ Total(n) = SumTo(Counts(n), Len(m) + 1)
  BY ChainSums
<1>6. Worths(n)[Len(n)] = Worth(n[Len(n)]) /\ Counts(n)[Len(n)] = n[Len(n)].count
  BY <1>0, ChainSums
<1>. QED
  BY <1>3, <1>4, <1>5, <1>6, ChainSums

\* One balance of a segment changes.
LEMMA BalanceChange ==
    ASSUME NEW r \in Segs, NEW s \in Segs, r.count = s.count, NEW i \in 0 .. r.count - 1,
           \A j \in 0 .. r.count - 1 : j # i => s.accounts[j] = r.accounts[j]
    PROVE  Balances(s) = Balances(r) + s.accounts[i] - r.accounts[i]
<1>0. /\ r.count \in Nat /\ r.count <= nbaccounts /\ nbaccounts \in Nat
      /\ i \in 0 .. nbaccounts - 1 /\ i + 1 \in 1 .. r.count /\ i + 1 \in Int
  BY Balanced, BankConstantsOk
<1>1. /\ \A k \in 1 .. r.count : k # i + 1 => Held(r)[k] = Held(s)[k]
      /\ Held(s)[i + 1] = s.accounts[i] /\ Held(r)[i + 1] = r.accounts[i]
  BY <1>0 DEF Held
<1>2. Ints(Held(r), r.count) /\ Ints(Held(s), r.count)
  BY Balanced
<1>3. SumTo(Held(s), r.count) = SumTo(Held(r), r.count)
                + (IF i + 1 \in 1 .. r.count THEN Held(s)[i + 1] - Held(r)[i + 1] ELSE 0)
  BY <1>0, <1>1, <1>2, SumChange
<1>4. Balances(s) = Balances(r) + (s.accounts[i] - r.accounts[i])
  BY <1>0, <1>1, <1>3, Balanced
<1>5. s.accounts[i] \in Int /\ r.accounts[i] \in Int /\ Balances(r) \in Int
  BY <1>0, Balanced
<1>. QED
  BY <1>4, <1>5

\* s has one account more than r.
LEMMA BalanceMore ==
    ASSUME NEW r \in Segs, NEW s \in Segs, s.count = r.count + 1,
           \A j \in 0 .. r.count - 1 : s.accounts[j] = r.accounts[j]
    PROVE  Balances(s) = Balances(r) + s.accounts[r.count]
<1>0. /\ r.count \in Nat /\ r.count + 1 <= nbaccounts /\ nbaccounts \in Nat
  BY Balanced, BankConstantsOk
<1>1. /\ \A k \in 1 .. r.count : Held(r)[k] = Held(s)[k]
      /\ Held(s)[r.count + 1] = s.accounts[r.count]
  BY <1>0 DEF Held
<1>2. Ints(Held(r), r.count) /\ Ints(Held(s), r.count + 1)
  BY Balanced
<1>3. SumTo(Held(s), r.count + 1) = SumTo(Held(s), r.count) + Held(s)[r.count + 1]
  BY <1>0, <1>2, SumStep
<1>4. SumTo(Held(s), r.count) = SumTo(Held(r), r.count)
  BY <1>0, <1>1, <1>2, SumSame
<1>. QED
  BY <1>1, <1>3, <1>4, Balanced

LEMMA Times == \A a, b \in Int : /\ a * (b + 1) = a * b + a /\ a * (b - 1) = a * b - a
                                 /\ a * b \in Int /\ a * 0 = 0
OBVIOUS

LEMMA Money == init_balance \in Int /\ init_balance > 0 /\ nbaccounts \in Nat /\ nbaccounts >= 1
BY BankConstantsOk

\* Chains have accounts.
LEMMA ShapeTotal ==
    ASSUME NEW m, Shape(m)
    PROVE  /\ m \in Seq(Segs) /\ Len(m) \in 1 .. Len(m) /\ Len(m) \in Nat /\ m[Len(m)] \in Segs
           /\ Total(m) \in Nat /\ Total(m) >= 1
           /\ Len(m) = 1 => Total(m) = m[1].count
<1>1. m \in Seq(Segs) /\ Len(m) >= 1 /\ m[Len(m)].count >= 1 /\ Len(m) \in Nat
  BY ChainSums DEF Shape
<1>. DEFINE l == Len(m) - 1
<1>2. l \in Nat /\ l + 1 = Len(m) /\ l \in 0 .. Len(m)
  BY <1>1
<1>3. /\ Total(m) = SumTo(Counts(m), Len(m)) /\ Ints(Counts(m), Len(m)) /\ Total(m) \in Nat
      /\ \A k \in 1 .. Len(m) : Counts(m)[k] = m[k].count /\ Counts(m)[k] \in Nat
      /\ \A k \in 1 .. Len(m) : m[k] \in Segs
  BY <1>1, ChainSums
<1>. HIDE DEF l
<1>4. SumTo(Counts(m), l + 1) = SumTo(Counts(m), l) + Counts(m)[l + 1]
  <2>1. Ints(Counts(m), l + 1)
    BY <1>2, <1>3
  <2>. QED
    BY <1>2, <2>1, SumStep
<1>5. SumTo(Counts(m), l) \in Nat
  BY <1>1, <1>2, <1>3, SumGrows
<1>6. l = 0 => SumTo(Counts(m), l) = 0
  BY SumZero
<1>7. Len(m) \in 1 .. Len(m)
  BY <1>1
<1>8. Total(m) = SumTo(Counts(m), l) + m[Len(m)].count
  BY <1>2, <1>3, <1>4, <1>7
<1>9. m[Len(m)] \in Segs /\ m[Len(m)].count \in Nat
  BY <1>3, <1>7, Balanced
<1>10. Len(m) = 1 => l = 0
  BY <1>1, <1>2
<1>. QED
  BY <1>1, <1>3, <1>5, <1>6, <1>7, <1>8, <1>9, <1>10

\* A chain of one segment.
LEMMA Single ==
    ASSUME NEW s \in Segs
    PROVE  /\ <<s>> \in Seq(Segs) /\ Len(<<s>>) = 1
           /\ Sum(<<s>>) = Worth(s) /\ Total(<<s>>) = s.count
<1>1. << >> \in Seq(Segs) /\ Len(<< >>) = 0
  OBVIOUS
<1>2. Sum(<< >>) = 0 /\ Total(<< >>) = 0
  BY <1>1, ChainSums, SumZero
<1>3. <<s>> \in Seq(Segs) /\ Len(<<s>>) = 1 /\ <<s>>[1] = s
  OBVIOUS
<1>4. \A j \in 1 .. 0 : << >>[j] = <<s>>[j]
  OBVIOUS
<1>5. /\ Sum(<<s>>) = Sum(<< >>) + Worth(s)
      /\ Total(<<s>>) = Total(<< >>) + s.count
  <2>1. PICK e : e = << >>
    OBVIOUS
  <2>2. PICK n : n = <<s>>
    OBVIOUS
  <2>3. e \in Seq(Segs) /\ n \in Seq(Segs) /\ Len(n) = Len(e) + 1
        /\ \A j \in 1 .. Len(e) : n[j] = e[j]
    BY <1>1, <1>3, <2>1, <2>2
  <2>4. Sum(n) = Sum(e) + Worth(n[Len(n)]) /\ Total(n) = Total(e) + n[Len(n)].count
    BY <2>3, SegmentMore
  <2>. QED
    BY <1>3, <2>1, <2>2, <2>4
<1>6. Worth(s) \in Int /\ s.count \in Nat
  BY Balanced
<1>. QED
  BY <1>2, <1>3, <1>5, <1>6

\* A segment with n accounts of init_balance.
LEMMA Initially ==
    ASSUME NEW n \in 0 .. nbaccounts
    PROVE  /\ Segment(n) \in Segs /\ Segment(n).count = n /\ Segment(n).parity = 0
           /\ \A i \in 0 .. n - 1 : Segment(n).accounts[i] = init_balance
           /\ Worth(Segment(n)) = init_balance * n
<1>0. n \in Nat /\ n <= nbaccounts /\ nbaccounts \in Nat /\ init_balance \in Int
  BY Money
<1>1. /\ Segment(n) \in Segs /\ Segment(n).count = n /\ Segment(n).parity = 0
      /\ \A i \in 0 .. n - 1 : Segment(n).accounts[i] = init_balance
  BY <1>0 DEF Segment, Segs
<1>2. Ints(Held(Segment(n)), n) /\ Balances(Segment(n)) = SumTo(Held(Segment(n)), n)
  BY <1>1, Balanced
<1>3. \A k \in 1 .. n : Held(Segment(n))[k] = init_balance
  BY <1>0, <1>1 DEF Held
<1>. DEFINE h == Held(Segment(n))
            B == {k \in Nat : k <= n => SumTo(h, k) = init_balance * k}
<1>. HIDE DEF h
<1>4. 0 \in B
  BY <1>0, SumZero, Times
<1>5. ASSUME NEW k \in Nat, k \in B PROVE k + 1 \in B
  <2>1. SUFFICES ASSUME k + 1 <= n PROVE SumTo(h, k + 1) = init_balance * (k + 1)
    OBVIOUS
  <2>2. Ints(h, k + 1)
    BY <1>0, <1>2, <2>1 DEF Ints, h
  <2>3. SumTo(h, k + 1) = SumTo(h, k) + h[k + 1]
    BY <2>2, SumStep
  <2>4. SumTo(h, k) = init_balance * k /\ h[k + 1] = init_balance
    BY <1>0, <1>3, <1>5, <2>1 DEF h
  <2>. QED
    BY <1>0, <2>3, <2>4, Times
<1>6. B = Nat
  <2>. HIDE DEF B
  <2>1. B \in SUBSET Nat
    BY DEF B
  <2>. QED
    BY <1>4, <1>5, <2>1, Induct
<1>7. SumTo(h, n) = init_balance * n
  <2>1. n \in B
    BY <1>0, <1>6
  <2>. QED
    BY <1>0, <2>1
<1>8. Worth(Segment(n)) = init_balance * n
  <2>1. init_balance * n \in Int
    BY <1>0, Times
  <2>. QED
    BY <1>1, <1>2, <1>7, <2>1 DEF Worth, h
<1>. QED
  BY <1>1, <1>8

\* The region before the first init has committed, and after it.
Fresh == <<Segment(0)>>
Ready == <<Segment(nbaccounts)>>

LEMMA FreshConsistent == Consistent(Fresh) /\ Total(Fresh) = 0 /\ Fresh # Ready
<1>1. 0 \in 0 .. nbaccounts /\ nbaccounts \in 0 .. nbaccounts /\ nbaccounts # 0
  BY Money
<1>2. Segment(0) \in Segs /\ Segment(0).count = 0 /\ Worth(Segment(0)) = init_balance * 0
  BY <1>1, Initially
<1>3. Sum(Fresh) = init_balance * 0 /\ Total(Fresh) = 0 /\ Len(Fresh) = 1 /\ Fresh[1] = Segment(0)
  BY <1>2, Single DEF Fresh
<1>4. \A k \in 1 .. Len(Fresh) : \A i \in 0 .. Fresh[k].count - 1 : Fresh[k].accounts[i] >= 0
  BY <1>2, <1>3
<1>5. Consistent(Fresh)
  BY <1>3, <1>4 DEF Consistent
<1>6. Fresh # Ready
  <2>1. Segment(nbaccounts).count = nbaccounts /\ Ready[1] = Segment(nbaccounts)
    BY <1>1, Initially DEF Ready
  <2>. QED
    BY <1>1, <1>2, <1>3, <2>1
<1>. QED
  BY <1>3, <1>5, <1>6

LEMMA ReadyGood == Good(Ready) /\ Ready[1].accounts[0] = init_balance
<1>1. nbaccounts \in 0 .. nbaccounts /\ nbaccounts >= 1
  BY Money
<1>2. PICK s : s = Segment(nbaccounts)
  OBVIOUS
<1>3. /\ s \in Segs /\ s.count = nbaccounts /\ Worth(s) = init_balance * nbaccounts
      /\ \A i \in 0 .. nbaccounts - 1 : s.accounts[i] = init_balance
  BY <1>1, <1>2, Initially
<1>4. /\ Ready \in Seq(Segs) /\ Len(Ready) = 1 /\ Ready[1] = s
      /\ Sum(Ready) = init_balance * nbaccounts /\ Total(Ready) = nbaccounts
  BY <1>2, <1>3, Single DEF Ready
<1>5. Shape(Ready)
  BY <1>1, <1>3, <1>4 DEF Shape
<1>6. \A k \in 1 .. Len(Ready) : \A i \in 0 .. Ready[k].count - 1 : Ready[k].accounts[i] >= 0
  <2>1. \A i \in 0 .. nbaccounts - 1 : s.accounts[i] >= 0
    BY <1>3, Money
  <2>. QED
    BY <1>3, <1>4, <2>1
<1>7. Good(Ready)
  BY <1>4, <1>5, <1>6 DEF Good, Consistent
<1>8. 0 \in 0 .. nbaccounts - 1
  BY <1>1, Money
<1>. QED
  BY <1>3, <1>4, <1>7, <1>8

-----------------------------------------------------------------------------
(* What the closures leave *)

\* From m to n, an account is opened or closed, or none is.
Fits(m, n) ==
    \/ Total(n) = Total(m) + 1 /\ Sum(n) = Sum(m) + init_balance
    \/ Total(n) = Total(m) - 1 /\ Sum(n) = Sum(m) - init_balance
    \/ Total(n) = Total(m) /\ Sum(n) = Sum(m)

Solvent(m) == \A k \in 1 .. Len(m) : \A i \in 0 .. m[k].count - 1 : m[k].accounts[i] >= 0

\* Opening and closing accounts keeps a chain good if the money fits.
LEMMA GoodAgain ==
    ASSUME NEW m, Good(m), NEW n, Shape(n), Solvent(n), Fits(m, n)
    PROVE  Good(n)
<1>1. Total(m) \in Nat /\ Sum(m) = init_balance * Total(m) /\ init_balance \in Int
  BY ShapeTotal, Money DEF Good, Consistent
<1>2. /\ init_balance * (Total(m) + 1) = init_balance * Total(m) + init_balance
      /\ init_balance * (Total(m) - 1) = init_balance * Total(m) - init_balance
  BY <1>1, Times
<1>3. Sum(n) = init_balance * Total(n)
  BY <1>1, <1>2 DEF Fits
<1>. QED
  BY <1>3 DEF Good, Consistent, Solvent

\* One segment is replaced by another.
Put(m, k, r) == [m EXCEPT ![k] = r]

Replaces(n, m, k, r) ==
    /\ n \in Seq(Segs) /\ Len(n) = Len(m) /\ n[k] = r
    /\ \A j \in 1 .. Len(m) : j # k => n[j] = m[j]
    /\ Sum(n) = Sum(m) + Worth(r) - Worth(m[k])
    /\ Total(n) = Total(m) + r.count - m[k].count

LEMMA Replaced ==
    ASSUME NEW m \in Seq(Segs), NEW k \in 1 .. Len(m), NEW r \in Segs
    PROVE  Replaces(Put(m, k, r), m, k, r)
<1>. PICK n : n = Put(m, k, r)
  OBVIOUS
<1>1. n \in Seq(Segs) /\ Len(n) = Len(m) /\ n[k] = r
      /\ \A j \in 1 .. Len(m) : j # k => n[j] = m[j]
  <2>1. Len(m) \in Nat /\ DOMAIN m = 1 .. Len(m) /\ \A j \in 1 .. Len(m) : m[j] \in Segs
    BY LenProperties, ElementOfSeq
  <2>2. \A j \in 1 .. Len(m) : n[j] = IF j = k THEN r ELSE m[j]
    BY <2>1 DEF Put
  <2>3. n \in Seq(Segs) /\ Len(n) = Len(m)
    BY ExceptSeq DEF Put
  <2>. QED
    BY <2>2, <2>3, Zenon
<1>. QED
  BY <1>1, SegmentChange DEF Replaces

\* What a good chain's segments hold.
LEMMA GoodSegment ==
    ASSUME NEW m, Good(m), NEW k \in 1 .. Len(m), NEW s, s = m[k]
    PROVE  /\ s \in Segs /\ s.count \in Nat /\ s.count <= nbaccounts /\ s.parity \in Int
           /\ s.count >= 1 /\ (k # Len(m) => s.count = nbaccounts)
           /\ \A i \in 0 .. nbaccounts - 1 : s.accounts[i] \in Int
           /\ \A i \in 0 .. s.count - 1 : s.accounts[i] >= 0
           /\ Balances(s) \in Int /\ Worth(s) \in Int
<1>1. m \in Seq(Segs) /\ Len(m) \in Nat
  BY ChainSums DEF Good, Shape
<1>2. s \in Segs
  BY <1>1, ChainSums
<1>3. k # Len(m) => k \in 1 .. Len(m) - 1
  BY <1>1
<1>4. s.count >= 1 /\ (k # Len(m) => s.count = nbaccounts)
  BY <1>3, Money DEF Good, Shape
<1>5. \A i \in 0 .. s.count - 1 : s.accounts[i] >= 0
  BY DEF Good, Consistent
<1>. QED
  BY <1>2, <1>4, <1>5, Balanced

\* The last segment is replaced by one with accounts.
LEMMA LastReplaced ==
    ASSUME NEW m, Good(m), NEW r \in Segs, r.count >= 1,
           \A i \in 0 .. r.count - 1 : r.accounts[i] >= 0,
           NEW n, n = Put(m, Len(m), r)
    PROVE  Shape(n) /\ Solvent(n)
<1>1. /\ m \in Seq(Segs) /\ Len(m) \in 1 .. Len(m) /\ Len(m) \in Nat
      /\ \A k \in 1 .. Len(m) - 1 : m[k].count = nbaccounts
      /\ \A k \in 1 .. Len(m) : \A i \in 0 .. m[k].count - 1 : m[k].accounts[i] >= 0
  BY ShapeTotal DEF Good, Shape, Consistent
<1>2. /\ n \in Seq(Segs) /\ Len(n) = Len(m) /\ n[Len(m)] = r
      /\ \A j \in 1 .. Len(m) : j # Len(m) => n[j] = m[j]
  <2>1. Replaces(n, m, Len(m), r)
    BY <1>1, Replaced
  <2>. QED
    BY <2>1 DEF Replaces
<1>3. \A k \in 1 .. Len(m) - 1 : k \in 1 .. Len(m) /\ k # Len(m)
  BY <1>1
<1>4. Shape(n)
  <2>1. Len(n) = Len(m) /\ n[Len(n)] = r /\ Len(n) >= 1
    BY <1>1, <1>2
  <2>2. \A k \in 1 .. Len(m) - 1 : n[k].count = nbaccounts
    BY <1>1, <1>2, <1>3, Zenon
  <2>. QED
    BY <1>2, <2>1, <2>2 DEF Shape
<1>5. Solvent(n)
  BY <1>1, <1>2 DEF Solvent
<1>. QED
  BY <1>4, <1>5

LEMMA ClosedGood ==
    ASSUME NEW m, Good(m), NEW s, s = m[Len(m)], s.count > 1,
           NEW r, r = [count |-> s.count - 1, accounts |-> s.accounts,
                       parity |-> s.parity + s.accounts[s.count - 1] - init_balance],
           NEW n, n = Put(m, Len(m), r)
    PROVE  Good(n)
<1>1. m \in Seq(Segs) /\ Len(m) \in 1 .. Len(m)
  BY ShapeTotal DEF Good
<1>2. /\ s \in Segs /\ s.count \in Nat /\ s.count <= nbaccounts /\ s.parity \in Int
      /\ \A i \in 0 .. nbaccounts - 1 : s.accounts[i] \in Int
      /\ \A i \in 0 .. s.count - 1 : s.accounts[i] >= 0
      /\ Balances(s) \in Int /\ Worth(s) \in Int
  BY <1>1, GoodSegment
<1>3. /\ s.accounts[s.count - 1] \in Int /\ s.accounts \in [0 .. nbaccounts - 1 -> Int]
      /\ nbaccounts \in Nat /\ init_balance \in Int
  <2>1. s.count - 1 \in 0 .. nbaccounts - 1
    BY <1>2, Money
  <2>. QED
    BY <1>2, <2>1, Money DEF Segs
<1>0. PICK a : a = s.accounts[s.count - 1]
  OBVIOUS
<1>4. PICK p : p = s.parity + a - init_balance
  OBVIOUS
<1>5. a \in Int /\ p \in Int
  <2>1. a \in Int /\ s.parity \in Int /\ init_balance \in Int
    BY <1>0, <1>2, <1>3
  <2>. QED
    BY <1>4, <2>1
<1>6. r.count = s.count - 1 /\ r.parity = p /\ r.accounts = s.accounts
  BY <1>0, <1>4
<1>7. r \in Segs
  <2>1. s.count - 1 \in 0 .. nbaccounts
    <3>1. s.count \in Nat /\ s.count > 1 /\ s.count <= nbaccounts /\ nbaccounts \in Nat
      BY <1>2, <1>3
    <3>. QED
      BY <3>1
  <2>. QED
    BY <1>0, <1>3, <1>4, <1>5, <2>1 DEF Segs
<1>8. s.count = r.count + 1 /\ \A j \in 0 .. r.count - 1 : s.accounts[j] = r.accounts[j]
  BY <1>2, <1>6
<1>9. Balances(s) = Balances(r) + s.accounts[r.count]
  BY <1>2, <1>7, <1>8, BalanceMore
<1>10. /\ Worth(r) = p + Balances(r) /\ Worth(s) = s.parity + Balances(s)
       /\ Balances(r) \in Int
  BY <1>6, <1>7, Balanced DEF Worth
<1>11. Worth(r) = Worth(s) - init_balance
  <2>1. Balances(s) = Balances(r) + a
    BY <1>0, <1>6, <1>9
  <2>2. s.parity \in Int /\ init_balance \in Int /\ Balances(r) \in Int
    BY <1>2, <1>3, <1>10
  <2>. QED
    BY <1>4, <1>5, <1>10, <2>1, <2>2
<1>12. /\ Sum(n) = Sum(m) + Worth(r) - Worth(s)
       /\ Total(n) = Total(m) + r.count - s.count
       /\ Sum(m) \in Int /\ Total(m) \in Nat
  <2>1. /\ Sum(n) = Sum(m) + Worth(r) - Worth(m[Len(m)])
        /\ Total(n) = Total(m) + r.count - m[Len(m)].count
    <3>1. Replaces(n, m, Len(m), r)
      BY <1>1, <1>7, Replaced
    <3>. QED
      BY <3>1 DEF Replaces
  <2>. QED
    BY <1>1, <2>1, ChainSums
<1>13. Sum(n) = Sum(m) - init_balance /\ Total(n) = Total(m) - 1
  <2>1. s.count \in Nat /\ Worth(s) \in Int /\ init_balance \in Int /\ r.count = s.count - 1
    BY <1>2, <1>3, <1>6
  <2>. QED
    BY <1>11, <1>12, <2>1
<1>14. r.count >= 1 /\ \A i \in 0 .. r.count - 1 : r.accounts[i] >= 0
  BY <1>2, <1>6
<1>15. Shape(n) /\ Solvent(n)
  BY <1>7, <1>14, LastReplaced, Zenon
<1>16. Fits(m, n)
  BY <1>13 DEF Fits
<1>. QED
  BY <1>15, <1>16, GoodAgain

\* What m is when its last segment is left out.
Shortened(f, m) ==
    /\ f \in Seq(Segs) /\ Len(f) = Len(m) - 1
    /\ \A j \in 1 .. Len(f) : f[j] = m[j]

LEMMA FrontShort ==
    ASSUME NEW m \in Seq(Segs), Len(m) >= 1
    PROVE  Shortened(Front(m), m)
<1>1. Len(m) \in Nat /\ \A j \in 1 .. Len(m) : m[j] \in Segs
  BY ChainSums
<1>2. \A j \in 1 .. Len(m) - 1 : m[j] \in Segs
  BY <1>1
<1>3. /\ SubSeq(m, 1, Len(m) - 1) \in Seq(Segs)
      /\ Len(SubSeq(m, 1, Len(m) - 1)) = IF 1 <= Len(m) - 1 THEN Len(m) - 1 - 1 + 1 ELSE 0
      /\ \A j \in 1 .. Len(m) - 1 - 1 + 1 : SubSeq(m, 1, Len(m) - 1)[j] = m[1 + j - 1]
  BY <1>1, <1>2, SubSeqProperties
<1>4. PICK f : f = SubSeq(m, 1, Len(m) - 1)
  OBVIOUS
<1>5. Len(f) = Len(m) - 1
  <2>1. PICK l : l = Len(m)
    OBVIOUS
  <2>2. l \in Nat /\ l >= 1 /\ Len(f) = IF 1 <= l - 1 THEN l - 1 - 1 + 1 ELSE 0
    BY <1>1, <1>3, <1>4, <2>1
  <2>3. Len(f) = l - 1
    BY <2>2
  <2>. QED
    BY <2>1, <2>3
<1>6. \A j \in 1 .. Len(f) : f[j] = m[j]
  <2>1. TAKE j \in 1 .. Len(f)
  <2>2. j \in 1 .. Len(m) - 1 - 1 + 1 /\ 1 + j - 1 = j
    BY <1>1, <1>5
  <2>. QED
    BY <1>3, <1>4, <2>2
<1>. QED
  BY <1>3, <1>4, <1>5, <1>6 DEF Shortened, Front

\* Segment q after the one account of segment s behind it is closed.
Merged(q, s) == [count |-> q.count, accounts |-> q.accounts,
                 parity |-> q.parity + (s.parity + s.accounts[0] - init_balance)]

LEMMA FreedGood ==
    ASSUME NEW m, Good(m), Len(m) # 1, NEW s, s = m[Len(m)], s.count = 1,
           NEW q, q = m[Len(m) - 1], NEW n, n = Put(Front(m), Len(m) - 1, Merged(q, s))
    PROVE  Good(n)
<1>0. PICK r : r = Merged(q, s)
  OBVIOUS
<1>1. m \in Seq(Segs) /\ Len(m) \in 1 .. Len(m) /\ Len(m) \in Nat /\ Len(m) >= 1
  BY ShapeTotal DEF Good, Shape
<1>2. PICK l : l = Len(m) - 1
  OBVIOUS
<1>3. l \in Nat /\ l >= 1 /\ l \in 1 .. Len(m) /\ l # Len(m) /\ l + 1 = Len(m)
  <2>1. PICK k : k = Len(m)
    OBVIOUS
  <2>2. k \in Nat /\ k >= 1 /\ k # 1 /\ l = k - 1
    BY <1>1, <1>2, <2>1
  <2>3. l \in Nat /\ l >= 1 /\ l \in 1 .. k /\ l # k /\ l + 1 = k
    BY <2>2
  <2>. QED
    BY <2>1, <2>3
<1>4. /\ s \in Segs /\ s.parity \in Int /\ Balances(s) \in Int
      /\ \A i \in 0 .. nbaccounts - 1 : s.accounts[i] \in Int
  BY <1>1, GoodSegment
<1>5. /\ q \in Segs /\ q.parity \in Int /\ q.count = nbaccounts /\ Balances(q) \in Int
      /\ \A i \in 0 .. q.count - 1 : q.accounts[i] >= 0
  BY <1>2, <1>3, GoodSegment
<1>6. PICK a : a = s.accounts[0]
  OBVIOUS
<1>7. a \in Int /\ init_balance \in Int /\ nbaccounts \in Nat /\ nbaccounts >= 1
  <2>1. 0 \in 0 .. nbaccounts - 1
    BY Money
  <2>. QED
    BY <1>4, <1>6, <2>1, Money
<1>8. Balances(s) = a
  <2>1. Ints(Held(s), 0 + 1) /\ Balances(s) = SumTo(Held(s), 0 + 1)
    BY <1>4, Balanced
  <2>2. SumTo(Held(s), 0 + 1) = SumTo(Held(s), 0) + Held(s)[0 + 1]
    BY <2>1, SumStep
  <2>3. Held(s)[0 + 1] = a
    BY <1>6, <1>7 DEF Held
  <2>. QED
    BY <1>7, <2>1, <2>2, <2>3, SumZero
<1>9. PICK p : p = q.parity + (s.parity + a - init_balance)
  OBVIOUS
<1>10. p \in Int
  BY <1>4, <1>5, <1>7, <1>9
<1>11. r = [count |-> q.count, accounts |-> q.accounts, parity |-> p]
  BY <1>0, <1>6, <1>9 DEF Merged
<1>12. r \in Segs /\ r.count = q.count /\ r.parity = p /\ r.accounts = q.accounts
  BY <1>5, <1>10, <1>11 DEF Segs
<1>13. Worth(r) = p + Balances(q) /\ Worth(q) = q.parity + Balances(q)
       /\ Worth(s) = s.parity + a
  BY <1>8, <1>12 DEF Worth, Balances
<1>14. PICK f : f = Front(m)
  OBVIOUS
<1>15. /\ f \in Seq(Segs) /\ Len(f) = l
       /\ \A j \in 1 .. l : f[j] = m[j]
  <2>1. Shortened(f, m)
    BY <1>1, <1>14, FrontShort
  <2>. QED
    BY <1>2, <2>1 DEF Shortened
<1>16. /\ Sum(m) = Sum(f) + Worth(s) /\ Total(m) = Total(f) + 1
       /\ Sum(f) \in Int /\ Total(f) \in Nat
  <2>1. Len(m) = Len(f) + 1 /\ \A j \in 1 .. Len(f) : m[j] = f[j]
    BY <1>3, <1>15
  <2>2. Sum(m) = Sum(f) + Worth(m[Len(m)]) /\ Total(m) = Total(f) + m[Len(m)].count
    BY <1>1, <1>15, <2>1, SegmentMore
  <2>. QED
    BY <1>15, <2>2, ChainSums
<1>17. l \in 1 .. l /\ f[l] = q
  <2>1. l \in 1 .. l
    BY <1>3
  <2>. QED
    BY <1>2, <1>15, <2>1
<1>18. Replaces(n, f, l, r)
  <2>1. l \in 1 .. Len(f) /\ n = Put(f, l, r)
    BY <1>0, <1>2, <1>14, <1>15, <1>17
  <2>. QED
    BY <1>12, <1>15, <2>1, Replaced
<1>19. /\ n \in Seq(Segs) /\ Len(n) = l /\ n[l] = r
       /\ \A j \in 1 .. l : j # l => n[j] = m[j]
       /\ Sum(n) = Sum(f) + Worth(r) - Worth(q)
       /\ Total(n) = Total(f) + r.count - q.count
  BY <1>15, <1>17, <1>18 DEF Replaces
<1>20. Sum(n) = Sum(m) - init_balance
  <2>1. Sum(n) = Sum(f) + (p + Balances(q)) - (q.parity + Balances(q))
    BY <1>13, <1>19
  <2>2. Sum(m) = Sum(f) + (s.parity + a)
    BY <1>13, <1>16
  <2>3. /\ Sum(f) \in Int /\ Balances(q) \in Int /\ q.parity \in Int /\ s.parity \in Int
        /\ a \in Int /\ p \in Int /\ init_balance \in Int
    BY <1>4, <1>5, <1>7, <1>10, <1>16
  <2>4. PICK x : x = Sum(f)
    OBVIOUS
  <2>5. PICK y : y = Balances(q)
    OBVIOUS
  <2>6. PICK z : z = q.parity
    OBVIOUS
  <2>7. PICK w : w = s.parity
    OBVIOUS
  <2>8. /\ x \in Int /\ y \in Int /\ z \in Int /\ w \in Int /\ a \in Int /\ init_balance \in Int
        /\ p = z + (w + a - init_balance)
    BY <1>9, <2>3, <2>4, <2>5, <2>6, <2>7
  <2>9. x + (p + y) - (z + y) = x + (w + a) - init_balance
    BY <2>8
  <2>10. Sum(n) = x + (p + y) - (z + y) /\ Sum(m) = x + (w + a)
    BY <2>1, <2>2, <2>4, <2>5, <2>6, <2>7
  <2>11. Sum(n) = x + (w + a) - init_balance
    BY <2>9, <2>10
  <2>12. PICK u : u = Sum(m)
    OBVIOUS
  <2>13. u = x + (w + a) /\ u \in Int
    BY <2>8, <2>10, <2>12
  <2>14. Sum(n) = u - init_balance
    BY <2>8, <2>11, <2>13
  <2>. QED
    BY <2>12, <2>14
<1>21. Total(n) = Total(m) - 1
  BY <1>5, <1>7, <1>12, <1>16, <1>19
<1>22. Shape(n)
  <2>1. \A k \in 1 .. l - 1 : n[k].count = nbaccounts
    <3>1. TAKE k \in 1 .. l - 1
    <3>2. k \in 1 .. l /\ k # l /\ k \in 1 .. Len(m) - 1
      BY <1>2, <1>3
    <3>3. m[k].count = nbaccounts
      BY <3>2 DEF Good, Shape
    <3>. QED
      BY <1>19, <3>2, <3>3
  <2>2. Len(n) >= 1 /\ n[Len(n)].count >= 1
    BY <1>3, <1>5, <1>7, <1>12, <1>19
  <2>. QED
    BY <1>19, <2>1, <2>2 DEF Shape
<1>23. Solvent(n)
  <2>1. \A k \in 1 .. l : \A i \in 0 .. m[k].count - 1 : m[k].accounts[i] >= 0
    BY <1>3 DEF Good, Consistent
  <2>2. \A i \in 0 .. r.count - 1 : r.accounts[i] >= 0
    BY <1>5, <1>12
  <2>. QED
    BY <1>19, <2>1, <2>2 DEF Solvent
<1>24. Fits(m, n)
  BY <1>20, <1>21 DEF Fits
<1>. QED
  BY <1>22, <1>23, <1>24, GoodAgain

LEMMA AppendedGood ==
    ASSUME NEW m, Good(m), m[Len(m)].count = nbaccounts,
           NEW n, n = Append(m, Segment(1))
    PROVE  Good(n)
<1>1. m \in Seq(Segs) /\ Len(m) \in Nat /\ Len(m) \in 1 .. Len(m)
  BY ShapeTotal DEF Good
<1>2. PICK r : r = Segment(1)
  OBVIOUS
<1>3. /\ r \in Segs /\ r.count = 1 /\ r.accounts[0] = init_balance /\ Worth(r) = init_balance * 1
  <2>1. 1 \in 0 .. nbaccounts /\ 0 \in 0 .. 1 - 1
    BY Money
  <2>. QED
    BY <1>2, <2>1, Initially
<1>4. /\ n \in Seq(Segs) /\ Len(n) = Len(m) + 1 /\ n[Len(n)] = r
      /\ \A j \in 1 .. Len(m) : n[j] = m[j]
  BY <1>1, <1>2, <1>3, AppendProperties
<1>5. Sum(n) = Sum(m) + Worth(r) /\ Total(n) = Total(m) + r.count
  <2>1. Sum(n) = Sum(m) + Worth(n[Len(n)]) /\ Total(n) = Total(m) + n[Len(n)].count
    BY <1>1, <1>4, SegmentMore
  <2>. QED
    BY <1>4, <2>1
<1>6. Sum(n) = Sum(m) + init_balance /\ Total(n) = Total(m) + 1
  BY <1>3, <1>5, Money
<1>7. Shape(n)
  <2>1. \A k \in 1 .. Len(m) : m[k].count = nbaccounts
    BY <1>1, GoodSegment
  <2>2. \A k \in 1 .. Len(n) - 1 : n[k].count = nbaccounts
    BY <1>1, <1>4, <2>1
  <2>3. Len(n) >= 1
    BY <1>1, <1>4
  <2>. QED
    BY <1>3, <1>4, <2>2, <2>3 DEF Shape
<1>8. Solvent(n)
  <2>1. \A k \in 1 .. Len(m) : \A i \in 0 .. m[k].count - 1 : m[k].accounts[i] >= 0
    BY DEF Good, Consistent
  <2>2. \A i \in 0 .. r.count - 1 : r.accounts[i] >= 0
    <3>1. \A i \in 0 .. r.count - 1 : i = 0
      BY <1>3
    <3>. QED
      BY <1>3, <3>1, Money
  <2>3. \A k \in 1 .. Len(n) : k = Len(n) \/ k \in 1 .. Len(m)
    BY <1>1, <1>4
  <2>. QED
    BY <1>4, <2>1, <2>2, <2>3 DEF Solvent
<1>9. Fits(m, n)
  BY <1>6 DEF Fits
<1>. QED
  BY <1>7, <1>8, <1>9, GoodAgain

\* Segment s with one account more.
Opened(s) == [count |-> s.count + 1, parity |-> s.parity,
              accounts |-> [s.accounts EXCEPT ![s.count] = init_balance]]

LEMMA OpenedGood ==
    ASSUME NEW m, Good(m), NEW s, s = m[Len(m)], s.count # nbaccounts,
           NEW n, n = Put(m, Len(m), Opened(s))
    PROVE  Good(n)
<1>0. PICK r : r = Opened(s)
  OBVIOUS
<1>1. m \in Seq(Segs) /\ Len(m) \in Nat /\ Len(m) \in 1 .. Len(m)
  BY ShapeTotal DEF Good
<1>2. /\ s \in Segs /\ s.count \in Nat /\ s.count <= nbaccounts /\ s.parity \in Int
      /\ \A i \in 0 .. s.count - 1 : s.accounts[i] >= 0
      /\ Balances(s) \in Int /\ Worth(s) \in Int
  BY <1>1, GoodSegment
<1>3. /\ s.accounts \in [0 .. nbaccounts - 1 -> Int] /\ nbaccounts \in Nat
      /\ init_balance \in Int /\ init_balance > 0
      /\ s.count \in 0 .. nbaccounts - 1 /\ s.count + 1 \in 0 .. nbaccounts
  <2>1. s.accounts \in [0 .. nbaccounts - 1 -> Int]
    BY <1>2 DEF Segs
  <2>2. PICK c : c = s.count
    OBVIOUS
  <2>3. c \in Nat /\ c <= nbaccounts /\ c # nbaccounts /\ nbaccounts \in Nat
    BY <1>2, <2>2, Money
  <2>4. c \in 0 .. nbaccounts - 1 /\ c + 1 \in 0 .. nbaccounts
    BY <2>3
  <2>. QED
    BY <2>1, <2>2, <2>3, <2>4, Money
<1>4. PICK b : b = [s.accounts EXCEPT ![s.count] = init_balance]
  OBVIOUS
<1>5. /\ b \in [0 .. nbaccounts - 1 -> Int] /\ b[s.count] = init_balance
      /\ \A j \in 0 .. s.count - 1 : b[j] = s.accounts[j]
  <2>1. PICK c : c = s.count
    OBVIOUS
  <2>2. PICK a : a = s.accounts
    OBVIOUS
  <2>3. a \in [0 .. nbaccounts - 1 -> Int] /\ c \in 0 .. nbaccounts - 1 /\ b = [a EXCEPT ![c] = init_balance]
    BY <1>3, <1>4, <2>1, <2>2
  <2>4. /\ b \in [0 .. nbaccounts - 1 -> Int] /\ b[c] = init_balance
        /\ \A j \in 0 .. c - 1 : b[j] = a[j]
    BY <1>3, <2>3
  <2>. QED
    BY <2>1, <2>2, <2>4
<1>6. r = [count |-> s.count + 1, parity |-> s.parity, accounts |-> b]
  BY <1>0, <1>4 DEF Opened
<1>7. r \in Segs /\ r.count = s.count + 1 /\ r.parity = s.parity /\ r.accounts = b
  <2>1. r.count = s.count + 1 /\ r.parity = s.parity /\ r.accounts = b
    BY <1>6
  <2>2. r \in Segs
    BY <1>2, <1>3, <1>5, <1>6 DEF Segs
  <2>. QED
    BY <2>1, <2>2
<1>8. Balances(r) = Balances(s) + init_balance
  <2>1. Balances(r) = Balances(s) + r.accounts[s.count]
    <3>1. r.count = s.count + 1 /\ \A j \in 0 .. s.count - 1 : r.accounts[j] = s.accounts[j]
      BY <1>5, <1>7
    <3>. QED
      BY <1>2, <1>7, <3>1, BalanceMore
  <2>. QED
    BY <1>5, <1>7, <2>1
<1>9. Worth(r) = Worth(s) + init_balance
  BY <1>2, <1>3, <1>7, <1>8 DEF Worth
<1>10. Sum(n) = Sum(m) + Worth(r) - Worth(s) /\ Total(n) = Total(m) + r.count - s.count
       /\ Sum(m) \in Int /\ Total(m) \in Nat
  <2>1. Replaces(n, m, Len(m), r)
    BY <1>0, <1>1, <1>7, Replaced
  <2>. QED
    BY <1>1, <2>1, ChainSums DEF Replaces
<1>11. Sum(n) = Sum(m) + init_balance /\ Total(n) = Total(m) + 1
  <2>1. s.count \in Nat /\ Worth(s) \in Int /\ init_balance \in Int /\ r.count = s.count + 1
    BY <1>2, <1>3, <1>7
  <2>. QED
    BY <1>9, <1>10, <2>1
<1>12. r.count >= 1 /\ \A i \in 0 .. r.count - 1 : r.accounts[i] >= 0
  <2>1. \A i \in 0 .. r.count - 1 : i = s.count \/ i \in 0 .. s.count - 1
    <3>1. PICK c : c = s.count
      OBVIOUS
    <3>2. c \in Nat /\ r.count = c + 1
      BY <1>2, <1>7, <3>1
    <3>3. \A i \in 0 .. r.count - 1 : i = c \/ i \in 0 .. c - 1
      BY <3>2
    <3>. QED
      BY <3>1, <3>3
  <2>2. r.count >= 1
    <3>1. PICK c : c = s.count
      OBVIOUS
    <3>2. c \in Nat /\ r.count = c + 1
      BY <1>2, <1>7, <3>1
    <3>3. c + 1 >= 1
      BY <3>2
    <3>. QED
      BY <3>2, <3>3
  <2>3. ASSUME NEW i \in 0 .. r.count - 1 PROVE r.accounts[i] >= 0
    <3>1. CASE i = s.count
      <4>1. r.accounts[i] = init_balance
        BY <1>5, <1>7, <3>1
      <4>. QED
        BY <1>3, <4>1
    <3>2. CASE i \in 0 .. s.count - 1
      <4>1. r.accounts[i] = s.accounts[i]
        BY <1>5, <1>7, <3>2
      <4>. QED
        BY <1>2, <3>2, <4>1
    <3>. QED
      BY <2>1, <3>1, <3>2
  <2>. QED
    BY <2>2, <2>3
<1>13. Shape(n) /\ Solvent(n)
  BY <1>0, <1>7, <1>12, LastReplaced, Zenon
<1>14. Fits(m, n)
  BY <1>11 DEF Fits
<1>. QED
  BY <1>13, <1>14, GoodAgain

\* Where the walk finds an account.
At(m, id, k) ==
    /\ k \in 1 .. Len(m) + 1
    /\ Before(m, k) \in Nat /\ Before(m, k) <= id
    /\ k <= Len(m) => id < Before(m, k) + m[k].count

LEMMA BeforeFacts ==
    ASSUME NEW m \in Seq(Segs)
    PROVE  /\ Before(m, 1) = 0
           /\ \A k \in 1 .. Len(m) : Before(m, k + 1) = Before(m, k) + m[k].count
           /\ \A k \in 1 .. Len(m) + 1 : Before(m, k) \in Nat
           /\ \A k \in 1 .. Len(m) + 1 : \A j \in 1 .. k : Before(m, j) <= Before(m, k)
<1>. DEFINE c == Counts(m)
<1>1. /\ Len(m) \in Nat /\ Ints(c, Len(m))
      /\ \A k \in 1 .. Len(m) + 1 : Before(m, k) = SumTo(c, k - 1)
      /\ \A k \in 1 .. Len(m) : c[k] = m[k].count /\ c[k] \in Nat
  BY ChainSums
<1>. HIDE DEF c
<1>2. Before(m, 1) = 0
  <2>1. 1 \in 1 .. Len(m) + 1 /\ 1 - 1 = 0
    BY <1>1
  <2>2. Before(m, 1) = SumTo(c, 1 - 1)
    BY <1>1, <2>1
  <2>. QED
    BY <2>1, <2>2, SumZero
<1>3. ASSUME NEW k \in 1 .. Len(m) PROVE Before(m, k + 1) = Before(m, k) + m[k].count
  <2>1. /\ k - 1 \in Nat /\ (k - 1) + 1 = k /\ (k + 1) - 1 = k
        /\ k + 1 \in 1 .. Len(m) + 1 /\ k \in 1 .. Len(m) + 1
    BY <1>1
  <2>2. Ints(c, (k - 1) + 1)
    BY <1>1, <2>1 DEF Ints
  <2>3. SumTo(c, (k - 1) + 1) = SumTo(c, k - 1) + c[(k - 1) + 1]
    BY <2>1, <2>2, SumStep
  <2>4. Before(m, k + 1) = SumTo(c, (k + 1) - 1) /\ Before(m, k) = SumTo(c, k - 1)
    BY <1>1, <2>1
  <2>. QED
    BY <1>1, <2>1, <2>3, <2>4
<1>4. ASSUME NEW k \in 1 .. Len(m) + 1, NEW j \in 1 .. k
      PROVE  Before(m, k) \in Nat /\ Before(m, j) <= Before(m, k)
  <2>1. /\ k - 1 \in Nat /\ k - 1 \in 0 .. k - 1 /\ j - 1 \in 0 .. k - 1
        /\ j \in 1 .. Len(m) + 1
    BY <1>1
  <2>2. \A i \in 1 .. k - 1 : c[i] \in Nat
    <3>1. \A i \in 1 .. k - 1 : i \in 1 .. Len(m)
      BY <1>1
    <3>. QED
      BY <1>1, <3>1
  <2>3. SumTo(c, k - 1) \in Nat /\ SumTo(c, j - 1) <= SumTo(c, k - 1)
    BY <2>1, <2>2, SumGrows
  <2>. QED
    BY <1>1, <2>1, <2>3
<1>5. \A k \in 1 .. Len(m) + 1 : Before(m, k) \in Nat
  <2>1. TAKE k \in 1 .. Len(m) + 1
  <2>2. k \in 1 .. k
    OBVIOUS
  <2>. QED
    BY <1>4, <2>2
<1>. QED
  BY <1>2, <1>3, <1>4, <1>5

\* There is such a place, and Found gives it.
LEMMA FoundAt ==
    ASSUME memory \in Seq(Segs), NEW id \in Nat
    PROVE  At(memory, id, Found(id))
<1>0. PICK m : m = memory
  OBVIOUS
<1>. DEFINE T == {k \in 1 .. Len(m) + 1 : k <= Len(m) => id < Before(m, k) + m[k].count}
<1>1. m \in Seq(Segs) /\ Len(m) \in Nat
  BY <1>0, ChainSums
<1>2. T \in SUBSET Nat /\ T # {}
  <2>1. Len(m) + 1 \in T
    BY <1>1
  <2>2. T \in SUBSET Nat
    BY <1>1
  <2>. QED
    BY <2>1, <2>2
<1>3. PICK k \in T : \A j \in T : k <= j
  <2>. HIDE DEF T
  <2>. QED
    BY <1>2, Least
<1>4. k \in 1 .. Len(m) + 1 /\ (k <= Len(m) => id < Before(m, k) + m[k].count)
  OBVIOUS
<1>5. Before(m, k) <= id
  <2>1. CASE k = 1
    BY <1>1, <2>1, BeforeFacts
  <2>2. CASE k # 1
    <3>1. PICK j : j = k - 1
      OBVIOUS
    <3>2. j \in 1 .. Len(m) /\ j + 1 = k /\ j \in 1 .. Len(m) + 1 /\ j < k /\ j \in Int /\ k \in Int
      BY <1>1, <1>4, <2>2, <3>1
    <3>3. j \notin T
      BY <1>3, <3>2
    <3>4. ~ (id < Before(m, j) + m[j].count)
      BY <3>2, <3>3
    <3>5. Before(m, j + 1) = Before(m, j) + m[j].count
      BY <1>1, <3>2, BeforeFacts
    <3>6. Before(m, j + 1) \in Nat
      BY <1>1, <1>4, <3>2, BeforeFacts
    <3>. QED
      BY <3>2, <3>4, <3>5, <3>6
  <2>. QED
    BY <2>1, <2>2
<1>6. \E h \in 1 .. Len(m) + 1 :
         Before(m, h) <= id /\ (h <= Len(m) => id < Before(m, h) + m[h].count)
  BY <1>4, <1>5
<1>7. Found(id) = CHOOSE h \in 1 .. Len(m) + 1 :
         Before(m, h) <= id /\ (h <= Len(m) => id < Before(m, h) + m[h].count)
  BY <1>0 DEF Found, segments
<1>8. PICK f : f = Found(id)
  OBVIOUS
<1>9. /\ f \in 1 .. Len(m) + 1
      /\ Before(m, f) <= id /\ (f <= Len(m) => id < Before(m, f) + m[f].count)
  BY <1>6, <1>7, <1>8
<1>10. Before(m, f) \in Nat
  BY <1>1, <1>9, BeforeFacts
<1>11. At(m, id, f)
  BY <1>9, <1>10 DEF At
<1>. QED
  BY <1>0, <1>8, <1>11

\* Walking on leaves an index.
LEMMA LeftNat ==
    ASSUME memory \in Seq(Segs), NEW id \in Nat, NEW k \in 0 .. Len(memory)
    PROVE  Left(id, k) \in Nat
<1>0. PICK m : m = memory
  OBVIOUS
<1>1. PICK f : f = Found(id)
  OBVIOUS
<1>2. f \in 1 .. Len(m) + 1 /\ Before(m, f) \in Nat /\ Before(m, f) <= id
  BY <1>0, <1>1, FoundAt DEF At
<1>3. m \in Seq(Segs) /\ Len(m) \in Nat
  BY <1>0, ChainSums
<1>4. Left(id, k) = id - Before(m, IF f <= k THEN f ELSE k + 1)
  BY <1>0, <1>1 DEF Left, segments
<1>5. CASE f <= k
  BY <1>2, <1>4, <1>5
<1>6. CASE ~ (f <= k)
  <2>1. k + 1 \in 1 .. f /\ k + 1 \in 1 .. Len(m) + 1
    BY <1>0, <1>2, <1>3, <1>6
  <2>2. Before(m, k + 1) <= Before(m, f) /\ Before(m, k + 1) \in Nat
    BY <1>2, <1>3, <2>1, BeforeFacts
  <2>3. Left(id, k) = id - Before(m, k + 1)
    BY <1>4, <1>6
  <2>. QED
    BY <1>2, <2>2, <2>3
<1>. QED
  BY <1>5, <1>6

-----------------------------------------------------------------------------
(* Transfers *)

\* Segment q with balance b in its i-th account.
Paid(q, i, b) == [count |-> q.count, parity |-> q.parity,
                  accounts |-> [q.accounts EXCEPT ![i] = b]]

\* What changes from m to n.
Updates(n, m, k, i, b) ==
    /\ Shape(n) /\ Len(n) = Len(m)
    /\ Sum(n) = Sum(m) + b - m[k].accounts[i] /\ Total(n) = Total(m)
    /\ \A j \in 1 .. Len(m) : n[j].count = m[j].count
    /\ n[k].accounts[i] = b
    /\ \A j \in 1 .. Len(m) : \A h \in 0 .. m[j].count - 1 :
          (j # k \/ h # i) => n[j].accounts[h] = m[j].accounts[h]

LEMMA SetUpdates ==
    ASSUME NEW m, Shape(m), NEW k \in 1 .. Len(m), NEW i \in 0 .. m[k].count - 1, NEW b \in Int
    PROVE  Updates(Put(m, k, Paid(m[k], i, b)), m, k, i, b)
<1>0. PICK q : q = m[k]
  OBVIOUS
<1>1. PICK r : r = Paid(q, i, b)
  OBVIOUS
<1>2. PICK n : n = Put(m, k, r)
  OBVIOUS
<1>3. /\ m \in Seq(Segs) /\ Len(m) \in Nat /\ Len(m) >= 1 /\ m[Len(m)].count >= 1
      /\ \A j \in 1 .. Len(m) - 1 : m[j].count = nbaccounts
      /\ \A j \in 1 .. Len(m) : m[j] \in Segs
      /\ Sum(m) \in Int /\ Total(m) \in Nat
  BY ChainSums DEF Shape
<1>4. /\ q \in Segs /\ q.count \in Nat /\ q.count <= nbaccounts /\ q.parity \in Int
      /\ q.accounts \in [0 .. nbaccounts - 1 -> Int] /\ nbaccounts \in Nat
      /\ Worth(q) \in Int /\ Balances(q) \in Int
  <2>1. q \in Segs
    BY <1>0, <1>3
  <2>. QED
    BY <2>1, Balanced, Money DEF Segs
<1>5. i \in 0 .. q.count - 1 /\ i \in 0 .. nbaccounts - 1
  BY <1>0, <1>4
<1>6. PICK a : a = [q.accounts EXCEPT ![i] = b]
  OBVIOUS
<1>7. /\ a \in [0 .. nbaccounts - 1 -> Int] /\ a[i] = b
      /\ \A j \in 0 .. nbaccounts - 1 : j # i => a[j] = q.accounts[j]
  BY <1>4, <1>5, <1>6
<1>8. r = [count |-> q.count, parity |-> q.parity, accounts |-> a]
  BY <1>1, <1>6 DEF Paid
<1>9. r.count = q.count /\ r.parity = q.parity /\ r.accounts = a
  BY <1>8
<1>10. r \in Segs
  <2>1. q.count \in 0 .. nbaccounts
    BY <1>4
  <2>. QED
    BY <1>4, <1>7, <1>8, <2>1 DEF Segs
<1>11. Worth(r) = Worth(q) + b - q.accounts[i]
  <2>1. /\ r.count = q.count
        /\ \A j \in 0 .. q.count - 1 : j # i => r.accounts[j] = q.accounts[j]
    <3>1. \A j \in 0 .. q.count - 1 : j \in 0 .. nbaccounts - 1
      BY <1>4
    <3>. QED
      BY <1>7, <1>9, <3>1
  <2>2. Balances(r) = Balances(q) + r.accounts[i] - q.accounts[i]
    BY <1>4, <1>5, <1>10, <2>1, BalanceChange
  <2>3. q.accounts[i] \in Int /\ r.accounts[i] = b
    BY <1>4, <1>5, <1>7, <1>9
  <2>4. PICK v : v = q.accounts[i]
    OBVIOUS
  <2>5. Worth(r) = q.parity + Balances(r) /\ Worth(q) = q.parity + Balances(q)
    BY <1>9 DEF Worth
  <2>6. v \in Int /\ Balances(r) = Balances(q) + b - v
    BY <2>2, <2>3, <2>4
  <2>7. q.parity \in Int /\ Balances(q) \in Int
    BY <1>4
  <2>8. Worth(r) = Worth(q) + b - v
    BY <2>5, <2>6, <2>7
  <2>. QED
    BY <2>4, <2>8
<1>12. Replaces(n, m, k, r)
  BY <1>2, <1>3, <1>10, Replaced
<1>13. /\ n \in Seq(Segs) /\ Len(n) = Len(m) /\ n[k] = r
       /\ \A j \in 1 .. Len(m) : j # k => n[j] = m[j]
       /\ Sum(n) = Sum(m) + Worth(r) - Worth(q)
       /\ Total(n) = Total(m) + r.count - q.count
  BY <1>0, <1>12 DEF Replaces
<1>14. Sum(n) = Sum(m) + b - q.accounts[i]
  <2>1. q.accounts[i] \in Int
    BY <1>4, <1>5
  <2>2. PICK v : v = q.accounts[i]
    OBVIOUS
  <2>. QED
    BY <1>3, <1>4, <1>11, <1>13, <2>1, <2>2
<1>15. Total(n) = Total(m)
  BY <1>3, <1>4, <1>9, <1>13
<1>16. \A j \in 1 .. Len(m) : n[j].count = m[j].count
  BY <1>0, <1>9, <1>13
<1>17. Shape(n)
  <2>1. \A j \in 1 .. Len(m) - 1 : j \in 1 .. Len(m)
    BY <1>3
  <2>2. Len(m) \in 1 .. Len(m)
    BY <1>3
  <2>. QED
    BY <1>3, <1>13, <1>16, <2>1, <2>2 DEF Shape
<1>18. n[k].accounts[i] = b
  BY <1>7, <1>9, <1>13
<1>19. \A j \in 1 .. Len(m) : \A h \in 0 .. m[j].count - 1 :
          (j # k \/ h # i) => n[j].accounts[h] = m[j].accounts[h]
  <2>1. TAKE j \in 1 .. Len(m)
  <2>2. TAKE h \in 0 .. m[j].count - 1
  <2>3. CASE j # k
    BY <1>13, <2>3
  <2>4. CASE j = k
    <3>1. h \in 0 .. nbaccounts - 1
      BY <1>0, <1>4, <2>4
    <3>. QED
      BY <1>0, <1>7, <1>9, <1>13, <2>4, <3>1
  <2>. QED
    BY <2>3, <2>4
<1>20. Updates(n, m, k, i, b)
  BY <1>0, <1>13, <1>14, <1>15, <1>16, <1>17, <1>18, <1>19 DEF Updates
<1>. QED
  BY <1>0, <1>1, <1>2, <1>20

\* Moving one unit between two accounts keeps the chain good.
LEMMA TransferGood ==
    ASSUME NEW m, Good(m),
           NEW k \in 1 .. Len(m), NEW i \in 0 .. m[k].count - 1, m[k].accounts[i] > 0,
           NEW h \in 1 .. Len(m), NEW j \in 0 .. m[h].count - 1,
           NEW p, p = Put(m, k, Paid(m[k], i, m[k].accounts[i] - 1)),
           NEW n, n = Put(p, h, Paid(p[h], j, p[h].accounts[j] + 1))
    PROVE  Good(n)
<1>1. PICK v : v = m[k].accounts[i]
  OBVIOUS
<1>2. v \in Int /\ v > 0 /\ Shape(m) /\ m \in Seq(Segs) /\ Sum(m) \in Int
      /\ nbaccounts \in Nat
  <2>1. PICK q : q = m[k]
    OBVIOUS
  <2>2. /\ q.count \in Nat /\ q.count <= nbaccounts /\ nbaccounts \in Nat
        /\ \A x \in 0 .. nbaccounts - 1 : q.accounts[x] \in Int
    BY <2>1, GoodSegment, Money
  <2>3. i \in 0 .. nbaccounts - 1
    BY <2>1, <2>2
  <2>4. v \in Int
    BY <1>1, <2>1, <2>2, <2>3
  <2>. QED
    BY <1>1, <2>2, <2>4, ChainSums DEF Good, Shape
<1>3. Updates(p, m, k, i, v - 1)
  <2>1. v - 1 \in Int /\ p = Put(m, k, Paid(m[k], i, v - 1))
    BY <1>1, <1>2
  <2>. QED
    BY <1>2, <2>1, SetUpdates
<1>4. /\ Shape(p) /\ Len(p) = Len(m) /\ Total(p) = Total(m)
      /\ \A x \in 1 .. Len(m) : p[x].count = m[x].count
      /\ Sum(p) = Sum(m) + (v - 1) - v
  BY <1>1, <1>3 DEF Updates
<1>5. Solvent(p)
  <2>1. \A x \in 1 .. Len(m) : \A y \in 0 .. m[x].count - 1 : m[x].accounts[y] >= 0
    BY DEF Good, Consistent
  <2>2. /\ p[k].accounts[i] = v - 1
        /\ \A x \in 1 .. Len(m) : \A y \in 0 .. m[x].count - 1 :
              (x # k \/ y # i) => p[x].accounts[y] = m[x].accounts[y]
    BY <1>3 DEF Updates
  <2>3. v - 1 >= 0
    BY <1>2
  <2>4. ASSUME NEW x \in 1 .. Len(p), NEW y \in 0 .. p[x].count - 1
        PROVE  p[x].accounts[y] >= 0
    <3>1. x \in 1 .. Len(m) /\ y \in 0 .. m[x].count - 1
      BY <1>4
    <3>2. CASE x # k \/ y # i
      BY <2>1, <2>2, <3>1, <3>2
    <3>3. CASE x = k /\ y = i
      BY <2>2, <2>3, <3>3
    <3>. QED
      BY <3>2, <3>3
  <2>. QED
    BY <2>4 DEF Solvent
<1>6. PICK w : w = p[h].accounts[j]
  OBVIOUS
<1>7. h \in 1 .. Len(p) /\ j \in 0 .. p[h].count - 1
  BY <1>4
<1>8. w \in Int /\ w >= 0
  <2>1. PICK q : q = p[h]
    OBVIOUS
  <2>2. q \in Segs
    BY <1>4, <1>7, <2>1, ChainSums DEF Shape
  <2>3. /\ q.count \in Nat /\ q.count <= nbaccounts
        /\ \A x \in 0 .. nbaccounts - 1 : q.accounts[x] \in Int
    BY <2>2, Balanced
  <2>4. j \in 0 .. nbaccounts - 1
    <3>1. PICK c : c = q.count
      OBVIOUS
    <3>2. c \in Nat /\ c <= nbaccounts /\ nbaccounts \in Nat /\ j \in 0 .. c - 1
      BY <1>2, <1>7, <2>1, <2>3, <3>1
    <3>. QED
      BY <3>2
  <2>5. w \in Int
    BY <1>6, <2>1, <2>3, <2>4
  <2>. QED
    BY <1>5, <1>6, <1>7, <2>5 DEF Solvent
<1>9. Updates(n, p, h, j, w + 1)
  <2>1. w + 1 \in Int
    BY <1>8
  <2>2. n = Put(p, h, Paid(p[h], j, w + 1))
    BY <1>6, Zenon
  <2>. QED
    BY <1>4, <1>7, <2>1, <2>2, SetUpdates
<1>10. /\ Shape(n) /\ Len(n) = Len(p) /\ Total(n) = Total(p)
       /\ \A x \in 1 .. Len(p) : n[x].count = p[x].count
       /\ Sum(n) = Sum(p) + (w + 1) - w
  BY <1>6, <1>9 DEF Updates
<1>11. Solvent(n)
  <2>1. \A x \in 1 .. Len(p) : \A y \in 0 .. p[x].count - 1 : p[x].accounts[y] >= 0
    BY <1>5 DEF Solvent
  <2>2. /\ n[h].accounts[j] = w + 1
        /\ \A x \in 1 .. Len(p) : \A y \in 0 .. p[x].count - 1 :
              (x # h \/ y # j) => n[x].accounts[y] = p[x].accounts[y]
    BY <1>9 DEF Updates
  <2>3. w + 1 >= 0
    BY <1>8
  <2>4. ASSUME NEW x \in 1 .. Len(n), NEW y \in 0 .. n[x].count - 1
        PROVE  n[x].accounts[y] >= 0
    <3>1. x \in 1 .. Len(p) /\ y \in 0 .. p[x].count - 1
      BY <1>10
    <3>2. CASE x # h \/ y # j
      BY <2>1, <2>2, <3>1, <3>2
    <3>3. CASE x = h /\ y = j
      BY <2>2, <2>3, <3>3
    <3>. QED
      BY <3>2, <3>3
  <2>. QED
    BY <2>4 DEF Solvent
<1>12. Sum(n) = Sum(m) /\ Total(n) = Total(m)
  <2>1. PICK x : x = Sum(m)
    OBVIOUS
  <2>2. x \in Int /\ Sum(p) = x + (v - 1) - v
    BY <1>2, <1>4, <2>1
  <2>3. Sum(p) = x - 1
    BY <1>2, <2>2
  <2>4. Sum(n) = (x - 1) + (w + 1) - w
    BY <1>10, <2>3
  <2>5. Sum(n) = x
    <3>1. PICK y : y = Sum(n)
      OBVIOUS
    <3>2. y = (x - 1) + (w + 1) - w
      BY <2>4, <3>1
    <3>3. w \in Int /\ x \in Int
      BY <1>8, <2>2
    <3>4. y = x
      BY <3>2, <3>3
    <3>. QED
      BY <3>1, <3>4
  <2>. QED
    BY <1>4, <1>10, <2>1, <2>5
<1>13. Fits(m, n)
  BY <1>12 DEF Fits
<1>. QED
  BY <1>10, <1>11, <1>13, GoodAgain

-----------------------------------------------------------------------------
(* The closures, on a good chain *)

\* What EXCEPT changes in a segment.
Assigned(m, k, i, b) == [m EXCEPT ![k].accounts[i] = b]

LEMMA ExceptIsPut ==
    ASSUME NEW m \in Seq(Segs), NEW k \in 1 .. Len(m), NEW i, NEW b
    PROVE  Assigned(m, k, i, b) = Put(m, k, Paid(m[k], i, b))
<1>1. PICK q : q = m[k]
  OBVIOUS
<1>2. q \in Segs
  BY <1>1, ChainSums
<1>3. q = [count |-> q.count, parity |-> q.parity, accounts |-> q.accounts]
  BY <1>2 DEF Segs
<1>4. [q EXCEPT !.accounts[i] = b] = Paid(q, i, b)
  BY <1>3 DEF Paid
<1>5. [m EXCEPT ![k].accounts[i] = b] = [m EXCEPT ![k] = [q EXCEPT !.accounts[i] = b]]
  BY <1>1
<1>. QED
  BY <1>1, <1>4, <1>5 DEF Put, Assigned

LEMMA OpenedIsGood ==
    ASSUME Good(memory)
    PROVE  Good(AccountOpened)
<1>1. PICK m : m = memory
  OBVIOUS
<1>2. PICK s : s = m[Len(m)]
  OBVIOUS
<1>3. m \in Seq(Segs) /\ Len(m) \in 1 .. Len(m) /\ s \in Segs
  BY <1>1, <1>2, ShapeTotal DEF Good
<1>4. CASE Full
  BY <1>1, <1>4, AppendedGood DEF AccountOpened, Full, LastSegment, Last, segments
<1>5. CASE ~ Full
  <2>1. s = [count |-> s.count, parity |-> s.parity, accounts |-> s.accounts]
    BY <1>3 DEF Segs
  <2>2. AccountOpened = [m EXCEPT ![Len(m)].accounts[s.count] = init_balance,
                                  ![Len(m)].count = @ + 1]
    BY <1>1, <1>2, <1>5 DEF AccountOpened, LastSegment, Last, segments
  <2>3. AccountOpened = [m EXCEPT ![Len(m)] =
                            [s EXCEPT !.accounts[s.count] = init_balance, !.count = @ + 1]]
    BY <1>2, <1>3, <2>2
  <2>4. [s EXCEPT !.accounts[s.count] = init_balance, !.count = @ + 1] = Opened(s)
    <3>1. PICK x : x = [s EXCEPT !.accounts[s.count] = init_balance]
      OBVIOUS
    <3>2. x = [count |-> s.count, parity |-> s.parity,
               accounts |-> [s.accounts EXCEPT ![s.count] = init_balance]]
      BY <2>1, <3>1
    <3>3. [s EXCEPT !.accounts[s.count] = init_balance, !.count = @ + 1]
          = [x EXCEPT !.count = s.count + 1]
      BY <2>1, <3>1
    <3>4. PICK c : c = s.count + 1
      OBVIOUS
    <3>5. [x EXCEPT !.count = c] = [count |-> c, parity |-> s.parity,
               accounts |-> [s.accounts EXCEPT ![s.count] = init_balance]]
      BY <3>2
    <3>. QED
      BY <3>3, <3>4, <3>5 DEF Opened
  <2>5. AccountOpened = Put(m, Len(m), Opened(s))
    BY <2>3, <2>4 DEF Put
  <2>6. s.count # nbaccounts
    BY <1>1, <1>2, <1>5 DEF Full, LastSegment, Last, segments
  <2>. QED
    BY <1>1, <1>2, <2>5, <2>6, OpenedGood
<1>. QED
  BY <1>4, <1>5

LEMMA ClosedIsGood ==
    ASSUME Good(memory), LastSegment.count > 1
    PROVE  Good(AccountClosed)
<1>1. PICK m : m = memory
  OBVIOUS
<1>2. PICK s : s = m[Len(m)]
  OBVIOUS
<1>3. m \in Seq(Segs) /\ Len(m) \in 1 .. Len(m) /\ s \in Segs
  BY <1>1, <1>2, ShapeTotal DEF Good
<1>4. PICK p : p = s.parity + s.accounts[s.count - 1] - init_balance
  OBVIOUS
<1>5. s = [count |-> s.count, parity |-> s.parity, accounts |-> s.accounts]
  BY <1>3 DEF Segs
<1>6. AccountClosed = [m EXCEPT ![Len(m)].count = @ - 1, ![Len(m)].parity = p]
  BY <1>1, <1>2, <1>4 DEF AccountClosed, new_parity, LastSegment, Last, segments
<1>7. AccountClosed = [m EXCEPT ![Len(m)] = [s EXCEPT !.count = @ - 1, !.parity = p]]
  BY <1>2, <1>3, <1>6
<1>8. PICK r : r = [count |-> s.count - 1, accounts |-> s.accounts, parity |-> p]
  OBVIOUS
<1>9. [s EXCEPT !.count = @ - 1, !.parity = p] = r
  <2>1. PICK c : c = s.count - 1
    OBVIOUS
  <2>2. PICK x : x = [s EXCEPT !.count = c, !.parity = p]
    OBVIOUS
  <2>3. /\ x.count = c /\ x.parity = p /\ x.accounts = s.accounts
        /\ DOMAIN x = {"count", "parity", "accounts"}
    BY <1>5, <2>2
  <2>4. x = [count |-> c, accounts |-> s.accounts, parity |-> p]
    BY <2>2, <2>3
  <2>. QED
    BY <1>8, <2>1, <2>2, <2>4
<1>10. AccountClosed = Put(m, Len(m), r)
  BY <1>7, <1>9 DEF Put
<1>11. s.count > 1
  BY <1>1, <1>2 DEF LastSegment, Last, segments
<1>12. r = [count |-> s.count - 1, accounts |-> s.accounts,
            parity |-> s.parity + s.accounts[s.count - 1] - init_balance]
  BY <1>4, <1>8
<1>. QED
  BY <1>1, <1>2, <1>10, <1>11, <1>12, ClosedGood

LEMMA FreedIsGood ==
    ASSUME Good(memory), LastSegment.count = 1, Len(memory) # 1
    PROVE  Good(SegmentFreed)
<1>1. PICK m : m = memory
  OBVIOUS
<1>2. PICK s : s = m[Len(m)]
  OBVIOUS
<1>3. m \in Seq(Segs) /\ Len(m) \in 1 .. Len(m) /\ s \in Segs /\ Len(m) \in Nat /\ Len(m) >= 1
  BY <1>1, <1>2, ShapeTotal DEF Good, Shape
<1>4. PICK q : q = m[Len(m) - 1]
  OBVIOUS
<1>5. PICK f : f = Front(m)
  OBVIOUS
<1>6. f \in Seq(Segs) /\ Len(m) - 1 \in 1 .. Len(f) /\ f[Len(m) - 1] = q /\ q \in Segs
  <2>1. Shortened(f, m)
    BY <1>3, <1>5, FrontShort
  <2>2. PICK l : l = Len(m) - 1
    OBVIOUS
  <2>3. l \in 1 .. l
    <3>1. PICK k : k = Len(m)
      OBVIOUS
    <3>2. k \in Nat /\ k >= 1 /\ k # 1 /\ l = k - 1
      BY <1>1, <1>3, <2>2, <3>1
    <3>. QED
      BY <3>2
  <2>4. f \in Seq(Segs) /\ l \in 1 .. Len(f) /\ f[l] = q
    BY <1>4, <2>1, <2>2, <2>3 DEF Shortened
  <2>. QED
    BY <2>2, <2>4, ChainSums
<1>7. PICK p : p = s.parity + s.accounts[0] - init_balance
  OBVIOUS
<1>8. new_parity = p
  <2>1. s.count - 1 = 0
    BY <1>1, <1>2 DEF LastSegment, Last, segments
  <2>. QED
    BY <1>1, <1>2, <1>7, <2>1 DEF new_parity, LastSegment, Last, segments
<1>9. SegmentFreed = [f EXCEPT ![Len(m) - 1].parity = @ + p]
  BY <1>1, <1>5, <1>8 DEF SegmentFreed, Inherited, segments
<1>10. SegmentFreed = [f EXCEPT ![Len(m) - 1] = [q EXCEPT !.parity = @ + p]]
  BY <1>6, <1>9
<1>11. q = [count |-> q.count, parity |-> q.parity, accounts |-> q.accounts]
  BY <1>6 DEF Segs
<1>12. [q EXCEPT !.parity = @ + p] = Merged(q, s)
  <2>1. [q EXCEPT !.parity = @ + p] = [count |-> q.count, accounts |-> q.accounts, parity |-> q.parity + p]
    BY <1>11
  <2>. QED
    BY <1>7, <2>1 DEF Merged
<1>13. SegmentFreed = Put(Front(m), Len(m) - 1, Merged(q, s))
  BY <1>5, <1>10, <1>12 DEF Put
<1>14. s.count = 1 /\ Len(m) # 1
  BY <1>1, <1>2 DEF LastSegment, Last, segments
<1>. QED
  BY <1>1, <1>2, <1>4, <1>13, <1>14, FreedGood

\* An account that exists.
LEMMA ExistsAt ==
    ASSUME Good(memory), NEW id \in Nat, Exists(id)
    PROVE  /\ Found(id) \in 1 .. Len(memory)
           /\ id - Before(memory, Found(id)) \in 0 .. memory[Found(id)].count - 1
<1>1. PICK m : m = memory
  OBVIOUS
<1>2. PICK f : f = Found(id)
  OBVIOUS
<1>3. m \in Seq(Segs) /\ Len(m) \in Nat
  BY <1>1, ChainSums DEF Good, Shape
<1>4. At(m, id, f)
  BY <1>1, <1>2, <1>3, FoundAt
<1>5. f <= Len(m)
  BY <1>1, <1>2 DEF Exists, segments
<1>6. f \in 1 .. Len(m) /\ Before(m, f) \in Nat /\ Before(m, f) <= id /\ id < Before(m, f) + m[f].count
  BY <1>3, <1>4, <1>5 DEF At
<1>7. m[f].count \in Nat
  BY <1>1, <1>6, GoodSegment
<1>8. PICK x : x = Before(m, f)
  OBVIOUS
<1>9. PICK c : c = m[f].count
  OBVIOUS
<1>10. x \in Nat /\ x <= id /\ id < x + c /\ c \in Nat
  BY <1>6, <1>7, <1>8, <1>9
<1>11. id - x \in 0 .. c - 1
  BY <1>10
<1>. QED
  BY <1>1, <1>2, <1>6, <1>8, <1>9, <1>11

LEMMA TransferIsGood ==
    ASSUME Good(memory), NEW s \in Nat, NEW r \in Nat, Exists(s), Exists(r)
    PROVE  Good(Transfer(s, r))
<1>1. PICK m : m = memory
  OBVIOUS
<1>2. PICK k : k = Found(s)
  OBVIOUS
<1>3. PICK h : h = Found(r)
  OBVIOUS
<1>4. PICK i : i = s - Before(m, k)
  OBVIOUS
<1>5. PICK j : j = r - Before(m, h)
  OBVIOUS
<1>6. /\ k \in 1 .. Len(m) /\ i \in 0 .. m[k].count - 1
      /\ h \in 1 .. Len(m) /\ j \in 0 .. m[h].count - 1
  BY <1>1, <1>2, <1>3, <1>4, <1>5, ExistsAt
<1>7. m \in Seq(Segs) /\ Good(m) /\ Shape(m)
  BY <1>1, ShapeTotal DEF Good
<1>8. PICK v : v = m[k].accounts[i]
  OBVIOUS
<1>9. Balance(segments, s) = v
  BY <1>1, <1>2, <1>4, <1>8 DEF Balance, segments
<1>10. CASE ~ Enough(v)
  BY <1>7, <1>1, <1>9, <1>10 DEF Transfer, segments
<1>11. CASE Enough(v)
  <2>1. PICK p : p = Put(m, k, Paid(m[k], i, v - 1))
    OBVIOUS
  <2>2. Set(segments, s, v - 1) = p
    <3>1. Set(segments, s, v - 1) = [m EXCEPT ![k].accounts[i] = v - 1]
      BY <1>1, <1>2, <1>4 DEF Set, segments
    <3>2. PICK b : b = v - 1
      OBVIOUS
    <3>3. Assigned(m, k, i, b) = Put(m, k, Paid(m[k], i, b))
      BY <1>6, <1>7, ExceptIsPut
    <3>. QED
      BY <2>1, <3>1, <3>2, <3>3 DEF Assigned
  <2>3. p \in Seq(Segs) /\ Len(p) = Len(m)
    <3>1. v \in Int
      <4>1. PICK q : q = m[k]
        OBVIOUS
      <4>2. PICK c : c = q.count
        OBVIOUS
      <4>3. c \in Nat /\ c <= nbaccounts /\ nbaccounts \in Nat /\ i \in 0 .. c - 1
            /\ \A x \in 0 .. nbaccounts - 1 : q.accounts[x] \in Int
        BY <1>6, <1>7, <4>1, <4>2, GoodSegment, Money
      <4>4. i \in 0 .. nbaccounts - 1
        BY <4>3
      <4>. QED
        BY <1>8, <4>1, <4>3, <4>4
    <3>2. Updates(p, m, k, i, v - 1)
      BY <1>6, <1>7, <2>1, <3>1, SetUpdates
    <3>. QED
      BY <3>2 DEF Updates, Shape
  <2>4. PICK n : n = Put(p, h, Paid(p[h], j, p[h].accounts[j] + 1))
    OBVIOUS
  <2>5. Received(p, r) = n
    <3>1. PICK w : w = p[h].accounts[j]
      OBVIOUS
    <3>2. Balance(p, r) = w
      BY <1>1, <1>3, <1>5, <3>1 DEF Balance, segments
    <3>3. Set(p, r, w + 1) = [p EXCEPT ![h].accounts[j] = w + 1]
      BY <1>1, <1>3, <1>5 DEF Set, segments
    <3>4. h \in 1 .. Len(p)
      BY <1>6, <2>3
    <3>5. Set(p, r, w + 1) = Put(p, h, Paid(p[h], j, w + 1))
      <4>1. PICK b : b = w + 1
        OBVIOUS
      <4>2. Assigned(p, h, j, b) = Put(p, h, Paid(p[h], j, b))
        BY <2>3, <3>4, ExceptIsPut
      <4>. QED
        BY <3>3, <4>1, <4>2 DEF Assigned
    <3>. QED
      BY <2>4, <3>1, <3>2, <3>5 DEF Received
  <2>6. Transfer(s, r) = n
    BY <1>9, <1>11, <2>2, <2>5 DEF Transfer
  <2>7. m[k].accounts[i] > 0 /\ p = Put(m, k, Paid(m[k], i, m[k].accounts[i] - 1))
    BY <1>8, <1>11, <2>1 DEF Enough
  <2>8. Good(n)
    BY <1>6, <1>7, <2>4, <2>7, TransferGood
  <2>. QED
    BY <2>6, <2>8
<1>. QED
  BY <1>10, <1>11

-----------------------------------------------------------------------------
(* The invariant *)

Starting == {"start", "init", "check"}
Calling == {"long", "alloc", "short"}

BankTypes ==
    /\ pc \in [Workers -> Starting \cup Calling \cup {"run", "done"}]
    /\ mode \in [Workers -> {"read_only", "read_write"}]
    /\ value \in [Workers -> Nat] /\ count \in [Workers -> Nat]
    /\ send_id \in [Workers -> Nat] /\ recv_id \in [Workers -> Nat]
    /\ stale \in [Workers -> BOOLEAN]
    /\ pending = [t \in Workers |-> pending[t]]

\* Who is in a call of the wrapper, in which mode.
Calls ==
    \A t \in Workers :
        /\ at[t] = "idle" <=> pc[t] \in {"start", "run", "done"}
        /\ at[t] # "idle" => mode[t] = IF pc[t] \in {"check", "long"} THEN "read_only"
                                       ELSE "read_write"

\* Nobody runs transactions before all have initialised and checked.
Stages ==
    /\ (\E t \in Workers : pc[t] \in Starting) =>
          /\ \A t \in Workers : pc[t] \in Starting \cup {"run"}
          /\ memory = Fresh \/ memory = Ready
    /\ memory = Fresh => \A t \in Workers : /\ pc[t] \in {"start", "init"}
                                            /\ pc[t] = "init" => at[t] # "returned"
    /\ memory # Fresh => Good(memory)

\* An attempt that may commit leaves a good chain, too.
Attempts ==
    \A t \in Workers :
        (handle[t] = "live" /\ ~ stale[t] /\ mode[t] = "read_write") =>
            /\ pc[t] = "init" => pending[t] = Ready
            /\ Good(pending[t])

\* What the read-only transactions find.
Verdicts ==
    \A t \in Workers :
        (at[t] = "returned" \/ handle[t] = "live") =>
            /\ pc[t] = "check" => value[t] = 1
            /\ pc[t] = "long" => value[t] # 0

BankInv ==
    BankTypes /\ Calls /\ Stages /\ Attempts /\ Verdicts /\ error = {} /\ ~ null_segment

-----------------------------------------------------------------------------
(* The wrapper keeps it *)

\* A worker calls transactional.
LEMMA CallKeeps ==
    ASSUME TxInv, BankInv, NEW t \in Workers, NEW l \in {"init", "check"} \cup Calling,
           Call(t, l, IF l \in {"check", "long"} THEN "read_only" ELSE "read_write"),
           l \in Calling => Running(t) \/ Out(t, "short"),
           l = "init" => pc[t] = "start",
           l = "check" => Out(t, "init"),
           send_id' \in [Workers -> Nat], recv_id' \in [Workers -> Nat],
           UNCHANGED <<count, error, null_segment>>
    PROVE  BankInv'
<1>1. handle[t] = "none"
  BY DEF TxInv, CommittedOnce, Call, transactional
<1>2. /\ pc' = [pc EXCEPT ![t] = l] /\ at' = [at EXCEPT ![t] = "attempt"]
      /\ mode' = [mode EXCEPT ![t] = IF l \in {"check", "long"} THEN "read_only" ELSE "read_write"]
      /\ UNCHANGED <<memory, handle, pending, stale, value>>
  BY DEF Call, Goto, transactional, transaction
<1>3. at \in [Workers -> {"idle", "attempt", "destructor", "returned", "threw"}]
  BY DEF TxInv, TxTypes
<1>4. BankTypes'
  BY <1>2 DEF BankInv, BankTypes, Starting, Calling
<1>5. Calls'
  BY <1>2, <1>3 DEF BankInv, BankTypes, Calls, Calling
<1>6. Stages'
  BY <1>2, <1>3 DEF BankInv, BankTypes, Stages, Starting, Calling, Running, Out
<1>7. Attempts'
  BY <1>1, <1>2 DEF BankInv, BankTypes, Attempts
<1>8. Verdicts'
  BY <1>1, <1>2, <1>3 DEF BankInv, BankTypes, Verdicts
<1>. QED
  BY <1>4, <1>5, <1>6, <1>7, <1>8 DEF BankInv

\* It has its value and goes on.
LEMMA LeaveKeeps ==
    ASSUME TxInv, BankInv, NEW t \in Workers, NEW l \in {"run", "done"},
           leave(t), Goto(t, l), pc[t] \in {"check"} \cup Calling,
           l = "done" => pc[t] \in Calling,
           count' \in [Workers -> Nat],
           UNCHANGED <<send_id, recv_id, error, null_segment>>
    PROVE  BankInv'
<1>1. handle[t] = "none"
  BY DEF TxInv, CommittedOnce, leave
<1>2. /\ pc' = [pc EXCEPT ![t] = l] /\ at' = [at EXCEPT ![t] = "idle"]
      /\ UNCHANGED <<memory, mode, handle, pending, stale, value>>
  BY DEF Goto, leave, transaction
<1>3. at \in [Workers -> {"idle", "attempt", "destructor", "returned", "threw"}]
  BY DEF TxInv, TxTypes
<1>4. BankTypes'
  BY <1>2 DEF BankInv, BankTypes, Starting, Calling
<1>5. Calls'
  BY <1>2, <1>3 DEF BankInv, BankTypes, Calls
<1>6. Stages'
  BY <1>2, <1>3 DEF BankInv, BankTypes, Stages, Starting, Calling
<1>7. Attempts'
  BY <1>1, <1>2 DEF BankInv, BankTypes, Attempts
<1>8. Verdicts'
  BY <1>1, <1>2, <1>3 DEF BankInv, BankTypes, Verdicts
<1>. QED
  BY <1>2, <1>4, <1>5, <1>6, <1>7, <1>8 DEF BankInv

\* The attempt leads to the destructor.
LEMMA AttemptKeeps ==
    ASSUME TxInv, BankInv, NEW t \in Workers, NEW h, NEW a, NEW e, NEW w, NEW v \in Nat,
           Attempted(t, h, a, e, w, v),
           (h = "live" /\ mode[t] = "read_write") => Good(w) /\ (pc[t] = "init" => w = Ready),
           h = "live" => /\ pc[t] = "check" => v = 1
                         /\ pc[t] = "long" => v # 0,
           send_id' \in [Workers -> Nat], recv_id' \in [Workers -> Nat],
           UNCHANGED <<pc, count, error>>, ~ null_segment'
    PROVE  BankInv'
<1>1. /\ at[t] = "attempt" /\ at' = [at EXCEPT ![t] = "destructor"]
      /\ handle' = [handle EXCEPT ![t] = h]
      /\ pending' = [pending EXCEPT ![t] = w] /\ value' = [value EXCEPT ![t] = v]
      /\ UNCHANGED <<memory, mode, stale>>
  BY DEF Attempted
<1>2. /\ at \in [Workers -> {"idle", "attempt", "destructor", "returned", "threw"}]
      /\ handle \in [Workers -> {"none", "live", "dead"}]
  BY DEF TxInv, TxTypes
<1>3. BankTypes'
  BY <1>1 DEF BankInv, BankTypes
<1>4. Calls'
  BY <1>1, <1>2 DEF BankInv, BankTypes, Calls
<1>5. Stages'
  BY <1>1, <1>2 DEF BankInv, BankTypes, Stages
<1>6. Attempts'
  BY <1>1, <1>2 DEF BankInv, BankTypes, Attempts
<1>7. Verdicts'
  BY <1>1, <1>2 DEF BankInv, BankTypes, Verdicts
<1>. QED
  BY <1>3, <1>4, <1>5, <1>6, <1>7 DEF BankInv

\* tm_begin fails, or the destructor does not call tm_end, or in vain.
LEMMA EndedKeeps ==
    ASSUME TxInv, BankInv, NEW t \in Workers, begin_fails(t) \/ end_refused(t) \/ end_skipped(t),
           UNCHANGED <<pc, run_vars, args, error, null_segment>>
    PROVE  BankInv'
<1>1. PICK next \in {"attempt", "threw"} : at' = [at EXCEPT ![t] = next]
  BY DEF begin_fails, end_refused, end_skipped, Destroyed, AfterRefusal
<1>2. at[t] \in {"attempt", "destructor"}
  BY DEF begin_fails, end_refused, end_skipped, Ending
<1>3. /\ at \in [Workers -> {"idle", "attempt", "destructor", "returned", "threw"}]
      /\ handle \in [Workers -> {"none", "live", "dead"}]
  BY DEF TxInv, TxTypes
<1>4. handle' = [handle EXCEPT ![t] = "none"]
  <2>1. CASE begin_fails(t)
    BY <1>3, <2>1 DEF begin_fails, TxInv, CommittedOnce
  <2>. QED
    BY <2>1 DEF end_refused, end_skipped, Destroyed
<1>5. /\ \/ pending' = [pending EXCEPT ![t] = Nothing]
         \/ pending' = pending
      /\ \/ stale' = [stale EXCEPT ![t] = FALSE]
         \/ stale' = stale
      /\ UNCHANGED <<memory, mode, value, pc, count, send_id, recv_id, error, null_segment>>
  BY DEF begin_fails, end_refused, end_skipped, run_vars, args
<1>6. BankTypes'
  BY <1>5 DEF BankInv, BankTypes
<1>7. Calls'
  BY <1>1, <1>2, <1>3, <1>5 DEF BankInv, BankTypes, Calls
<1>8. Stages'
  BY <1>1, <1>3, <1>5 DEF BankInv, BankTypes, Stages
<1>9. Attempts'
  BY <1>3, <1>4, <1>5 DEF BankInv, BankTypes, Attempts
<1>10. Verdicts'
  BY <1>1, <1>3, <1>4, <1>5 DEF BankInv, BankTypes, Verdicts
<1>. QED
  BY <1>5, <1>6, <1>7, <1>8, <1>9, <1>10 DEF BankInv

\* tm_end commits.
LEMMA CommitKeeps ==
    ASSUME TxInv, BankInv, NEW t \in Workers, end_commits(t),
           UNCHANGED <<pc, run_vars, args, error, null_segment>>
    PROVE  BankInv'
<1>1. PICK next \in {"returned", "threw"} : at' = [at EXCEPT ![t] = next]
  BY DEF end_commits, Destroyed
<1>2. at[t] = "destructor" /\ handle[t] = "live" /\ ~ stale[t]
  BY DEF end_commits, Ending, TxInv, CommittedOnce
<1>3. /\ at \in [Workers -> {"idle", "attempt", "destructor", "returned", "threw"}]
      /\ handle \in [Workers -> {"none", "live", "dead"}]
  BY DEF TxInv, TxTypes
<1>4. /\ handle' = [handle EXCEPT ![t] = "none"]
      /\ UNCHANGED <<mode, value, pc, count, send_id, recv_id, error, null_segment>>
  BY DEF end_commits, Destroyed, run_vars, args
<1>5. /\ stale' \in [Workers -> BOOLEAN]
      /\ \A u \in Workers : ~ stale'[u] => ~ stale[u]
  BY DEF end_commits, BankInv, BankTypes
<1>6. /\ pending' = [u \in Workers |-> pending'[u]]
      /\ \A u \in Workers \ {t} : ~ stale'[u] => pending'[u] = pending[u]
  BY DEF end_commits
<1>7. BankTypes'
  BY <1>4, <1>5, <1>6 DEF BankInv, BankTypes
<1>8. Calls'
  BY <1>1, <1>2, <1>3, <1>4 DEF BankInv, BankTypes, Calls
<1>9. Stages'
  <2>1. CASE mode[t] = "read_only"
    <3>1. memory' = memory
      BY <2>1 DEF end_commits, ReadOnly
    <3>2. memory = Fresh => pc[t] \notin {"init"}
      BY <1>2, <2>1 DEF BankInv, Calls
    <3>. QED
      BY <1>1, <1>3, <1>4, <3>1, <3>2 DEF BankInv, BankTypes, Stages
  <2>2. CASE mode[t] # "read_only"
    <3>1. memory' = pending[t]
      BY <2>2 DEF end_commits, ReadOnly
    <3>2. mode[t] = "read_write"
      BY <2>2 DEF BankInv, BankTypes
    <3>3. Good(pending[t]) /\ (pc[t] = "init" => pending[t] = Ready)
      BY <1>2, <3>2 DEF BankInv, Attempts
    <3>4. \A m : Good(m) => m # Fresh
      BY FreshConsistent, ShapeTotal DEF Good
    <3>5. pc[t] \in {"init"} \cup Calling
      BY <1>2, <3>2 DEF BankInv, BankTypes, Calls, Starting, Calling
    <3>6. pc[t] # "init" => \A u \in Workers : pc[u] \notin Starting
      BY <3>5 DEF BankInv, Stages, Starting, Calling
    <3>. QED
      BY <1>4, <3>1, <3>3, <3>4, <3>6 DEF BankInv, Stages
  <2>. QED
    BY <2>1, <2>2
<1>10. Attempts'
  BY <1>3, <1>4, <1>5, <1>6 DEF BankInv, BankTypes, Attempts
<1>11. Verdicts'
  BY <1>1, <1>2, <1>3, <1>4 DEF BankInv, BankTypes, Verdicts
<1>. QED
  BY <1>4, <1>7, <1>8, <1>9, <1>10, <1>11 DEF BankInv

-----------------------------------------------------------------------------
(* And so do the closures *)

LEMMA InitKeeps ==
    ASSUME TxInv, BankInv, NEW t \in Workers, init_closure(t)
    PROVE  BankInv'
<1>1. memory = Fresh \/ memory = Ready
  BY DEF init_closure, In, BankInv, Stages, Starting
<1>2. Initialised = Ready
  <2>1. PICK s : s = Segment(nbaccounts)
    OBVIOUS
  <2>2. \A x : x = Fresh \/ x = Ready =>
            [x EXCEPT ![1].count = nbaccounts, ![1].accounts = s.accounts] = <<s>>
    <3>1. s = [count |-> nbaccounts, parity |-> 0, accounts |-> s.accounts]
      BY <2>1 DEF Segment
    <3>2. PICK r : r = Segment(0)
      OBVIOUS
    <3>3. r = [count |-> 0, parity |-> 0, accounts |-> r.accounts]
      BY <3>2 DEF Segment
    <3>4. ASSUME NEW q, q = r \/ q = s
          PROVE  [q EXCEPT !.count = nbaccounts, !.accounts = s.accounts] = s
      <4>1. q = [count |-> q.count, parity |-> 0, accounts |-> q.accounts]
        BY <3>1, <3>3, <3>4
      <4>2. PICK x : x = [q EXCEPT !.count = nbaccounts, !.accounts = s.accounts]
        OBVIOUS
      <4>3. /\ x.count = nbaccounts /\ x.parity = 0 /\ x.accounts = s.accounts
            /\ DOMAIN x = {"count", "parity", "accounts"}
        BY <4>1, <4>2
      <4>4. x = [count |-> nbaccounts, parity |-> 0, accounts |-> s.accounts]
        BY <4>2, <4>3
      <4>. QED
        BY <3>1, <4>2, <4>4
    <3>5. ASSUME NEW x, x = <<r>> \/ x = <<s>>
          PROVE  [x EXCEPT ![1].count = nbaccounts, ![1].accounts = s.accounts] = <<s>>
      <4>1. PICK q : x = <<q>> /\ (q = r \/ q = s)
        BY <3>5
      <4>2. [x EXCEPT ![1].count = nbaccounts, ![1].accounts = s.accounts]
            = <<[q EXCEPT !.count = nbaccounts, !.accounts = s.accounts]>>
        BY <4>1
      <4>. QED
        BY <3>4, <4>1, <4>2
    <3>. QED
      BY <2>1, <3>2, <3>5 DEF Fresh, Ready
  <2>. QED
    BY <1>1, <2>1, <2>2 DEF Initialised, Ready, segments
<1>3. Attempted(t, "live", FALSE, "none", Initialised, 0)
  BY DEF init_closure, Pure, closure_returns
<1>4. UNCHANGED <<pc, count, send_id, recv_id, error, null_segment>>
  BY DEF init_closure, Pure, run_vars, args
<1>5. pc[t] = "init"
  BY DEF init_closure, In
<1>6. Attempted(t, "live", FALSE, "none", Ready, 0)
  BY <1>2, <1>3
<1>. QED
  BY <1>4, <1>5, <1>6, ReadyGood, AttemptKeeps DEF BankInv, BankTypes

LEMMA ReadOnlyKeeps ==
    ASSUME TxInv, BankInv, NEW t \in Workers, check_closure(t) \/ long_closure(t)
    PROVE  BankInv'
<1>1. UNCHANGED <<pc, count, send_id, recv_id, error, null_segment>>
  BY DEF check_closure, long_closure, Pure, run_vars, args
<1>2. mode[t] = "read_only" /\ memory # Fresh
  BY DEF check_closure, long_closure, In, BankInv, Calls, Stages
<1>3. Good(memory)
  BY <1>2 DEF BankInv, Stages
<1>4. CASE check_closure(t)
  <2>1. pc[t] = "check" /\ (memory = Fresh \/ memory = Ready)
    BY <1>4 DEF check_closure, In, BankInv, Stages, Starting
  <2>2. memory[1].accounts[0] = init_balance
    BY <1>2, <2>1, ReadyGood
  <2>3. Attempted(t, "live", FALSE, "none", Nothing, 1)
    BY <1>4, <2>2 DEF check_closure, Pure, closure_returns, segments
  <2>. QED
    BY <1>1, <1>2, <2>1, <2>3, AttemptKeeps DEF BankInv, BankTypes
<1>5. CASE long_closure(t)
  <2>1. pc[t] = "long" /\ Consistent(memory) /\ Total(memory) \in Nat /\ Total(memory) >= 1
    BY <1>3, <1>5, ShapeTotal DEF long_closure, In, Good
  <2>2. PICK v : v = Total(memory)
    OBVIOUS
  <2>3. v \in Nat /\ v # 0
    BY <2>1, <2>2
  <2>4. Attempted(t, "live", FALSE, "none", Nothing, v)
    BY <1>5, <2>1, <2>2 DEF long_closure, Pure, closure_returns, segments
  <2>. QED
    BY <1>1, <1>2, <2>1, <2>3, <2>4, AttemptKeeps DEF BankInv, BankTypes
<1>. QED
  BY <1>4, <1>5

LEMMA AllocKeeps ==
    ASSUME TxInv, BankInv, NEW t \in Workers, alloc_closure(t) \/ alloc_throws(t)
    PROVE  BankInv'
<1>1. UNCHANGED <<pc, count, send_id, recv_id, error>>
  BY DEF alloc_closure, alloc_throws, run_vars, args
<1>2. pc[t] = "alloc" /\ Good(memory)
  BY DEF alloc_closure, alloc_throws, In, BankInv, Stages
<1>3. CASE alloc_throws(t)
  <2>1. Attempted(t, "live", FALSE, "alloc", memory, 0) /\ ~ null_segment'
    BY <1>3 DEF alloc_throws, alloc_nomem, segments, BankInv
  <2>. QED
    BY <1>1, <1>2, <2>1, AttemptKeeps DEF BankInv, BankTypes
<1>4. CASE alloc_closure(t)
  <2>1. Good(AccountOpened)
    BY <1>2, OpenedIsGood
  <2>2. LastSegment.count \in Nat /\ LastSegment.count >= 1
    <3>1. PICK m : m = memory
      OBVIOUS
    <3>2. Len(m) \in 1 .. Len(m)
      BY <1>2, <3>1, ShapeTotal DEF Good
    <3>3. PICK s : s = m[Len(m)]
      OBVIOUS
    <3>4. s.count \in Nat /\ s.count >= 1
      BY <1>2, <3>1, <3>2, <3>3, GoodSegment
    <3>. QED
      BY <3>1, <3>3, <3>4 DEF LastSegment, Last, segments
  <2>3. Crowded(t) => ~ (LastSegment.count = 1 /\ Len(segments) = 1)
    <3>1. Len(memory) = 1 => Total(memory) = memory[1].count
      BY <1>2, ShapeTotal DEF Good
    <3>. QED
      BY <3>1 DEF Crowded, LastSegment, Last, segments
  <2>4. Crowded(t) /\ (LastSegment.count > 1 \/ Len(segments) = 1) => Good(AccountClosed)
    <3>1. PICK c : c = LastSegment.count
      OBVIOUS
    <3>2. c \in Nat /\ c >= 1
      BY <2>2, <3>1
    <3>3. c = 1 \/ c > 1
      BY <3>2
    <3>. QED
      BY <1>2, <2>3, <3>1, <3>3, ClosedIsGood
  <2>5. Crowded(t) /\ ~ (LastSegment.count > 1 \/ Len(segments) = 1) => Good(SegmentFreed)
    <3>1. PICK c : c = LastSegment.count
      OBVIOUS
    <3>2. c \in Nat /\ c >= 1
      BY <2>2, <3>1
    <3>3. c = 1 \/ c > 1
      BY <3>2
    <3>. QED
      BY <1>2, <3>1, <3>3, FreedIsGood DEF segments
  <2>6. PICK w : /\ Attempted(t, "live", FALSE, "none", w, 1)
                 /\ w = IF ~ Crowded(t) THEN AccountOpened
                        ELSE IF LastSegment.count > 1 \/ Len(segments) = 1 THEN AccountClosed
                        ELSE SegmentFreed
    BY <1>4 DEF alloc_closure, closure_returns
  <2>7. Good(w)
    BY <2>1, <2>4, <2>5, <2>6
  <2>8. ~ null_segment'
    BY <1>4, <2>3 DEF alloc_closure, BankInv
  <2>. QED
    BY <1>1, <1>2, <2>6, <2>7, <2>8, AttemptKeeps DEF BankInv, BankTypes
<1>. QED
  BY <1>3, <1>4

\* What is captured stays a number.
LEMMA WalkedIsNat ==
    ASSUME BankInv, NEW t \in Workers, memory \in Seq(Segs), NEW k \in 0 .. Len(memory),
           WalkedThrough(t, k)
    PROVE  send_id' \in [Workers -> Nat] /\ recv_id' \in [Workers -> Nat]
<1>1. send_id[t] \in Nat /\ recv_id[t] \in Nat
  BY DEF BankInv, BankTypes
<1>2. Left(send_id[t], k) \in Nat /\ Left(recv_id[t], k) \in Nat
  BY <1>1, LeftNat
<1>. QED
  BY <1>2 DEF WalkedThrough, BankInv, BankTypes

LEMMA ShortKeeps ==
    ASSUME TxInv, BankInv, NEW t \in Workers, short_closure(t)
    PROVE  BankInv'
<1>1. UNCHANGED <<pc, count, error, null_segment>>
  BY DEF short_closure, run_vars
<1>2. pc[t] = "short" /\ Good(memory)
  BY DEF short_closure, In, BankInv, Stages
<1>3. memory \in Seq(Segs) /\ Len(memory) \in 0 .. Len(memory)
  BY <1>2, ShapeTotal DEF Good
<1>4. send_id' \in [Workers -> Nat] /\ recv_id' \in [Workers -> Nat]
  BY <1>3, WalkedIsNat DEF short_closure, segments
<1>5. send_id[t] \in Nat /\ recv_id[t] \in Nat
  BY DEF BankInv, BankTypes
<1>6. \E w : \E v \in Nat : Attempted(t, "live", FALSE, "none", w, v) /\ Good(w)
  <2>1. CASE Exists(send_id[t]) /\ Exists(recv_id[t])
    <3>1. Good(Transfer(send_id[t], recv_id[t]))
      BY <1>2, <1>5, <2>1, TransferIsGood
    <3>. QED
      BY <2>1, <3>1 DEF short_closure, closure_returns
  <2>2. CASE ~ (Exists(send_id[t]) /\ Exists(recv_id[t]))
    BY <1>2, <2>2 DEF short_closure, closure_returns, segments
  <2>. QED
    BY <2>1, <2>2
<1>. QED
  BY <1>1, <1>2, <1>4, <1>6, AttemptKeeps DEF BankInv

LEMMA RefusedKeeps ==
    ASSUME TxInv, BankInv, NEW t \in Workers, NEW k \in 0 .. Len(memory), refused(t, k)
    PROVE  BankInv'
<1>1. UNCHANGED <<pc, count, error, null_segment>>
  BY DEF refused, run_vars
<1>2. send_id' \in [Workers -> Nat] /\ recv_id' \in [Workers -> Nat]
  <2>1. CASE pc[t] = "short"
    <3>1. memory \in Seq(Segs)
      BY <2>1, ShapeTotal DEF BankInv, Stages, Good
    <3>. QED
      BY <2>1, <3>1, WalkedIsNat DEF refused
  <2>2. CASE pc[t] # "short"
    BY <2>2 DEF refused, BankInv, BankTypes
  <2>. QED
    BY <2>1, <2>2
<1>3. Attempted(t, "dead", Marked, "retry", Nothing, 0)
  BY DEF refused, operation_refused
<1>. QED
  BY <1>1, <1>2, <1>3, AttemptKeeps DEF BankInv

-----------------------------------------------------------------------------
(* Every step keeps it *)

LEMMA WorkerKeeps ==
    ASSUME TxInv, BankInv, NEW t \in Workers, Worker(t)
    PROVE  BankInv'
<1>1. /\ send_id \in [Workers -> Nat] /\ recv_id \in [Workers -> Nat]
      /\ count \in [Workers -> Nat] /\ value \in [Workers -> Nat] /\ error = {} /\ ~ null_segment
  BY DEF BankInv, BankTypes
<1>2. CASE init(t)
  <2>1. Call(t, "init", IF "init" \in {"check", "long"} THEN "read_only" ELSE "read_write")
    BY <1>2 DEF init
  <2>2. pc[t] = "start" /\ UNCHANGED <<send_id, recv_id, count, error, null_segment>>
    BY <1>2 DEF init, run_vars, args
  <2>. QED
    BY <1>1, <2>1, <2>2, CallKeeps DEF Calling
<1>3. CASE init_check(t)
  <2>1. Call(t, "check", IF "check" \in {"check", "long"} THEN "read_only" ELSE "read_write")
    BY <1>3 DEF init_check
  <2>2. Out(t, "init") /\ UNCHANGED <<send_id, recv_id, count, error, null_segment>>
    BY <1>3 DEF init_check, run_vars, args
  <2>. QED
    BY <1>1, <2>1, <2>2, CallKeeps DEF Calling
<1>4. CASE long_tx(t)
  <2>1. Call(t, "long", IF "long" \in {"check", "long"} THEN "read_only" ELSE "read_write")
    BY <1>4 DEF long_tx
  <2>2. Running(t) /\ UNCHANGED <<send_id, recv_id, count, error, null_segment>>
    BY <1>4 DEF long_tx, run_vars, args
  <2>. QED
    BY <1>1, <2>1, <2>2, CallKeeps DEF Calling
<1>5. CASE \E trig \in Triggers : alloc_tx(t, trig)
  <2>1. Call(t, "alloc", IF "alloc" \in {"check", "long"} THEN "read_only" ELSE "read_write")
    BY <1>5 DEF alloc_tx
  <2>2. Running(t) /\ UNCHANGED <<send_id, recv_id, count, error, null_segment>>
    BY <1>5 DEF alloc_tx, run_vars
  <2>. QED
    BY <1>1, <2>1, <2>2, CallKeeps DEF Calling
<1>6. CASE \E s, r \in Accounts(t) : short_tx(t, s, r)
  <2>1. Call(t, "short", IF "short" \in {"check", "long"} THEN "read_only" ELSE "read_write")
    BY <1>6 DEF short_tx
  <2>2. UNCHANGED <<count, error, null_segment>>
    BY <1>6 DEF short_tx, run_vars
  <2>3. send_id' \in [Workers -> Nat] /\ recv_id' \in [Workers -> Nat]
    <3>1. Accounts(t) \subseteq Nat
      BY <1>1 DEF Accounts
    <3>. QED
      BY <1>1, <1>6, <3>1 DEF short_tx
  <2>4. Running(t) \/ Out(t, "short")
    BY <1>6 DEF short_tx
  <2>. QED
    BY <1>1, <2>1, <2>2, <2>3, <2>4, CallKeeps DEF Calling
<1>7. CASE init_returns(t)
  <2>1. value[t] = 1
    BY <1>7 DEF init_returns, Out, BankInv, Verdicts
  <2>2. pc[t] = "check" /\ leave(t) /\ Goto(t, "run") /\ UNCHANGED <<send_id, recv_id, count, null_segment>>
    BY <1>7 DEF init_returns, Out, run_vars, args
  <2>3. UNCHANGED error
    BY <1>7, <2>1 DEF init_returns
  <2>. QED
    BY <1>1, <2>2, <2>3, LeaveKeeps
<1>8. CASE long_returns(t)
  <2>1. value[t] # 0
    BY <1>8 DEF long_returns, Out, BankInv, Verdicts
  <2>2. pc[t] = "long" /\ leave(t) /\ UNCHANGED <<send_id, recv_id, null_segment, error>>
    BY <1>8, <2>1 DEF long_returns, Out, args, NextTx
  <2>3. count' \in [Workers -> Nat]
    BY <1>1, <1>8, <2>1 DEF long_returns
  <2>4. Goto(t, "run") \/ Goto(t, "done")
    BY <1>8, <2>1 DEF long_returns, NextTx
  <2>. QED
    BY <2>2, <2>3, <2>4, LeaveKeeps DEF Calling
<1>9. CASE alloc_returns(t) \/ short_returns(t)
  <2>1. /\ pc[t] \in Calling /\ leave(t) /\ Goto(t, "run")
        /\ UNCHANGED <<send_id, recv_id, count, null_segment, error>>
    BY <1>9 DEF alloc_returns, short_returns, Out, NextTx, args, Calling
  <2>. QED
    BY <1>1, <2>1, LeaveKeeps
<1>10. CASE \E k \in 0 .. Len(segments) : refused(t, k)
  BY <1>10, RefusedKeeps DEF segments
<1>11. CASE Wrapper(t)
  BY <1>11, CommitKeeps, EndedKeeps DEF Wrapper, destructor
<1>. QED
  BY <1>2, <1>3, <1>4, <1>5, <1>6, <1>7, <1>8, <1>9, <1>10, <1>11,
     InitKeeps, ReadOnlyKeeps, AllocKeeps, ShortKeeps DEF Worker

LEMMA BankInvariance == Spec => []BankInv
<1>1. Init => BankInv
  <2>. SUFFICES ASSUME Init PROVE BankInv
    OBVIOUS
  <2>1. memory = Fresh /\ Fresh # Ready
    BY FreshConsistent DEF Init, Fresh
  <2>2. nbaccounts \in Nat
    BY BankConstantsOk
  <2>3. BankTypes
    BY <2>2 DEF Init, TxInit, BankTypes, Starting, Calling
  <2>. QED
    BY <2>1, <2>3 DEF Init, TxInit, BankInv, Calls, Stages, Attempts, Verdicts, Starting
<1>2. TxInv /\ BankInv /\ [Next]_vars => BankInv'
  <2>1. ASSUME BankInv, UNCHANGED vars PROVE BankInv'
    BY <2>1 DEF vars, tx_vars, transaction, run_vars, args, BankInv, BankTypes, Calls, Stages,
                Attempts, Verdicts
  <2>. QED
    BY <2>1, WorkerKeeps DEF Next
<1>. QED
  BY <1>1, <1>2, TxInvariance, PTL DEF Spec

\* workload.hpp:180, "no money should ever be destroyed or created": for any
\* number of workers, accounts and transactions, what is in the region adds up
\* to init_balance per account, nothing is overdrawn, and no transaction that
\* looks at all accounts, and no check of init, finds otherwise.
THEOREM MoneyStaysConserved == Spec => []MoneyConserved
<1>1. BankInv => MoneyConserved
  BY FreshConsistent DEF BankInv, Stages, MoneyConserved, Good
<1>. QED
  BY <1>1, BankInvariance, PTL

\* workload.hpp:197-207: an account is closed in the last segment and the
\* segment freed with its last account, so all before it are full and an index
\* reaches every account; the first segment is never left without one, and so
\* never freed.
THEOREM ChainStaysFull == Spec => []ChainFull
<1>1. ASSUME BankInv PROVE ChainFull
  <2>1. CASE memory = Fresh
    <3>1. Len(memory) = 1
      BY <2>1 DEF Fresh
    <3>2. \A t \in Workers : pc[t] \in {"start", "init"}
      BY <1>1, <2>1 DEF BankInv, Stages
    <3>. QED
      BY <1>1, <3>1, <3>2 DEF BankInv, ChainFull, segments
  <2>2. CASE memory # Fresh
    <3>1. Good(memory)
      BY <1>1, <2>2 DEF BankInv, Stages
    <3>2. \A k \in 1 .. Len(memory) - 1 : memory[k].count = nbaccounts
      BY <3>1 DEF Good, Shape
    <3>3. Total(memory) # 0
      BY <3>1, ShapeTotal DEF Good
    <3>. QED
      BY <1>1, <3>2, <3>3 DEF BankInv, ChainFull, segments
  <2>. QED
    BY <2>1, <2>2
<1>. QED
  BY <1>1, BankInvariance, PTL
=============================================================================
