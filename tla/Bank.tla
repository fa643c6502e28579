--------------------------------- MODULE Bank ---------------------------------
(***************************************************************************)
(* The bank of grading/workload.hpp: accounts in a chain of segments,      *)
(* transfers, and a transaction that opens or closes accounts at the end   *)
(* of the chain.  Every transaction is a closure that module Transactional *)
(* runs, and runs again, with the variables it captured as the attempt     *)
(* before left them.                                                       *)
(***************************************************************************)
EXTENDS Transactional, SequencesExt

CONSTANTS
    nbaccounts,    \* initial accounts, and accounts per segment
    init_balance,
    nbtxperwrk,
    Triggers       \* the random triggers of alloc_tx

ASSUME BankConstantsOk ==
    /\ nbaccounts \in Nat \ {0} /\ init_balance \in Nat \ {0}
    /\ nbtxperwrk \in Nat /\ Triggers \subseteq Nat

VARIABLES
    pc,               \* the transaction a worker is in, or "run" or "done"
    cntr, count,      \* locals of run: transactions done, accounts seen
    trigger,          \* argument of alloc_tx
    send_id, recv_id, \* captured by the closure of short_tx
    asked,            \* history: the accounts short_tx was called with
    error,            \* workers that reported a violation
    null_segment      \* alloc_tx followed a null pointer

run_vars == <<cntr, count>>
args == <<trigger, send_id, recv_id, asked>>
vars == <<tx_vars, pc, run_vars, args, error, null_segment>>

\* The chain of AccountSegment is what the memory holds.
segments == memory

\* A segment with n accounts of init_balance; the others hold zero.
Segment(n) == [count |-> n, parity |-> 0,
               accounts |-> [i \in 0 .. nbaccounts - 1 |-> IF i < n THEN init_balance ELSE 0]]

\* f[1] + ... + f[n].
SumTo(f, n) ==
    LET sum[k \in 0 .. n] == IF k = 0 THEN 0 ELSE sum[k - 1] + f[k] IN sum[n]

\* The accounts in the segments before the k-th one of chain m, and in all.
Before(m, k) == SumTo([j \in 1 .. Len(m) |-> m[j].count], k - 1)

Total(m) == Before(m, Len(m) + 1)

Balances(s) == SumTo([i \in 1 .. nbaccounts |-> s.accounts[i - 1]], s.count)

Sum(m) == SumTo([k \in 1 .. Len(m) |-> m[k].parity + Balances(m[k])], Len(m))

Init ==
    /\ memory = <<Segment(0)>> /\ TxInit
    /\ pc = [t \in Workers |-> "start"]
    /\ cntr = [t \in Workers |-> 0]
    /\ count = [t \in Workers |-> nbaccounts]
    /\ trigger = [t \in Workers |-> 0]
    /\ send_id = [t \in Workers |-> 0] /\ recv_id = [t \in Workers |-> 0]
    /\ asked = [t \in Workers |-> <<0, 0>>]
    /\ error = {} /\ null_segment = FALSE

Goto(t, l) == pc' = [pc EXCEPT ![t] = l]

\* A worker calls transactional.
Call(t, l, m) == Goto(t, l) /\ transactional(t, m)

\* It is in the closure of that transaction, or has its value.
In(t, l) == pc[t] = l /\ at[t] = "attempt"
Out(t, l) == pc[t] = l /\ at[t] = "returned"

\* A closure that neither follows null nor has captured anything.
Pure(t, writes, v) ==
    /\ closure_returns(t, writes, v)
    /\ UNCHANGED <<pc, run_vars, args, error, null_segment>>

-----------------------------------------------------------------------------
(* init, by every worker. *)

Initialised == [segments EXCEPT ![1].count = nbaccounts,
                                ![1].accounts = Segment(nbaccounts).accounts]

init(t) ==
    /\ pc[t] = "start"
    /\ Call(t, "init", "read_write")
    /\ UNCHANGED <<run_vars, args, error, null_segment>>

init_closure(t) == In(t, "init") /\ Pure(t, Initialised, 0)

init_check(t) ==
    /\ Out(t, "init")
    /\ Call(t, "check", "read_only")
    /\ UNCHANGED <<run_vars, args, error, null_segment>>

check_closure(t) ==
    /\ In(t, "check")
    /\ Pure(t, Nothing, IF segments[1].accounts[0] = init_balance THEN 1 ELSE 0)

init_returns(t) ==
    /\ Out(t, "check") /\ leave(t)
    /\ error' = error \cup (IF value[t] = 1 THEN {} ELSE {t})
    /\ Goto(t, "run")
    /\ UNCHANGED <<run_vars, args, null_segment>>

-----------------------------------------------------------------------------
(* run: random transactions, then a last long one. *)

\* Workers run when all have initialised (module GradingSync).
Running(t) ==
    /\ pc[t] = "run"
    /\ \A u \in Workers : pc[u] \notin {"start", "init", "check"}

More(t) == cntr[t] < nbtxperwrk

NextTx(t) == Goto(t, "run") /\ leave(t) /\ cntr' = [cntr EXCEPT ![t] = @ + 1]

\* What long_tx computes: no account is overdrawn, no money appeared or went.
Consistent(m) ==
    /\ \A k \in 1 .. Len(m) : \A i \in 0 .. m[k].count - 1 : m[k].accounts[i] >= 0
    /\ Sum(m) = init_balance * Total(m)

\* At any time, and as the last transaction.
long_tx(t) ==
    /\ Running(t)
    /\ Call(t, "long", "read_only")
    /\ UNCHANGED <<run_vars, args, error, null_segment>>

\* Zero stands for false: there is always an account.
long_closure(t) == In(t, "long") /\ Pure(t, Nothing, IF Consistent(segments) THEN Total(segments) ELSE 0)

long_returns(t) ==
    /\ Out(t, "long")
    /\ IF value[t] # 0
       THEN /\ count' = [count EXCEPT ![t] = value[t]] /\ UNCHANGED error
            /\ IF More(t) THEN NextTx(t)
               ELSE Goto(t, "done") /\ leave(t) /\ UNCHANGED cntr
       ELSE error' = error \cup {t} /\ Goto(t, "done") /\ leave(t) /\ UNCHANGED run_vars
    /\ UNCHANGED <<args, null_segment>>

alloc_tx(t, trig) ==
    /\ Running(t) /\ More(t)
    /\ Call(t, "alloc", "read_write")
    /\ trigger' = [trigger EXCEPT ![t] = trig]
    /\ UNCHANGED <<run_vars, send_id, recv_id, asked, error, null_segment>>

LastSegment == Last(segments)

\* Mutant of Crowded: the last accounts are closed, too.
Crowded_Always(t) == Total(segments) > trigger[t]

Crowded(t) == Total(segments) > trigger[t] /\ Total(segments) > 2

\* The parity after the last account is closed.
new_parity == LastSegment.parity + LastSegment.accounts[LastSegment.count - 1] - init_balance

\* The last account is closed; its segment stays ...
AccountClosed ==
    [segments EXCEPT ![Len(segments)].count = @ - 1, ![Len(segments)].parity = new_parity]

\* Mutant of Inherited: the parity of the freed segment is lost.
Inherited_Not(parity) == parity

Inherited(parity) == parity + new_parity

\* ... or is freed, and the one before it becomes the last.
SegmentFreed ==
    [Front(segments) EXCEPT ![Len(segments) - 1].parity = Inherited(@)]

Full == LastSegment.count = nbaccounts

\* An account is opened, in a new segment if the last one is full.
AccountOpened ==
    IF Full THEN Append(segments, Segment(1))
    ELSE [segments EXCEPT ![Len(segments)].accounts[LastSegment.count] = init_balance,
                          ![Len(segments)].count = @ + 1]

alloc_closure(t) ==
    /\ In(t, "alloc")
    /\ closure_returns(t, IF ~ Crowded(t) THEN AccountOpened
                          ELSE IF LastSegment.count > 1 \/ Len(segments) = 1 THEN AccountClosed
                          ELSE SegmentFreed, 1)
    /\ null_segment' = (null_segment \/
                          (Crowded(t) /\ LastSegment.count = 1 /\ Len(segments) = 1))
    /\ UNCHANGED <<pc, run_vars, args, error>>

\* The allocation comes before the first write.
alloc_throws(t) ==
    /\ In(t, "alloc") /\ ~ Crowded(t) /\ Full
    /\ alloc_nomem(t, segments)
    /\ UNCHANGED <<pc, run_vars, args, error, null_segment>>

alloc_returns(t) ==
    /\ Out(t, "alloc") /\ NextTx(t)
    /\ UNCHANGED <<count, args, error, null_segment>>

\* Two accounts among those the worker saw last are drawn.
short_tx(t, s, r) ==
    /\ (Running(t) /\ More(t)) \/ (Out(t, "short") /\ value[t] = 0)
    /\ Call(t, "short", "read_write")
    /\ send_id' = [send_id EXCEPT ![t] = s]
    /\ recv_id' = [recv_id EXCEPT ![t] = r]
    /\ asked' = [asked EXCEPT ![t] = <<s, r>>]
    /\ UNCHANGED <<run_vars, trigger, error, null_segment>>

\* The segment of an account, or one past the last segment.
Found(id) == CHOOSE k \in 1 .. Len(segments) + 1 :
    /\ Before(segments, k) <= id
    /\ k <= Len(segments) => id < Before(segments, k) + segments[k].count

Exists(id) == Found(id) <= Len(segments)

\* The balance of an account, and the segments after it is set.
Balance(segs, id) == segs[Found(id)].accounts[id - Before(segments, Found(id))]
Set(segs, id, b) == [segs EXCEPT ![Found(id)].accounts[id - Before(segments, Found(id))] = b]

Enough(val) == val > 0

\* recver = recver.read() + 1, after the sender has paid
Received(paid, r) == Set(paid, r, Balance(paid, r) + 1)

Transfer(s, r) ==
    LET send_val == Balance(segments, s)
    IN IF Enough(send_val) THEN Received(Set(segments, s, send_val - 1), r) ELSE segments

\* What is left of an index when k segments have been walked through: it is
\* decreased in place until its segment is found.
Left(id, k) == id - Before(segments, IF Found(id) <= k THEN Found(id) ELSE k + 1)

WalkedThrough(t, k) ==
    /\ send_id' = [send_id EXCEPT ![t] = Left(@, k)]
    /\ recv_id' = [recv_id EXCEPT ![t] = Left(@, k)]

\* Both accounts exist and the money is moved, or false is returned.
short_closure(t) ==
    /\ In(t, "short")
    /\ IF Exists(send_id[t]) /\ Exists(recv_id[t])
       THEN closure_returns(t, Transfer(send_id[t], recv_id[t]), 1)
       ELSE closure_returns(t, segments, 0)
    /\ WalkedThrough(t, Len(segments))
    /\ UNCHANGED <<pc, run_vars, trigger, asked, error, null_segment>>

\* False makes run draw two others (short_tx).
short_returns(t) ==
    /\ Out(t, "short") /\ value[t] = 1 /\ NextTx(t)
    /\ UNCHANGED <<count, args, error, null_segment>>

-----------------------------------------------------------------------------

\* An operation of the closure is refused, after k segments.
refused(t, k) ==
    /\ operation_refused(t)
    /\ IF pc[t] = "short" THEN WalkedThrough(t, k)
       ELSE k = 0 /\ UNCHANGED <<send_id, recv_id>>
    /\ UNCHANGED <<pc, run_vars, trigger, asked, error, null_segment>>

\* The rest of the wrapper.  An exception that leaves it ends the worker's run.
Wrapper(t) ==
    /\ destructor(t) \/ begin_fails(t)
    /\ UNCHANGED <<pc, run_vars, args, error, null_segment>>

Accounts(t) == 0 .. count[t] - 1

Finished == terminated \/ \A t \in Workers : (pc[t] = "done" \/ at[t] = "threw")

Worker(t) ==
    \/ init(t) \/ init_closure(t) \/ init_check(t) \/ check_closure(t) \/ init_returns(t)
    \/ long_tx(t) \/ long_closure(t) \/ long_returns(t)
    \/ \E trig \in Triggers : alloc_tx(t, trig)
    \/ alloc_closure(t) \/ alloc_throws(t) \/ alloc_returns(t)
    \/ \E s, r \in Accounts(t) : short_tx(t, s, r)
    \/ short_closure(t) \/ short_returns(t)
    \/ \E k \in 0 .. Len(segments) : refused(t, k)
    \/ Wrapper(t)

\* Workers wait for one that threw before it had initialised, and measure gives
\* up (module GradingSync).
Waiting == \E t \in Workers : at[t] = "threw" /\ pc[t] \in {"init", "check"}

Next ==
    \/ ~ terminated /\ \E t \in Workers : Worker(t)
    \/ (Finished \/ Waiting) /\ UNCHANGED vars

Spec == Init /\ [][Next]_vars

-----------------------------------------------------------------------------
(* What the bank promises. *)

\* workload.hpp:180: "no money should ever be destroyed or created": every
\* transaction keeps the balances and parities at init_balance per account and
\* overdraws none, also when a segment with money on it is freed, an account
\* pays itself, a closure runs again with what it captured, or an attempt is
\* committed that ran out of memory; and no long transaction says otherwise.
MoneyConserved == Consistent(memory) /\ error = {}

\* Indices reach every account and the first segment stays: all segments but
\* the last are full, the last has an account, and no transaction looks for a
\* segment before the first.
ChainFull ==
    /\ ~ null_segment
    /\ \A k \in 1 .. Len(segments) - 1 : segments[k].count = nbaccounts
    /\ Total(memory) = 0 => \A t \in Workers : pc[t] \in {"start", "init"}

\* workload.hpp:227-229: a transfer is between the accounts with the indices
\* short_tx was given.  Not so after a refusal: the next attempt starts from
\* what is left of them.
TransfersAsAsked ==
    \A t \in Workers : In(t, "short") => <<send_id[t], recv_id[t]>> = asked[t]
=============================================================================
