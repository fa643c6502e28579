---------------------------- MODULE Transactional ----------------------------
(***************************************************************************)
(* class Transaction and function transactional of                         *)
(* grading/transactional.hpp: a closure runs in a transaction of the       *)
(* library, the destructor of Transaction ends it, and transactional       *)
(* repeats this until it commits or an exception other than a retry leaves *)
(* it.  The library is a correct one that may refuse any operation and any *)
(* end: it commits an attempt as a whole, if what the attempt has read is  *)
(* still current.  Module Bank has the closures.                           *)
(***************************************************************************)
EXTENDS Integers

CONSTANTS
    Workers,
    Faults     \* what may go wrong: a subset of {"refusal", "nomem", "begin"}

VARIABLES
    memory,    \* the content of the region
    mode,      \* of the current call of transactional
    at,        \* where the call is: "idle", "attempt", "destructor", "returned", "threw"
    handle,    \* the library's transaction: "none", "live", "dead"
    aborted,   \* of Transaction
    exception, \* in flight in the destructor, or left the call
    pending,   \* the memory with the attempt's writes
    stale,     \* somebody has committed since
    value,     \* what the closure returned
    commits,   \* history: ends that committed, in this call
    terminated \* an exception was thrown during another: std::terminate

transaction == <<handle, aborted, exception, pending, stale, value>>
tx_vars == <<memory, mode, at, transaction, commits, terminated>>

Nothing == <<>>

TxInit ==
    /\ mode = [t \in Workers |-> "read_write"]
    /\ at = [t \in Workers |-> "idle"]
    /\ handle = [t \in Workers |-> "none"]
    /\ aborted = [t \in Workers |-> FALSE]
    /\ exception = [t \in Workers |-> "none"]
    /\ pending = [t \in Workers |-> Nothing]
    /\ stale = [t \in Workers |-> FALSE]
    /\ value = [t \in Workers |-> 0]
    /\ commits = [t \in Workers |-> 0]
    /\ terminated = FALSE

\* transactional(tm, m, closure)
transactional(t, m) ==
    /\ at[t] \in {"idle", "returned"}
    /\ at' = [at EXCEPT ![t] = "attempt"]
    /\ mode' = [mode EXCEPT ![t] = m]
    /\ commits' = [commits EXCEPT ![t] = 0]
    /\ UNCHANGED <<memory, transaction, terminated>>

\* The caller has its value and goes on.
leave(t) ==
    /\ at[t] = "returned"
    /\ at' = [at EXCEPT ![t] = "idle"]
    /\ commits' = [commits EXCEPT ![t] = 0]
    /\ UNCHANGED <<memory, mode, transaction, terminated>>

-----------------------------------------------------------------------------
(* The constructor and the closure. *)

\* Where they lead: the library's transaction, the flag, the exception.
Attempted(t, h, a, e, writes, v) ==
    /\ at[t] = "attempt"
    /\ at' = [at EXCEPT ![t] = "destructor"]
    /\ handle' = [handle EXCEPT ![t] = h]
    /\ aborted' = [aborted EXCEPT ![t] = a]
    /\ exception' = [exception EXCEPT ![t] = e]
    /\ pending' = [pending EXCEPT ![t] = writes]
    /\ value' = [value EXCEPT ![t] = v]
    /\ UNCHANGED <<memory, mode, stale, commits, terminated>>

\* The closure runs to its end.
closure_returns(t, writes, v) == Attempted(t, "live", FALSE, "none", writes, v)

Marked == TRUE

\* An operation is refused: the library has ended the transaction.
operation_refused(t) ==
    /\ "refusal" \in Faults
    /\ Attempted(t, "dead", Marked, "retry", Nothing, 0)

\* tm_alloc finds no memory: an exception, but the transaction is still there,
\* with the writes done so far.
alloc_nomem(t, writes) ==
    /\ "nomem" \in Faults
    /\ Attempted(t, "live", FALSE, "alloc", writes, 0)

\* tm_begin fails in the constructor: there is nothing to destroy.
begin_fails(t) ==
    /\ "begin" \in Faults /\ at[t] = "attempt"
    /\ at' = [at EXCEPT ![t] = "threw"]
    /\ exception' = [exception EXCEPT ![t] = "begin"]
    /\ UNCHANGED <<memory, mode, handle, aborted, pending, stale, value, commits, terminated>>

-----------------------------------------------------------------------------
(* The destructor, and the loop of transactional. *)

ReadOnly(t) == mode[t] = "read_only"

Destroyed(t, next) ==
    /\ at' = [at EXCEPT ![t] = next]
    /\ handle' = [handle EXCEPT ![t] = "none"]
    /\ aborted' = [aborted EXCEPT ![t] = FALSE]

\* tm_end is called.
Ending(t) == at[t] = "destructor" /\ ~ aborted[t]

\* Those who have read what a commit changed can only be refused.
Overtaken(t) == {u \in Workers \ {t} : handle[u] = "live" /\ ~ ReadOnly(u)}

\* It commits.  An exception that is in flight goes on.
end_commits(t) ==
    /\ Ending(t) /\ ~ stale[t]
    /\ memory' = IF ReadOnly(t) THEN memory ELSE pending[t]
    /\ stale' = [u \in Workers |-> stale[u] \/ (memory' # memory /\ u \in Overtaken(t))]
    /\ pending' = [u \in Workers |->
                      IF u = t \/ stale'[u] THEN Nothing ELSE pending[u]]
    /\ commits' = [commits EXCEPT ![t] = @ + 1]
    /\ Destroyed(t, IF exception[t] = "none" THEN "returned" ELSE "threw")
    /\ UNCHANGED <<mode, exception, value, terminated>>

\* Mutant of AfterRefusal: the result of tm_end is ignored.
AfterRefusal_Returned == "returned"

AfterRefusal == "attempt"

\* It refuses: a retry is thrown, which terminates the program if another
\* exception is in flight.
end_refused(t) ==
    /\ Ending(t) /\ (stale[t] \/ "refusal" \in Faults)
    /\ Destroyed(t, IF exception[t] = "none" THEN AfterRefusal ELSE "threw")
    /\ terminated' = (exception[t] # "none")
    /\ pending' = [pending EXCEPT ![t] = Nothing]
    /\ stale' = [stale EXCEPT ![t] = FALSE]
    /\ UNCHANGED <<memory, mode, exception, value, commits>>

\* It is not called for an aborted transaction; the retry goes on to the loop.
end_skipped(t) ==
    /\ at[t] = "destructor" /\ aborted[t]
    /\ Destroyed(t, "attempt")
    /\ exception' = [exception EXCEPT ![t] = "none"]
    /\ UNCHANGED <<memory, mode, pending, stale, value, commits, terminated>>

destructor(t) == end_commits(t) \/ end_refused(t) \/ end_skipped(t)

-----------------------------------------------------------------------------
(* What the wrapper promises. *)

\* However refusals, retries and exceptions are mixed, the library ends every
\* transaction once: itself, when it refuses an operation, or in tm_end.  A
\* call that returns has committed exactly once, and one that a failed
\* tm_begin ended not at all; only an allocation that fails commits what came
\* before it and then throws.
CommittedOnce ==
    \A t \in Workers :
        /\ at[t] = "attempt" => commits[t] = 0
        /\ at[t] = "returned" => commits[t] = 1 /\ exception[t] = "none"
        /\ (at[t] = "threw" /\ ~ terminated) =>
              commits[t] = IF exception[t] = "alloc" THEN 1 ELSE 0
        /\ IF at[t] = "destructor" THEN handle[t] = "live" <=> ~ aborted[t]
           ELSE handle[t] = "none"

\* transactional.hpp:292, "noexcept(false)": the destructor may throw.  Not
\* while an exception is in flight: then the program is terminated.
NoTerminateUnwinding == ~ terminated
=============================================================================
