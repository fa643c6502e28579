----------------------------- MODULE ExampleLock -----------------------------
(***************************************************************************)
(* sync-examples/lock.c: a pthread mutex and a condition variable.         *)
(***************************************************************************)
CONSTANT NoOne

VARIABLES
    mutex,  \* the thread that has the lock, or NoOne
    asleep  \* threads in pthread_cond_wait that nobody has woken yet

lock_init == mutex = NoOne /\ asleep = {}

\* Blocks until the mutex is free; the next owner is any of the waiting threads.
lock_acquire(t) == mutex = NoOne /\ mutex' = t /\ UNCHANGED asleep

lock_release(t) == mutex = t /\ mutex' = NoOne /\ UNCHANGED asleep

\* The mutex is given back and the thread sleeps, in one step; it acquires the
\* mutex again when it wakes up.
lock_wait(t) == mutex = t /\ mutex' = NoOne /\ asleep' = asleep \cup {t}

\* A broadcast wakes those who sleep now, and nobody who sleeps later.
lock_wake_up == asleep' = {} /\ UNCHANGED mutex
=============================================================================
