------------------------------ MODULE BoundedRun ------------------------------
(***************************************************************************)
(* bounded_run of grading/common.hpp: a runner thread executes a function, *)
(* the caller waits on a condition variable for at most some duration.     *)
(* Module Grader says who calls it and with what.                          *)
(***************************************************************************)
EXTENDS Naturals

VARIABLES
    mutex,          \* who holds the local mutex `lock': "free", "caller", "runner"
    caller, runner, \* where the caller and the runner of the last call are
    overtime,       \* the duration of the wait has elapsed
    eptr,           \* an exception was captured
    result,         \* of the call: "none", "returned", "rethrown", "overrun",
                    \* "unstarted"
    outcome,        \* history: what func did: "running", "ok", "threw"
    stray,          \* the function of an earlier call, detached, still runs
    spurious        \* history: the caller woke up without a reason

locals == <<mutex, overtime, eptr>>
bounded == <<locals, caller, runner, result, outcome, stray, spurious>>

BoundedInit ==
    /\ mutex = "free" /\ caller = "out" /\ runner = "unborn"
    /\ overtime = FALSE /\ eptr = FALSE
    /\ result = "none" /\ outcome = "running"
    /\ stray = FALSE /\ spurious = FALSE

-----------------------------------------------------------------------------
(* The caller. *)

\* A call, with locals of its own.
bounded_run ==
    /\ caller = "out"
    /\ caller' = "lock" /\ runner' = "unborn"
    /\ mutex' = "free" /\ overtime' = FALSE /\ eptr' = FALSE
    /\ result' = "none" /\ outcome' = "running"
    /\ stray' = (stray \/ runner = "func")
    /\ UNCHANGED spurious

\* Mutant of Guarded: the runner is started before the mutex is taken.
Guarded_Late == "free"

\* Who holds the mutex when the runner starts.
Guarded == "caller"

guard ==
    /\ caller = "lock" /\ mutex = "free"
    /\ mutex' = Guarded
    /\ caller' = "spawn"
    /\ UNCHANGED <<runner, overtime, eptr, result, outcome, stray, spurious>>

spawn ==
    /\ caller = "spawn"
    /\ runner' = "func"
    /\ caller' = "wait"
    /\ UNCHANGED <<locals, result, outcome, stray, spurious>>

\* The constructor of std::thread throws: there is no runner, the exception
\* leaves bounded_run.
spawn_fails ==
    /\ caller = "spawn"
    /\ mutex' = "free"
    /\ result' = "unstarted" /\ caller' = "out"
    /\ UNCHANGED <<runner, overtime, eptr, outcome, stray, spurious>>

\* cv.wait_for gives the mutex back and sleeps.
wait_for ==
    /\ caller = "wait" /\ mutex # "runner"
    /\ mutex' = "free"
    /\ caller' = "asleep"
    /\ UNCHANGED <<runner, overtime, eptr, result, outcome, stray, spurious>>

\* Mutant of Overdue: cv.wait instead of cv.wait_for.
Overdue_Never == FALSE

Overdue == caller \in {"asleep", "relock"}

\* The duration elapses; a sleeping caller wakes up.
elapse ==
    /\ Overdue /\ ~ overtime
    /\ overtime' = TRUE
    /\ caller' = "relock"
    /\ UNCHANGED <<mutex, runner, eptr, result, outcome, stray, spurious>>

\* A condition variable may wake up on its own; there is no predicate.
spurious_wakeup ==
    /\ caller = "asleep"
    /\ caller' = "relock" /\ spurious' = TRUE
    /\ UNCHANGED <<locals, runner, result, outcome, stray>>

\* The status wait_for returns compares the clock with the deadline.
AfterWait == IF overtime THEN "detach" ELSE "join"

\* wait_for takes the mutex again before it returns.
relock ==
    /\ caller = "relock" /\ mutex = "free"
    /\ mutex' = "caller"
    /\ caller' = AfterWait
    /\ UNCHANGED <<runner, overtime, eptr, result, outcome, stray, spurious>>

\* runner.detach and the exception: nobody looks at this runner any more.
detach ==
    /\ caller = "detach"
    /\ mutex' = "free"
    /\ result' = "overrun" /\ caller' = "out"
    /\ UNCHANGED <<runner, overtime, eptr, outcome, stray, spurious>>

\* runner.join, with the mutex still held; then the exception goes on.
join ==
    /\ caller = "join" /\ runner = "ended"
    /\ mutex' = "free"
    /\ result' = IF eptr THEN "rethrown" ELSE "returned"
    /\ caller' = "out"
    /\ UNCHANGED <<runner, overtime, eptr, outcome, stray, spurious>>

-----------------------------------------------------------------------------
(* The runner. *)

func_returns ==
    /\ runner = "func"
    /\ outcome' = "ok"
    /\ runner' = "lock"
    /\ UNCHANGED <<locals, caller, result, stray, spurious>>

func_throws ==
    /\ runner = "func"
    /\ outcome' = "threw" /\ eptr' = TRUE
    /\ runner' = "lock"
    /\ UNCHANGED <<mutex, caller, overtime, result, stray, spurious>>

runner_lock ==
    /\ runner = "lock" /\ mutex = "free"
    /\ mutex' = "runner"
    /\ runner' = "notify"
    /\ UNCHANGED <<caller, overtime, eptr, result, outcome, stray, spurious>>

\* cv.notify_all wakes the caller if it sleeps, and is lost otherwise.
notify_all ==
    /\ runner = "notify"
    /\ caller' = IF caller = "asleep" THEN "relock" ELSE caller
    /\ runner' = "unlock"
    /\ UNCHANGED <<locals, result, outcome, stray, spurious>>

runner_unlock ==
    /\ runner = "unlock"
    /\ mutex' = "free"
    /\ runner' = "ended"
    /\ UNCHANGED <<caller, overtime, eptr, result, outcome, stray, spurious>>

\* A function detached before the last call ends.
stray_ends ==
    /\ stray
    /\ stray' = FALSE
    /\ UNCHANGED <<locals, caller, runner, result, outcome, spurious>>

-----------------------------------------------------------------------------

\* The steps of a call that make progress: threads run and time passes.
Waiting == guard \/ spawn \/ wait_for \/ elapse \/ relock \/ detach \/ join

Runner == runner_lock \/ notify_all \/ runner_unlock

\* The function may return, throw, or take for ever.
Function == func_returns \/ func_throws

-----------------------------------------------------------------------------
(* What bounded_run promises. *)

\* The caller learns what the function did, also when the exception, the end
\* of the duration and a spurious wake-up race; a call that overran had its
\* full duration: the notification is not lost before the caller sleeps; and
\* one whose thread was not created has run nothing.
ResultFaithful ==
    /\ result = "returned" => outcome = "ok" /\ runner = "ended"
    /\ result = "rethrown" => outcome = "threw" /\ runner = "ended"
    /\ result = "overrun" => overtime
    /\ result = "unstarted" => outcome = "running" /\ runner = "unborn"
    /\ caller = "asleep" => runner \in {"func", "lock", "notify"}

\* The locals of a call are used while it lasts.  Not so: after an overrun the
\* detached runner still captures its exception and notifies.
LocalsOutlived == result = "overrun" => runner \in {"func", "ended"}
=============================================================================
