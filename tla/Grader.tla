-------------------------------- MODULE Grader --------------------------------
(***************************************************************************)
(* main of grading/grading.cpp: for each library, load it, create the      *)
(* bank's region under bounded_run (module BoundedRun), measure            *)
(* (module GradingSync), look for shortcuts in the last one, destroy the   *)
(* region under bounded_run and unload the library.  How each step fails,  *)
(* and what is still running then, decides what may be torn down.          *)
(***************************************************************************)
EXTENDS GradingSync, BoundedRun

CONSTANTS
    Libraries,  \* how many; the first is the reference
    Checks      \* calls of bounded_run in check_shortcuts

ASSUME GraderConstantsOk == Libraries \in Nat \ {0} /\ Checks \in Nat \ {0}

VARIABLES
    stage,      \* where main is
    lib,        \* the library of this turn of the loop
    checks,     \* shortcut checks begun
    loaded,     \* the library is in the address space
    region,     \* the bank's region exists
    code,       \* the exit code of the process, once main has decided
    blame       \* history: what has gone wrong so far

\* Not an exit code; and the one of a process that called std::terminate.
Undecided == 256
Terminated == 134

main == <<stage, lib, checks, loaded, region, code, blame>>
vars == <<measuring, bounded, main>>

Init ==
    /\ MeasureInit /\ BoundedInit
    /\ stage = "load" /\ lib = 1 /\ checks = 0
    /\ loaded = FALSE /\ region = FALSE
    /\ code = Undecided /\ blame = {}

Blame(what) == blame' = blame \cup {what}

\* The destructors of the bank, then of the library, run when main leaves the
\* block with return code c, or goes on with the next library.
Leave(c) == stage' = "destroy" /\ code' = c /\ bounded_run

-----------------------------------------------------------------------------
(* main. *)

load ==
    /\ stage = "load"
    /\ loaded' = TRUE /\ stage' = "create" /\ bounded_run
    /\ UNCHANGED <<measuring, lib, checks, region, code, blame>>

load_fails ==
    /\ stage = "load"
    /\ stage' = "exit" /\ code' = 1 /\ Blame("load")
    /\ UNCHANGED <<measuring, bounded, lib, checks, loaded, region>>

\* The constructor of TransactionalMemory is done.  A time limit is known once
\* the reference has been measured.
created ==
    /\ stage = "create" /\ result = "returned"
    /\ region' = TRUE /\ stage' = "measure" /\ measure(lib > 1)
    /\ UNCHANGED <<bounded, lib, checks, loaded, code, blame>>

\* It has thrown: only the library is left to clean up.
create_threw ==
    /\ stage = "create" /\ result \in {"rethrown", "overrun", "unstarted"}
    /\ stage' = "unload" /\ code' = 1
    /\ UNCHANGED <<measuring, bounded, lib, checks, loaded, region, blame>>

\* Mutant of Accepted: the error that measure returns is overlooked.
Accepted_Always == TRUE

Accepted == verdict = "ok"

measured ==
    /\ stage = "measure" /\ mpc = "returned"
    /\ IF ~ Accepted THEN Leave(1) /\ UNCHANGED checks
       ELSE IF lib < Libraries THEN Leave(code) /\ UNCHANGED checks
       ELSE /\ stage' = "shortcuts" /\ checks' = 1 /\ bounded_run
            /\ UNCHANGED code
    /\ UNCHANGED <<measuring, lib, loaded, region, blame>>

\* Mutant of AfterException: main returns and thereby cleans up.
AfterException_Return == "unload"

AfterException == "exit"

\* measure has thrown: quick_exit.
measure_threw ==
    /\ stage = "measure" /\ mpc = "threw"
    /\ stage' = AfterException /\ code' = 2
    /\ UNCHANGED <<measuring, bounded, lib, checks, loaded, region, blame>>

\* check_shortcuts: the next call of bounded_run, or true, or, after any
\* exception, false.
checked ==
    /\ stage = "shortcuts" /\ result # "none"
    /\ IF result = "returned" /\ checks < Checks
       THEN checks' = checks + 1 /\ bounded_run /\ UNCHANGED <<stage, code>>
       ELSE /\ Leave(IF result = "returned" THEN code ELSE 1)
            /\ UNCHANGED checks
    /\ UNCHANGED <<measuring, lib, loaded, region, blame>>

\* The destructor of TransactionalMemory: noexcept, so an exception of its
\* bounded_run terminates the program.
destroyed ==
    /\ stage = "destroy" /\ result # "none"
    /\ IF result = "returned"
       THEN region' = FALSE /\ stage' = "unload" /\ UNCHANGED code
       ELSE stage' = "exit" /\ code' = Terminated /\ UNCHANGED region
    /\ UNCHANGED <<measuring, bounded, lib, checks, loaded, blame>>

unload ==
    /\ stage = "unload"
    /\ loaded' = FALSE /\ stage' = "next"
    /\ UNCHANGED <<measuring, bounded, lib, checks, region, code, blame>>

next_library ==
    /\ stage = "next"
    /\ IF code = Undecided /\ lib < Libraries
       THEN stage' = "load" /\ lib' = lib + 1 /\ UNCHANGED code
       ELSE /\ stage' = "exit" /\ code' = IF code = Undecided THEN 0 ELSE code
            /\ UNCHANGED lib
    /\ UNCHANGED <<measuring, bounded, checks, loaded, region, blame>>

Main == load \/ created \/ create_threw \/ measured \/ measure_threw
        \/ checked \/ destroyed \/ unload \/ next_library

-----------------------------------------------------------------------------
(* The steps of measure and of bounded_run. *)

\* Something goes wrong in the step.
Noting(failing, what) == IF failing THEN Blame(what) ELSE UNCHANGED blame

outside == <<stage, lib, checks, loaded, region, code>>

MasterStep == stage = "measure" /\ Master /\ UNCHANGED <<bounded, main>>

OverrunStep ==
    /\ stage = "measure" /\ latch_overtime
    /\ Blame("overtime")
    /\ UNCHANGED <<bounded, outside>>

CreateFails ==
    /\ stage = "measure" /\ create_fails
    /\ Blame("threads")
    /\ UNCHANGED <<bounded, outside>>

WorkerStep(w) ==
    /\ stage # "exit" /\ Worker(w)
    /\ Noting(failed' # failed, "job")
    /\ UNCHANGED <<bounded, outside>>

CallFails == result' \in {"overrun", "unstarted"}

CallStep ==
    /\ stage # "exit" /\ (Waiting \/ spawn_fails \/ spurious_wakeup)
    /\ Noting(CallFails, IF stage = "destroy" THEN "destructor" ELSE result')
    /\ UNCHANGED <<measuring, outside>>

RunnerStep == stage # "exit" /\ Runner /\ UNCHANGED <<measuring, main>>

\* tm_destroy does not throw.
FunctionStep ==
    /\ stage # "exit" /\ (func_returns \/ func_throws \/ stray_ends)
    /\ stage = "destroy" => outcome' # "threw"
    /\ Noting(outcome' = "threw", "func")
    /\ UNCHANGED <<measuring, outside>>

\* std::terminate, which no handler of main sees.
Terminate(why) ==
    /\ stage' = "exit" /\ code' = Terminated /\ Blame(why)
    /\ UNCHANGED <<measuring, bounded, lib, checks, loaded, region>>

\* A job that an exception leaves ends its transaction while the stack is
\* unwound; when tm_end refuses, Retry is thrown from a destructor.
job_terminates ==
    /\ stage # "exit"
    /\ \E w \in Workers : At(w, "job") /\ job[w] <= Phases
    /\ Terminate("unwinding")

\* The shortcut checks use transactions too, and regions of their own, with
\* the same destructor; a check that overran goes on, detached.
check_terminates ==
    /\ stage # "exit"
    /\ (stage = "shortcuts" /\ runner = "func") \/ (stray /\ checks > 0)
    /\ Terminate("unwinding") \/ Terminate("destructor")

\* After a spurious wake-up: the caller joins with the mutex held.
Hung == caller = "join" /\ mutex = "caller" /\ runner = "lock"

Idle == stage = "exit" \/ Spinning \/ Hung

Next ==
    \/ Main \/ load_fails
    \/ MasterStep \/ OverrunStep \/ CreateFails
    \/ \E w \in Workers : WorkerStep(w)
    \/ CallStep \/ RunnerStep \/ FunctionStep
    \/ job_terminates \/ check_terminates
    \/ Idle /\ UNCHANGED vars

Spec == Init /\ [][Next]_vars

\* An exception inside check leaves others in the barrier of module BankCheck.
Stranded == \E u \in thrown : <<u, Phases>> \in failed

\* Only the jobs of the reference are trusted to end.
JobEnds(w) == At(w, "job") => ~ limited /\ ~ Stranded

\* Threads run and time passes.  The functions under bounded_run and the jobs
\* of a library under test may take for ever; creating threads may succeed, and
\* nothing needs to wake up without a reason.
FairSpec ==
    /\ Spec
    /\ WF_vars(Main) /\ WF_vars(MasterStep) /\ WF_vars(OverrunStep)
    /\ \A w \in Workers : WF_vars(JobEnds(w) /\ WorkerStep(w))
    /\ WF_vars(Waiting /\ CallStep) /\ WF_vars(RunnerStep)

-----------------------------------------------------------------------------
(* What the grader promises. *)

\* grading.cpp:588, "cannot unload library with running threads": while a
\* worker executes code of the library, the library and the region exist,
\* whatever went wrong.
LibraryOutlivesWorkers ==
    (\E w \in Workers : At(w, "job")) /\ stage # "exit" => loaded /\ region

\* What no handler of main sees: bounded_run throws in a noexcept destructor, or
\* a transaction retries while the stack is unwound.
Fatal == {"destructor", "unwinding"}

\* The exit code says what happened: 0 if and only if nothing went wrong in any
\* library, phase or check; 2 if measuring was given up; std::terminate if and
\* only if something fatal happened, whatever else went wrong before; and no
\* failure is lost in a later call of bounded_run or measure.
ExitCodeHonest ==
    stage = "exit" =>
        /\ code = 0 <=> blame = {}
        /\ code = 0 => lib = Libraries /\ checks = Checks /\ ~ loaded /\ ~ region
        /\ code = Terminated <=> blame \cap Fatal # {}
        /\ code = 2 <=> blame \cap {"overtime", "threads"} # {} /\ blame \cap Fatal = {}

\* Whatever a library under test does, the grader ends, but for spurious
\* wake-ups, and for an exception in the check of the reference, which is
\* measured without a time limit.
Ends == <>(stage = "exit" \/ spurious \/ (~ limited /\ Stranded))

\* common.hpp:265, "Run some function for some bounded time": the grader ends
\* also after a spurious wake-up.  Not so: the caller joins the runner with the
\* mutex held that the runner needs.
AlwaysEnds == <>(stage = "exit" \/ (~ limited /\ Stranded))

\* grading.cpp:588 again, for the threads of bounded_run.  Not so: after an
\* overrun of the creation or of a shortcut check the library is unloaded.
UnloadedWhenQuiet ==
    stage = "next" => runner # "func" /\ ~ stray

\* transactional.hpp:184: an overlong tm_destroy is an exception like others.
\* Not so: it leaves a noexcept destructor.
NoTerminate == code # Terminated

\* The locals of measure are used while it lasts.  Not so: after an exception
\* the detached workers still use its Sync.
SyncOutlived == mpc = "threw" => \A w \in Workers : wpc[w] \in {"unborn", "gone"}
=============================================================================
