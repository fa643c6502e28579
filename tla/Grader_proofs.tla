---------------------------- MODULE Grader_proofs ----------------------------
(***************************************************************************)
(* For any number of workers, phases, libraries and shortcut checks:       *)
(* bounded_run tells what its function did (BoundedRun!ResultFaithful), no *)
(* worker executes code of a library that is gone                          *)
(* (Grader!LibraryOutlivesWorkers), phases do not overlap and failures     *)
(* reach the master (GradingSync!PhasesSeparate, !FailureReported), and    *)
(* the exit code says what happened (Grader!ExitCodeHonest).               *)
(***************************************************************************)
EXTENDS Grader, FiniteSetTheorems, TLAPS

-----------------------------------------------------------------------------
(* bounded_run. *)

CallTypes ==
    /\ mutex \in {"free", "caller", "runner"}
    /\ caller \in {"out", "lock", "spawn", "wait", "asleep", "relock", "detach", "join"}
    /\ runner \in {"unborn", "func", "lock", "notify", "unlock", "ended"}
    /\ result \in {"none", "returned", "rethrown", "overrun", "unstarted"}
    /\ outcome \in {"running", "ok", "threw"}
    /\ overtime \in BOOLEAN /\ eptr \in BOOLEAN

\* Who has the mutex.
MutexOwned ==
    /\ mutex = "caller" <=> caller \in {"spawn", "wait", "detach", "join"}
    /\ mutex = "runner" <=> runner \in {"notify", "unlock"}

\* How far the runner is when the caller is somewhere: until the caller sleeps
\* it has the mutex, and the runner cannot have notified.
RunnerBehind ==
    /\ caller \in {"lock", "spawn"} => runner = "unborn"
    /\ caller = "wait" => runner \in {"func", "lock"}
    /\ caller \in {"asleep", "relock", "detach", "join"} => runner # "unborn"
    /\ caller = "detach" => overtime
    /\ caller # "out" => result = "none"

\* What the runner has left behind.
OutcomeKept ==
    /\ runner \in {"unborn", "func"} <=> outcome = "running"
    /\ eptr <=> outcome = "threw"

CallInv == CallTypes /\ MutexOwned /\ RunnerBehind /\ OutcomeKept /\ ResultFaithful

\* The steps of bounded_run, of whoever calls it.
CallSteps ==
    \/ bounded_run \/ Waiting \/ spawn_fails \/ spurious_wakeup
    \/ Runner \/ Function \/ stray_ends

\* The steps by which the process ends without main's doing.
Failures == load_fails \/ job_terminates \/ check_terminates

\* A step of the grader is one of them or leaves the call alone.
LEMMA GraderCalls ==
    ASSUME Next
    PROVE  CallSteps \/ UNCHANGED bounded
<1>1. CASE Main
  BY <1>1 DEF Main, load, created, create_threw, measured, measure_threw, checked,
              destroyed, unload, next_library, Leave, CallSteps
<1>2. CASE Failures
  BY <1>2 DEF Failures, load_fails, job_terminates, check_terminates, Terminate
<1>3. CASE MasterStep \/ OverrunStep \/ CreateFails \/ \E w \in Workers : WorkerStep(w)
  BY <1>3 DEF MasterStep, OverrunStep, CreateFails, WorkerStep
<1>4. CASE CallStep \/ RunnerStep \/ FunctionStep
  BY <1>4 DEF CallStep, RunnerStep, FunctionStep, CallSteps, Function
<1>5. CASE Idle /\ UNCHANGED vars
  BY <1>5 DEF vars
<1> QED
  BY <1>1, <1>2, <1>3, <1>4, <1>5 DEF Next, Failures

LEMMA CallStepSafe ==
    ASSUME CallInv, CallSteps
    PROVE  CallInv'
<1> USE DEF CallInv, CallTypes, MutexOwned, RunnerBehind, OutcomeKept, ResultFaithful
<1>1. CASE bounded_run
  BY <1>1 DEF bounded_run
<1>2. CASE guard
  BY <1>2 DEF guard, Guarded
<1>3. CASE spawn \/ wait_for
  BY <1>3 DEF spawn, wait_for, locals
<1>4. CASE elapse
  BY <1>4 DEF elapse, Overdue
<1>5. CASE spurious_wakeup
  BY <1>5 DEF spurious_wakeup, locals
<1>6. CASE relock /\ overtime
  BY <1>6 DEF relock, AfterWait
<1>7. CASE relock /\ ~ overtime
  BY <1>7 DEF relock, AfterWait
<1>8. CASE detach
  BY <1>8 DEF detach
<1>9. CASE join
  BY <1>9 DEF join
<1>10. CASE func_returns
  BY <1>10 DEF func_returns, locals
<1>11. CASE func_throws
  BY <1>11 DEF func_throws
<1>12. CASE Runner
  BY <1>12 DEF Runner, runner_lock, notify_all, runner_unlock, locals
<1>13. CASE stray_ends
  BY <1>13 DEF stray_ends, locals
<1>14. CASE spawn_fails
  BY <1>14 DEF spawn_fails
<1> QED
  BY <1>1, <1>2, <1>3, <1>4, <1>5, <1>6, <1>7, <1>8, <1>9, <1>10, <1>11, <1>12, <1>13, <1>14
  DEF CallSteps, Waiting, Function

LEMMA CallInvariance == Spec => []CallInv
<1>1. Init => CallInv
  BY DEF Init, BoundedInit, CallInv, CallTypes, MutexOwned, RunnerBehind, OutcomeKept,
         ResultFaithful
<1>2. CallInv /\ [Next]_vars => CallInv'
  <2>1. ASSUME CallInv, UNCHANGED bounded PROVE CallInv'
    BY <2>1 DEF bounded, locals, CallInv, CallTypes, MutexOwned, RunnerBehind, OutcomeKept,
                ResultFaithful
  <2> QED
    BY <2>1, GraderCalls, CallStepSafe DEF vars
<1> QED
  BY <1>1, <1>2, PTL DEF Spec

\* common.hpp:265, "Run some function for some bounded time, throws
\* 'Exception::BoundedOverrun' on overtime": a call that returns or rethrows
\* does so because its function did, an overrun is one, a call without a thread
\* ran nothing, and nobody sleeps who was already notified; in every call main
\* makes, after any others.
THEOREM CallsFaithful == Spec => []ResultFaithful
<1>1. CallInv => ResultFaithful
  BY DEF CallInv
<1> QED
  BY <1>1, CallInvariance, PTL

-----------------------------------------------------------------------------
(* measure and the life of a library. *)

Places == {"unborn", "wait", "ready", "reset", "run", "spin", "job", "error", "abort",
           "count", "clear", "settle", "stop", "raise", "gone"}

\* A worker that does not exist, or no longer.
Quiet(w) == wpc[w] \in {"unborn", "gone"}

\* main leaves measure only when no worker is left, or for good.
LifeInv ==
    /\ wpc \in [Workers -> Places]
    /\ stage \in {"create", "measure"} => loaded
    /\ stage = "measure" => region
    /\ stage \notin {"measure", "exit"} => \A w \in Workers : Quiet(w)
    /\ mpc = "returned" => \A w \in Workers : wpc[w] = "gone"

\* The steps of main, of which only the call of measure touches the workers.
LEMMA MainKeepsLife ==
    ASSUME LifeInv, Main \/ Failures
    PROVE  LifeInv'
<1> USE DEF LifeInv, Quiet, Places
<1>1. CASE load \/ load_fails
  BY <1>1 DEF load, load_fails, measuring, worker, master
<1>2. CASE created
  BY <1>2 DEF created, measure
<1>3. CASE create_threw
  BY <1>3 DEF create_threw, measuring, worker, master
<1>4. CASE measured
  BY <1>4 DEF measured, Leave, measuring, worker, master
<1>5. CASE measure_threw
  BY <1>5 DEF measure_threw, AfterException, measuring, worker, master
<1>6. CASE checked
  BY <1>6 DEF checked, Leave, measuring, worker, master
<1>7. CASE destroyed \/ unload \/ next_library
  BY <1>7 DEF destroyed, unload, next_library, measuring, worker, master
<1>8. CASE job_terminates \/ check_terminates
  BY <1>8 DEF job_terminates, check_terminates, Terminate, measuring, worker, master
<1> QED
  BY <1>1, <1>2, <1>3, <1>4, <1>5, <1>6, <1>7, <1>8 DEF Main, Failures

\* The master joins all workers before measure returns.
LEMMA MasterKeepsLife ==
    ASSUME LifeInv, MasterStep \/ OverrunStep \/ CreateFails
    PROVE  LifeInv'
<1> USE DEF LifeInv, Quiet, Places, outside
<1>1. CASE OverrunStep \/ CreateFails
  BY <1>1 DEF OverrunStep, CreateFails, latch_overtime, create_fails, worker
<1>2. CASE MasterStep
  <2>1. ASSUME NEW w \in Workers, create(w) PROVE LifeInv'
    BY <1>2, <2>1 DEF MasterStep, create, main
  <2>2. CASE master_notify \/ runtime_start \/ latch_wait
    BY <1>2, <2>2 DEF MasterStep, master_notify, runtime_start, latch_wait, worker, main
  <2>3. CASE judge
    BY <1>2, <2>3 DEF MasterStep, judge, worker, main
  <2>4. CASE master_join \/ joined
    BY <1>2, <2>4 DEF MasterStep, master_join, joined, worker, main
  <2> QED
    BY <1>2, <2>1, <2>2, <2>3, <2>4 DEF MasterStep, Master
<1> QED
  BY <1>1, <1>2

\* A worker that takes a step is neither unborn nor gone.
LEMMA WorkerKeepsLife ==
    ASSUME LifeInv, NEW w \in Workers, WorkerStep(w)
    PROVE  LifeInv'
<1>1. ~ Quiet(w) /\ UNCHANGED <<mpc, stage, loaded, region>>
  BY DEF WorkerStep, Worker, outside, master, At, Quiet, see_wait, see_quit, ready, reset,
         run, spin, job_ok, job_error, job_throws, set_errmsg, set_abort, count, clear,
         settle, runtime_stop, raise
<1>2. \E l \in Places : Goto(w, l)
  BY DEF Places, WorkerStep, Worker, see_wait, see_quit, ready, reset,
         run, spin, job_ok, job_error, job_throws, set_errmsg, set_abort, count, clear,
         settle, runtime_stop, raise, NextJob
<1>3. wpc' \in [Workers -> Places]
  BY <1>2 DEF Goto, LifeInv
<1>4. stage = "measure" /\ mpc # "returned"
  BY <1>1 DEF LifeInv, WorkerStep, Quiet
<1> QED
  BY <1>1, <1>3, <1>4 DEF LifeInv

LEMMA LifeInvariance == Spec => []LifeInv
<1>1. Init => LifeInv
  BY DEF Init, MeasureInit, LifeInv, Quiet, Places
<1>2. LifeInv /\ [Next]_vars => LifeInv'
  <2>1. ASSUME LifeInv, UNCHANGED <<measuring, outside>> PROVE LifeInv'
    BY <2>1 DEF measuring, outside, worker, master, LifeInv, Quiet
  <2>2. UNCHANGED vars => UNCHANGED <<measuring, outside>>
    BY DEF vars, main, outside
  <2>3. CallStep \/ RunnerStep \/ FunctionStep => UNCHANGED <<measuring, outside>>
    BY DEF CallStep, RunnerStep, FunctionStep, outside, main
  <2> QED
    BY <2>1, <2>2, <2>3, MainKeepsLife, MasterKeepsLife, WorkerKeepsLife DEF Next, Failures
<1> QED
  BY <1>1, <1>2, PTL DEF Spec

\* grading.cpp:588, "cannot unload library with running threads": whatever goes
\* wrong in measure, the library and the region stay while a worker is in a job.
THEOREM WorkersOutlived == Spec => []LibraryOutlivesWorkers
<1>1. LifeInv => LibraryOutlivesWorkers
  BY DEF LifeInv, LibraryOutlivesWorkers, At, Quiet
<1> QED
  BY <1>1, LifeInvariance, PTL

-----------------------------------------------------------------------------
(* Phases. *)

\* The worker has finished the job of this phase: it waits, or its job threw.
Finished(w) == job[w] = phase + 1 /\ (wpc[w] = "wait" \/ (wpc[w] = "gone" /\ w \in thrown))

Spinners == {w \in Workers : At(w, "spin")}
Finishers == {w \in Workers : job[w] = phase + 1}

\* The master is in this phase, or has given up in it.
InPhase == mpc \in {"start", "latch", "threw"} /\ ~ raised /\ verdict = "none"

\* A failure is on its way to the status.
Failing == status = "Abort" \/ \E w \in Workers : wpc[w] \in {"error", "abort"}

\* The situations of measure.  Nothing runs yet ...
Creating ==
    /\ mpc \in {"idle", "create", "threw"} /\ status = "Done" /\ nbready = 0 /\ ~ raised
    /\ failed = {} /\ verdict = "none"
    /\ \A w \in Workers : wpc[w] \in {"unborn", "wait"} /\ job[w] = phase

\* ... or everybody waits for a phase ...
Between ==
    /\ mpc = "notify" /\ status = "Done" /\ nbready = 0 /\ ~ raised
    /\ failed = {} /\ verdict = "none"
    /\ \A w \in Workers : wpc[w] = "wait" /\ job[w] = phase

\* ... enters it, and is counted ...
Entering ==
    /\ InPhase /\ status = "Wait" /\ failed = {}
    /\ nbready = Cardinality(Spinners) /\ nbready < nbworkers
    /\ \A w \in Workers : wpc[w] \in {"wait", "ready", "spin"} /\ job[w] = phase

\* ... the last one to enter lets all others go on ...
Resetting(r) ==
    /\ InPhase /\ status = "Wait" /\ failed = {}
    /\ \A w \in Workers : job[w] = phase /\ (w # r => wpc[w] = "spin")
    /\ \/ wpc[r] = "reset"
       \/ wpc[r] = "run" /\ nbready = 0

\* ... all do their jobs, and are counted again ...
Working ==
    /\ InPhase /\ status \in {"Run", "Abort"} /\ (failed # {} <=> Failing)
    /\ nbready = Cardinality(Finishers) /\ nbready < nbworkers
    /\ \A w \in Workers : \/ Finished(w)
                          \/ /\ job[w] = phase
                             /\ wpc[w] \in {"spin", "job", "error", "abort", "count"}

\* ... the last one to finish tells the master ...
Settling(r) ==
    /\ InPhase /\ job[r] = phase
    /\ \A w \in Workers \ {r} : Finished(w)
    /\ \/ wpc[r] = "clear" /\ status \in {"Run", "Abort"}
       \/ wpc[r] = "settle" /\ nbready = 0 /\ status \in {"Run", "Abort"}
       \/ wpc[r] \in {"stop", "raise"} /\ nbready = 0 /\ status \in {"Done", "Fail"}
    /\ (failed # {} <=> status \in {"Abort", "Fail"})

\* ... who reads the status ...
Ended ==
    /\ \/ mpc \in {"start", "latch", "threw"} /\ raised /\ verdict = "none"
       \/ mpc = "judge" /\ ~ raised /\ verdict = "none"
       \/ mpc = "join" /\ verdict = (IF failed = {} THEN "ok" ELSE "error")
    /\ nbready = 0 /\ status \in {"Done", "Fail"} /\ (failed # {} <=> status = "Fail")
    /\ \A w \in Workers : Finished(w)

\* ... and, at the end, joins the workers.
Quitting ==
    /\ mpc \in {"joining", "returned"} /\ status = "Quit"
    /\ verdict = (IF failed = {} THEN "ok" ELSE "error")
    /\ \A w \in Workers : job[w] = phase + 1 /\ wpc[w] \in {"wait", "gone"}

Situation ==
    \/ Creating \/ Between \/ Entering \/ Working \/ Ended \/ Quitting
    \/ \E r \in Workers : Resetting(r) \/ Settling(r)

PhaseInv ==
    /\ wpc \in [Workers -> Places] /\ job \in [Workers -> Nat] /\ nbready \in Nat
    /\ phase \in 1..Phases
    /\ failed \subseteq Workers \X {phase}
    /\ \A w \in thrown : <<w, phase>> \in failed
    /\ (status \in {"Abort", "Fail"} \/ \E w \in Workers : wpc[w] = "abort") => errmsg
    /\ Situation

-----------------------------------------------------------------------------
(* Counting *)

\* What nbready counts.
LEMMA WorkersCounted ==
    /\ nbworkers \in Nat /\ nbworkers > 0
    /\ \A S \in SUBSET Workers : Cardinality(S) \in Nat /\ IsFiniteSet(S)
    /\ \A S \in SUBSET Workers : S = {} => Cardinality(S) = 0
    /\ \A S \in SUBSET Workers : Cardinality(S) = nbworkers => S = Workers
<1> USE GradingConstantsOk DEF nbworkers
<1>1. \A S \in SUBSET Workers : IsFiniteSet(S) /\ Cardinality(S) \in Nat
  BY FS_Subset, FS_CardinalityType
<1>2. \A S \in SUBSET Workers : Cardinality(S) = Cardinality(Workers) => S = Workers
  BY FS_Subset
<1>3. Cardinality({}) = 0 /\ Cardinality(Workers) # 0 /\ Cardinality(Workers) \in Nat
  BY FS_EmptySet, FS_CardinalityType
<1> QED
  BY <1>1, <1>2, <1>3

\* One more: the last one if there were nbworkers - 1.
LEMMA OneMore ==
    ASSUME NEW S \in SUBSET Workers, NEW w \in Workers \ S
    PROVE  /\ Cardinality(S \cup {w}) = Cardinality(S) + 1
           /\ Cardinality(S) + 1 = nbworkers => S \cup {w} = Workers
<1>1. Cardinality(S \cup {w}) = Cardinality(S) + 1
  BY WorkersCounted, FS_AddElement
<1>2. S \cup {w} \in SUBSET Workers
  OBVIOUS
<1> QED
  BY <1>1, <1>2, WorkersCounted

\* Where a worker that moves can be.
LEMMA Located ==
    ASSUME PhaseInv, NEW w \in Workers
    PROVE  /\ At(w, "wait") /\ status = "Wait" => Entering
           /\ At(w, "wait") /\ status = "Quit" => Quitting
           /\ At(w, "ready") => Entering
           /\ wpc[w] \in {"reset", "run"} => Resetting(w)
           /\ At(w, "spin") /\ Started => Working
           /\ wpc[w] \in {"job", "error", "abort", "count"} => Working
           /\ wpc[w] \in {"clear", "settle", "stop", "raise"} => Settling(w)
BY DEF PhaseInv, Situation, Creating, Between, Entering, Resetting, Working, Settling, Ended,
       Quitting, Finished, At, Started, InPhase

LEMMA EnteringStep ==
    ASSUME PhaseInv, Entering, NEW w \in Workers, see_wait(w) \/ ready(w)
    PROVE  PhaseInv'
<1> USE DEF PhaseInv, Entering, InPhase
<1>1. CASE see_wait(w)
  <2>1. Spinners' = Spinners
    BY <1>1 DEF see_wait, Spinners, At, Goto
  <2>2. Entering'
    BY <1>1, <2>1 DEF see_wait, At, Goto, atomics, chrono, master
  <2> QED
    BY <1>1, <2>2 DEF Situation, see_wait, At, Goto, atomics, chrono, master, Places
<1>2. CASE ready(w)
  <2>1. Spinners \in SUBSET Workers /\ w \notin Spinners
    BY <1>2 DEF ready, Spinners, At
  <2>2. CASE Latest
    <3>1. Spinners \cup {w} = Workers
      BY <2>1, <2>2, OneMore DEF Latest
    <3>2. \A u \in Workers \ {w} : wpc[u] = "spin"
      BY <3>1 DEF Spinners, At
    <3>3. Resetting(w)'
      BY <1>2, <2>2, <3>2 DEF Resetting, ready, At, Goto, chrono, master
    <3> QED
      BY <1>2, <2>2, <3>3 DEF Situation, ready, At, Goto, chrono, master, Places
  <2>3. CASE ~ Latest
    <3>1. Spinners' = Spinners \cup {w}
      BY <1>2, <2>3 DEF ready, Spinners, At, Goto
    <3>2. nbready' = Cardinality(Spinners') /\ nbready' < nbworkers
      BY <1>2, <2>1, <2>3, <3>1, OneMore, WorkersCounted DEF ready, Latest
    <3>3. Entering'
      BY <1>2, <2>3, <3>2 DEF ready, At, Goto, chrono, master
    <3> QED
      BY <1>2, <2>3, <3>3 DEF Situation, ready, At, Goto, chrono, master, Places
  <2> QED
    BY <2>2, <2>3
<1> QED
  BY <1>1, <1>2

LEMMA ResettingStep ==
    ASSUME PhaseInv, NEW w \in Workers, Resetting(w), reset(w) \/ run(w)
    PROVE  PhaseInv'
<1> USE DEF PhaseInv, Resetting, InPhase
<1>1. CASE reset(w)
  <2>1. Resetting(w)'
    BY <1>1 DEF reset, At, Goto, Cleared, chrono, master
  <2> QED
    BY <1>1, <2>1 DEF Situation, reset, At, Goto, Cleared, chrono, master, Places
<1>2. CASE run(w)
  <2>1. Finishers' = {}
    BY <1>2 DEF run, Finishers, master
  <2>2. nbready' = Cardinality(Finishers') /\ nbready' < nbworkers
    BY <1>2, <2>1, WorkersCounted DEF run, At
  <2>3. Working'
    BY <1>2, <2>2 DEF Working, Failing, run, At, Goto, chrono, master
  <2> QED
    BY <1>2, <2>3 DEF Situation, run, At, Goto, chrono, master, Places
<1> QED
  BY <1>1, <1>2

LEMMA JobStep ==
    ASSUME PhaseInv, Working, NEW w \in Workers,
           \/ spin(w) \/ job_ok(w) \/ job_error(w) \/ job_throws(w)
           \/ set_errmsg(w) \/ set_abort(w)
    PROVE  PhaseInv'
<1> USE DEF PhaseInv, Working, InPhase
<1>1. job[w] = phase /\ \A u \in Workers \ {w} : Finished(u)' <=> Finished(u)
  BY DEF spin, job_ok, job_error, job_throws, set_errmsg, set_abort, Finished, At, Goto, master
<1>2. Finishers' = Finishers
  BY DEF spin, job_ok, job_error, job_throws, set_errmsg, set_abort, Finishers, master
<1>3. CASE spin(w) \/ job_ok(w)
  <2>1. Working'
    BY <1>1, <1>2, <1>3 DEF spin, job_ok, Failing, At, Goto, atomics, chrono, master
  <2> QED
    BY <1>3, <2>1 DEF Situation, spin, job_ok, At, Goto, atomics, chrono, master, Places
<1>4. CASE job_error(w) \/ job_throws(w)
  <2>1. failed' = failed \cup {<<w, phase>>} /\ wpc' = [wpc EXCEPT ![w] = "error"]
    BY <1>1, <1>4 DEF job_error, job_throws, Goto
  <2>2. failed' # {} /\ Failing'
    BY <2>1 DEF Failing
  <2>3. Working'
    BY <1>1, <1>2, <1>4, <2>1, <2>2 DEF job_error, job_throws, atomics, chrono, master
  <2> QED
    BY <1>1, <1>4, <2>1, <2>3
    DEF Situation, job_error, job_throws, At, atomics, chrono, master, Places
<1>5. CASE set_errmsg(w) \/ set_abort(w)
  <2>1. Working'
    BY <1>1, <1>2, <1>5 DEF set_errmsg, set_abort, Failing, At, Goto, chrono, master
  <2> QED
    BY <1>5, <2>1 DEF Situation, set_errmsg, set_abort, At, Goto, chrono, master, Places
<1> QED
  BY <1>3, <1>4, <1>5

LEMMA CountStep ==
    ASSUME PhaseInv, Working, NEW w \in Workers, count(w)
    PROVE  PhaseInv'
<1> USE DEF PhaseInv, Working, InPhase, count, At
<1>1. Finishers \in SUBSET Workers /\ w \notin Finishers /\ job[w] = phase
  BY DEF Finishers, Finished
<1>2. CASE Latest
  <2>1. \A u \in Workers \ {w} : Finished(u)
    <3>1. Finishers \cup {w} = Workers
      BY <1>1, <1>2, OneMore DEF Latest
    <3> QED
      BY <3>1 DEF Finishers
  <2>2. Settling(w)'
    BY <1>1, <1>2, <2>1 DEF Settling, Finished, Failing, Goto, chrono, master
  <2> QED
    BY <1>2, <2>2 DEF Situation, Goto, chrono, master, Places
<1>3. CASE ~ Latest
  <2>1. Finishers' = Finishers \cup {w}
    BY <1>1, <1>3 DEF Finishers, NextJob, master
  <2>2. nbready' = Cardinality(Finishers') /\ nbready' < nbworkers
    BY <1>1, <1>3, <2>1, OneMore, WorkersCounted DEF Latest
  <2>3. Working'
    BY <1>1, <1>3, <2>2 DEF NextJob, Finished, Failing, Goto, chrono, master
  <2> QED
    BY <1>3, <2>3 DEF Situation, NextJob, Goto, chrono, master, Places
<1> QED
  BY <1>2, <1>3

LEMMA SettlingStep ==
    ASSUME PhaseInv, NEW w \in Workers, Settling(w),
           clear(w) \/ settle(w) \/ runtime_stop(w) \/ raise(w)
    PROVE  PhaseInv'
<1> USE DEF PhaseInv, Settling, InPhase
<1>1. CASE clear(w) \/ settle(w)
  <2>1. Settling(w)'
    BY <1>1 DEF clear, settle, Settled, Cleared, Finished, At, Goto, chrono, master
  <2> QED
    BY <1>1, <2>1 DEF Situation, clear, settle, Settled, Cleared, Finished, At, Goto, chrono, master, Places
<1>2. CASE runtime_stop(w)
  <2>1. Settling(w)'
    BY <1>2 DEF runtime_stop, Finished, At, Goto, atomics, master
  <2> QED
    BY <1>2, <2>1 DEF Situation, runtime_stop, At, Goto, atomics, master, Places
<1>3. CASE raise(w)
  <2>1. Ended'
    BY <1>3 DEF Ended, raise, Finished, NextJob, At, Goto, chrono, master
  <2> QED
    BY <1>3, <2>1 DEF Situation, raise, NextJob, At, Goto, chrono, master, Places
<1> QED
  BY <1>1, <1>2, <1>3

LEMMA QuitStep ==
    ASSUME PhaseInv, Quitting, NEW w \in Workers, see_quit(w)
    PROVE  PhaseInv'
<1>1. Quitting'
  BY DEF PhaseInv, Quitting, see_quit, At, Goto, atomics, chrono, master
<1> QED
  BY <1>1 DEF PhaseInv, Situation, see_quit, At, Goto, atomics, chrono, master, Places

LEMMA WorkerPhases ==
    ASSUME PhaseInv, NEW w \in Workers, Worker(w)
    PROVE  PhaseInv'
<1>1. CASE see_wait(w) \/ ready(w)
  BY <1>1, Located, EnteringStep DEF see_wait, ready
<1>2. CASE see_quit(w)
  BY <1>2, Located, QuitStep DEF see_quit
<1>3. CASE reset(w) \/ run(w)
  BY <1>3, Located, ResettingStep DEF reset, run, At
<1>4. CASE \/ spin(w) \/ job_ok(w) \/ job_error(w) \/ job_throws(w)
           \/ set_errmsg(w) \/ set_abort(w)
  BY <1>4, Located, JobStep
  DEF spin, job_ok, job_error, job_throws, set_errmsg, set_abort, At
<1>5. CASE count(w)
  BY <1>5, Located, CountStep DEF count, At
<1>6. CASE clear(w) \/ settle(w) \/ runtime_stop(w) \/ raise(w)
  BY <1>6, Located, SettlingStep DEF clear, settle, runtime_stop, raise, At
<1> QED
  BY <1>1, <1>2, <1>3, <1>4, <1>5, <1>6 DEF Worker

-----------------------------------------------------------------------------
(* The master *)

\* Where the master can be.
LEMMA MasterLocated ==
    ASSUME PhaseInv
    PROVE  /\ mpc = "create" => Creating
           /\ mpc = "notify" => Between
           /\ mpc \in {"judge", "join"} \/ (mpc = "latch" /\ raised) => Ended
           /\ mpc \in {"joining", "returned"} => Quitting
           /\ mpc # "unreachable"
BY DEF PhaseInv, Situation, Creating, Between, Entering, Resetting, Working, Settling, Ended,
       Quitting, InPhase

LEMMA MasterCreates ==
    ASSUME PhaseInv, NEW w \in Workers, create(w)
    PROVE  PhaseInv'
<1>1. Creating
  BY MasterLocated DEF create
<1>2. Creating' \/ Between'
  BY <1>1 DEF PhaseInv, create, Creating, Between, atomics, chrono
<1> QED
  BY <1>2 DEF PhaseInv, Situation, create, atomics, chrono, Places

\* Whoever is in the phase does not notice that the master starts the clock or
\* gives up.
LEMMA MasterMoves ==
    ASSUME PhaseInv, mpc \in {"start", "latch"}, mpc' \in {"latch", "threw"},
           UNCHANGED <<atomics, phase, limited, verdict, worker>>
    PROVE  PhaseInv'
<1> USE DEF atomics, worker
<1>1. Spinners' = Spinners /\ Finishers' = Finishers
  BY DEF Spinners, Finishers, At
<1>2. \A w \in Workers : Finished(w)' <=> Finished(w)
  BY DEF Finished
<1>3. InPhase => InPhase'
  BY DEF InPhase
<1>4. Entering \/ Working => Entering' \/ Working'
  BY <1>1, <1>2, <1>3 DEF Entering, Working, Failing
<1>5. ASSUME NEW r \in Workers, Resetting(r) \/ Settling(r) PROVE Resetting(r)' \/ Settling(r)'
  BY <1>2, <1>3, <1>5 DEF Resetting, Settling
<1>6. Ended => Ended'
  BY <1>2 DEF Ended
<1>7. Situation'
  BY <1>4, <1>5, <1>6 DEF PhaseInv, Situation, Creating, Between, Quitting
<1> QED
  BY <1>7 DEF PhaseInv

LEMMA MasterEnds ==
    ASSUME PhaseInv, latch_wait \/ judge \/ master_join \/ joined
    PROVE  PhaseInv'
<1>1. CASE latch_wait
  <2>1. Ended
    BY <1>1, MasterLocated DEF latch_wait
  <2>2. Ended'
    BY <1>1, <2>1 DEF latch_wait, Ended, Finished, chrono, worker
  <2> QED
    BY <1>1, <2>2 DEF latch_wait, PhaseInv, Situation, chrono, worker
<1>2. CASE judge
  <2>1. Ended
    BY <1>2, MasterLocated DEF judge
  <2>2. CASE status = "Done" /\ phase < Phases
    <3>1. /\ mpc' = "notify" /\ phase' = phase + 1
          /\ UNCHANGED <<atomics, chrono, limited, verdict, worker>>
      BY <1>2, <2>2 DEF judge
    <3>2. mpc = "judge"
      BY <1>2 DEF judge
    <3>3. failed = {} /\ \A w \in Workers : w \notin thrown
      BY <2>1, <2>2 DEF PhaseInv, Ended
    <3>4. Between'
      BY <2>1, <2>2, <3>1, <3>2, <3>3 DEF Ended, Between, Finished, atomics, worker
    <3>5. phase' \in 1..Phases
      BY <2>2, <3>1, GradingConstantsOk DEF PhaseInv
    <3>6. thrown' = {}
      BY <3>1, <3>3 DEF PhaseInv, worker
    <3> QED
      BY <2>2, <3>1, <3>3, <3>4, <3>5, <3>6 DEF PhaseInv, Situation, atomics, worker
  <2>3. CASE ~ (status = "Done" /\ phase < Phases)
    <3>1. Ended' /\ phase' = phase
      BY <1>2, <2>1, <2>3 DEF judge, PhaseInv, Ended, Finished, atomics, chrono, worker
    <3> QED
      BY <1>2, <3>1 DEF judge, PhaseInv, Situation, atomics, chrono, worker
  <2> QED
    BY <2>2, <2>3
<1>3. CASE master_join
  <2>1. Ended
    BY <1>3, MasterLocated DEF master_join
  <2>2. Quitting'
    BY <1>3, <2>1 DEF master_join, Ended, Quitting, Finished, chrono, worker
  <2> QED
    BY <1>3, <2>2 DEF master_join, PhaseInv, Situation, chrono, worker
<1>4. CASE joined
  <2>1. Quitting'
    BY <1>4, MasterLocated DEF joined, Quitting, atomics, chrono, worker
  <2> QED
    BY <1>4, <2>1 DEF joined, PhaseInv, Situation, atomics, chrono, worker
<1> QED
  BY <1>1, <1>2, <1>3, <1>4

LEMMA MasterPhases ==
    ASSUME PhaseInv, Master \/ Exceptions
    PROVE  PhaseInv'
<1>1. ASSUME NEW w \in Workers, create(w) PROVE PhaseInv'
  BY <1>1, MasterCreates
<1>2. CASE create_fails
  <2>1. Creating'
    BY <1>2, MasterLocated DEF create_fails, Creating, atomics, chrono, worker
  <2> QED
    BY <1>2, <2>1 DEF create_fails, PhaseInv, Situation, atomics, chrono, worker
<1>3. CASE master_notify
  <2>1. Between /\ Spinners' = {}
    BY <1>3, MasterLocated DEF master_notify, Between, Spinners, At, worker
  <2>2. nbready' = Cardinality(Spinners') /\ nbready' < nbworkers
    BY <1>3, <2>1, WorkersCounted DEF master_notify, Between
  <2>3. Entering'
    BY <1>3, <2>1, <2>2 DEF master_notify, Between, Entering, InPhase, chrono, worker
  <2> QED
    BY <1>3, <2>1, <2>3 DEF master_notify, PhaseInv, Situation, Between, chrono, worker
<1>4. CASE runtime_start \/ latch_overtime
  BY <1>4, MasterMoves DEF runtime_start, latch_overtime
<1>5. CASE latch_wait \/ judge \/ master_join \/ joined
  BY <1>5, MasterEnds
<1> QED
  BY <1>1, <1>2, <1>3, <1>4, <1>5 DEF Master, Exceptions

-----------------------------------------------------------------------------
(* The invariant *)

\* A step of the grader is one of measure, its call, or leaves it alone.
LEMMA GraderMeasures ==
    ASSUME Next
    PROVE  \/ Master \/ Exceptions
           \/ \E w \in Workers : Worker(w)
           \/ \E limit : measure(limit)
           \/ UNCHANGED measuring
<1>1. CASE Main
  <2>1. CASE created
    BY <2>1 DEF created
  <2>2. CASE ~ created
    BY <1>1, <2>2 DEF Main, load, create_threw, measured, measure_threw, checked,
                      destroyed, unload, next_library
  <2> QED
    BY <2>1, <2>2
<1>2. CASE Failures
  BY <1>2 DEF Failures, load_fails, job_terminates, check_terminates, Terminate
<1>3. CASE MasterStep \/ OverrunStep \/ CreateFails \/ \E w \in Workers : WorkerStep(w)
  BY <1>3 DEF MasterStep, OverrunStep, CreateFails, WorkerStep, Exceptions
<1>4. CASE CallStep \/ RunnerStep \/ FunctionStep
  BY <1>4 DEF CallStep, RunnerStep, FunctionStep
<1>5. CASE Idle /\ UNCHANGED vars
  BY <1>5 DEF vars
<1> QED
  BY <1>1, <1>2, <1>3, <1>4, <1>5 DEF Next, Failures

LEMMA PhaseInvariance == Spec => []PhaseInv
<1>1. Init => PhaseInv
  <2>1. 1 \in 1..Phases
    BY GradingConstantsOk
  <2> QED
    BY <2>1 DEF Init, MeasureInit, PhaseInv, Situation, Creating, Places
<1>2. PhaseInv /\ [Next]_vars => PhaseInv'
  <2>1. ASSUME NEW limit, measure(limit) PROVE PhaseInv'
    <3>1. 1 \in 1..Phases
      BY GradingConstantsOk
    <3>2. Creating'
      BY <2>1 DEF measure, Creating
    <3> QED
      BY <2>1, <3>1, <3>2 DEF measure, PhaseInv, Situation, Places
  <2>2. ASSUME PhaseInv, UNCHANGED measuring PROVE PhaseInv'
    <3> USE <2>2 DEF measuring, atomics, master, worker
    <3>1. Spinners' = Spinners /\ Finishers' = Finishers
      BY DEF Spinners, Finishers, At
    <3>2. (Creating' <=> Creating) /\ (Between' <=> Between) /\ (Quitting' <=> Quitting)
      BY DEF Creating, Between, Quitting
    <3>3. (Entering' <=> Entering) /\ (Working' <=> Working) /\ (Ended' <=> Ended)
      BY <3>1 DEF Entering, Working, Ended, InPhase, Failing, Finished
    <3>4. \A r \in Workers : (Resetting(r)' <=> Resetting(r)) /\ (Settling(r)' <=> Settling(r))
      BY DEF Resetting, Settling, InPhase, Finished
    <3> QED
      BY <3>2, <3>3, <3>4 DEF PhaseInv, Situation
  <2> QED
    BY <2>1, <2>2, GraderMeasures, MasterPhases, WorkerPhases DEF vars
<1> QED
  BY <1>1, <1>2, PTL DEF Spec

\* grading.cpp:120, the phases of all workers: jobs of different phases never
\* overlap, and never the master's own work, however the workers are scheduled
\* and whoever fails or gives up.
THEOREM PhasesNeverOverlap == Spec => []PhasesSeparate
<1>1. PhaseInv => PhasesSeparate
  <2> SUFFICES ASSUME PhaseInv, NEW w \in Workers, At(w, "job")
               PROVE  /\ mpc \in {"start", "latch", "threw"}
                      /\ \A u \in Workers : \/ job[u] = job[w]
                                            \/ job[u] = job[w] + 1 /\ wpc[u] \in {"wait", "gone"}
                      /\ job[w] = phase
    BY DEF PhasesSeparate
  <2>1. Working
    BY Located DEF At
  <2> QED
    BY <2>1 DEF Working, InPhase, Finished, At
<1> QED
  BY <1>1, PhaseInvariance, PTL

\* A failure reaches the master in its phase, and nothing else looks like one.
THEOREM FailuresReported == Spec => []FailureReported
<1>1. ASSUME PhaseInv PROVE FailureReported
  <2>1. mpc = "judge" => Ended
    BY <1>1, MasterLocated
  <2>2. \A w \in Workers : wpc[w] = "job" => job[w] = phase
    BY <1>1, Located DEF Working, Finished
  <2>3. phase \in 1..Phases /\ mpc # "unreachable"
    BY <1>1, MasterLocated DEF PhaseInv
  <2>4. (verdict = "ok" => failed = {}) /\ (verdict = "error" => failed # {})
    BY <1>1 DEF PhaseInv, Situation, Creating, Between, Entering, Resetting, Working, Settling,
                Ended, Quitting, InPhase
  <2>5. mpc = "judge" => (status = "Fail" <=> \E w \in Workers : <<w, phase>> \in failed)
    <3>1. failed \subseteq Workers \X {phase}
      BY <1>1 DEF PhaseInv
    <3>2. failed # {} => \E w \in Workers : <<w, phase>> \in failed
      BY <3>1
    <3> QED
      BY <2>1, <3>2 DEF Ended
  <2>6. mpc = "judge" /\ status = "Fail" => errmsg
    BY <1>1 DEF PhaseInv
  <2>7. \A w \in Workers : wpc[w] = "job" => job[w] <= Phases
    BY <2>2, <2>3, GradingConstantsOk
  <2> QED
    BY <2>3, <2>4, <2>5, <2>6, <2>7 DEF FailureReported
<1> QED
  BY <1>1, PhaseInvariance, PTL

-----------------------------------------------------------------------------
(* The exit code. *)

\* The function threw, overran or could not be started.
CallBad == outcome = "threw" \/ result \in {"overrun", "unstarted"}

\* The last call is over and was good.
CallOver == caller = "out" /\ runner \in {"unborn", "ended"} /\ ~ CallBad

\* What has gone wrong is known to main, or will be: from the call or from measure.
Blamed ==
    /\ blame # {} <=> code = 1 \/ CallBad \/ failed # {} \/ mpc = "threw"
    /\ blame \cap {"overtime", "threads"} # {} <=> mpc = "threw"
    /\ blame \cap Fatal # {} <=> stage = "destroy" /\ result \in {"overrun", "unstarted"}

\* When main goes on, nothing is pending.
PendingKnown ==
    /\ code \in {Undecided, 1}
    /\ stage \in {"load", "create", "measure", "shortcuts"} => code = Undecided
    /\ stage \in {"load", "measure"} => CallOver
    /\ stage \in {"unload", "next"} /\ code = Undecided => CallOver
    /\ stage # "measure" => mpc # "threw" /\ (failed # {} => code = 1)
    /\ stage = "destroy" => outcome # "threw"

\* How far main is, and what it has cleaned up.
Progress ==
    /\ stage = "shortcuts" => lib = Libraries /\ checks \in 1..Checks
    /\ stage \in {"destroy", "unload", "next"} /\ code = Undecided /\ lib = Libraries =>
          checks = Checks
    /\ stage \in {"load", "create", "unload", "next"} => ~ region
    /\ stage = "next" => ~ loaded

ExitInv ==
    /\ stage \in {"load", "create", "measure", "shortcuts", "destroy", "unload", "next", "exit"}
    /\ lib \in 1..Libraries /\ checks \in Nat
    /\ stage # "exit" => Blamed /\ PendingKnown /\ Progress
    /\ ExitCodeHonest

\* What the invariants say of the call and of measure when main looks at them.
LEMMA Answers ==
    ASSUME CallInv, PhaseInv
    PROVE  /\ result = "returned" => caller = "out" /\ runner = "ended" /\ outcome = "ok"
           /\ result = "rethrown" => outcome = "threw"
           /\ result \in {"none", "returned", "rethrown", "overrun", "unstarted"}
           /\ mpc = "returned" => (verdict = "ok" <=> failed = {})
           /\ caller # "out" => result = "none"
<1>1. mpc = "returned" => Quitting
  BY MasterLocated
<1> QED
  BY <1>1 DEF CallInv, CallTypes, RunnerBehind, ResultFaithful, Quitting

\* A new call: nothing is known of it.
LEMMA NewCall ==
    ASSUME bounded_run
    PROVE  ~ CallBad' /\ result' = "none" /\ outcome' = "running"
BY DEF bounded_run, CallBad

LEMMA MainHonest ==
    ASSUME CallInv, PhaseInv, ExitInv, Main
    PROVE  ExitInv'
<1> USE GraderConstantsOk DEF ExitInv, ExitCodeHonest, Undecided, Terminated
<1>1. CASE load
  BY <1>1, NewCall DEF load, Blamed, PendingKnown, Progress, CallOver, measuring, master, worker
<1>2. CASE created
  <2>1. /\ stage = "create" /\ stage' = "measure" /\ CallOver /\ CallOver'
        /\ failed = {} /\ failed' = {} /\ mpc # "threw" /\ mpc' = "create"
        /\ UNCHANGED <<lib, checks, code, blame, outcome, result>>
    BY <1>2, Answers DEF created, measure, CallOver, CallBad, PendingKnown, Undecided,
                         bounded, locals
  <2> QED
    BY <2>1 DEF Blamed, PendingKnown, Progress, CallOver
<1>3. CASE create_threw
  <2>1. CallBad
    BY <1>3, Answers DEF create_threw, CallBad
  <2> QED
    BY <1>3, <2>1 DEF create_threw, Blamed, PendingKnown, Progress, CallBad, measuring, master,
                      worker, bounded
<1>4. CASE measured
  <2>1. /\ Accepted <=> failed = {}
        /\ stage = "measure" /\ code = Undecided /\ ~ CallBad /\ mpc = "returned"
        /\ ~ CallBad' /\ result' = "none" /\ outcome' = "running"
        /\ UNCHANGED <<measuring, lib, loaded, region, blame>>
    BY <1>4, Answers, NewCall DEF measured, Leave, Accepted, PendingKnown, CallOver
  <2>2. Blamed'
    BY <1>4, <2>1 DEF measured, Leave, Blamed, measuring, master, worker
  <2>3. PendingKnown'
    BY <1>4, <2>1 DEF measured, Leave, PendingKnown, measuring, master, worker
  <2>4. Progress' /\ checks' \in Nat
    BY <1>4, <2>1 DEF measured, Leave, Progress
  <2> QED
    BY <1>4, <2>1, <2>2, <2>3, <2>4 DEF measured, Leave
<1>5. CASE measure_threw
  BY <1>5 DEF measure_threw, AfterException, Blamed, PendingKnown
<1>6. CASE checked
  <2>1. /\ stage = "shortcuts" /\ code = Undecided /\ (CallBad <=> result # "returned")
        /\ failed = {} /\ mpc # "threw"
        /\ ~ CallBad' /\ result' = "none" /\ outcome' = "running"
        /\ UNCHANGED <<measuring, lib, loaded, region, blame>>
    BY <1>6, Answers, NewCall DEF checked, Leave, CallBad, PendingKnown
  <2>2. Blamed'
    BY <1>6, <2>1 DEF checked, Leave, Blamed, measuring, master, worker
  <2>3. PendingKnown'
    BY <1>6, <2>1 DEF checked, Leave, PendingKnown, measuring, master, worker
  <2>4. Progress' /\ checks' \in Nat
    BY <1>6, <2>1 DEF checked, Leave, Progress
  <2> QED
    BY <1>6, <2>1, <2>2, <2>3, <2>4 DEF checked, Leave
<1>7. CASE destroyed
  <2>1. CASE result = "returned"
    <3>1. CallOver'
      BY <1>7, <2>1, Answers DEF destroyed, CallOver, CallBad, bounded
    <3> QED
      BY <1>7, <2>1, <3>1 DEF destroyed, Blamed, PendingKnown, Progress, CallBad, bounded,
                              measuring, master, worker
  <2>2. CASE result # "returned"
    <3>1. result \in {"overrun", "unstarted"} /\ mpc # "threw"
      BY <1>7, <2>2, Answers DEF destroyed, PendingKnown
    <3> QED
      BY <1>7, <2>2, <3>1 DEF destroyed, Blamed
  <2> QED
    BY <2>1, <2>2
<1>8. CASE unload
  BY <1>8 DEF unload, Blamed, PendingKnown, Progress, CallOver, CallBad, bounded, measuring,
              master, worker
<1>9. CASE next_library
  <2>1. CASE code = Undecided /\ lib < Libraries
    BY <1>9, <2>1 DEF next_library, Blamed, PendingKnown, Progress, CallOver, CallBad, bounded,
                      measuring, master, worker
  <2>2. CASE ~ (code = Undecided /\ lib < Libraries)
    BY <1>9, <2>2 DEF next_library, Blamed, PendingKnown, Progress, CallOver
  <2> QED
    BY <2>1, <2>2
<1> QED
  BY <1>1, <1>2, <1>3, <1>4, <1>5, <1>6, <1>7, <1>8, <1>9 DEF Main

\* Main leaves the process at once.
LEMMA FailuresHonest ==
    ASSUME ExitInv, Failures
    PROVE  ExitInv'
<1>1. CASE load_fails
  BY <1>1 DEF load_fails, Blame, Fatal, ExitInv, ExitCodeHonest, Blamed, PendingKnown, CallOver,
              Undecided, Terminated
<1>2. CASE job_terminates \/ check_terminates
  <2>1. PICK why \in Fatal : Terminate(why)
    BY <1>2 DEF job_terminates, check_terminates, Fatal
  <2> QED
    BY <2>1 DEF Terminate, Blame, ExitInv, ExitCodeHonest, Undecided, Terminated
<1> QED
  BY <1>1, <1>2 DEF Failures

\* measure blames whoever fails in it.
LEMMA MeasureHonest ==
    ASSUME ExitInv, LifeInv,
           MasterStep \/ OverrunStep \/ CreateFails \/ \E w \in Workers : WorkerStep(w)
    PROVE  ExitInv'
<1> USE DEF outside
<1>1. stage = "measure"
  <2>1. ASSUME NEW w \in Workers, WorkerStep(w) PROVE stage = "measure"
    <3>1. stage # "exit" /\ ~ Quiet(w)
      BY <2>1 DEF WorkerStep, Worker, At, Quiet, see_wait, see_quit, ready, reset, run, spin,
                  job_ok, job_error, job_throws, set_errmsg, set_abort, count, clear, settle,
                  runtime_stop, raise
    <3> QED
      BY <3>1 DEF LifeInv
  <2> QED
    BY <2>1 DEF MasterStep, OverrunStep, CreateFails
<1>2. UNCHANGED <<bounded, outside>>
  BY DEF MasterStep, OverrunStep, CreateFails, WorkerStep, main
<1>3. CASE MasterStep
  <2>1. mpc # "threw" /\ mpc' # "threw" /\ failed' = failed /\ blame' = blame
    BY <1>3 DEF MasterStep, Master, create, master_notify, runtime_start, latch_wait, judge,
                master_join, joined, worker, main
  <2>2. Blamed'
    BY <1>1, <1>2, <2>1 DEF ExitInv, Blamed, CallBad, bounded
  <2> QED
    BY <1>1, <1>2, <2>1, <2>2
    DEF ExitInv, ExitCodeHonest, PendingKnown, Progress, CallOver, CallBad, bounded
<1>4. CASE OverrunStep \/ CreateFails
  <2>1. mpc' = "threw" /\ (Blame("overtime") \/ Blame("threads"))
    BY <1>4 DEF OverrunStep, CreateFails, latch_overtime, create_fails
  <2>2. Blamed'
    BY <1>1, <1>2, <2>1 DEF Fatal, ExitInv, PendingKnown, Blamed, Blame, CallOver, CallBad, bounded
  <2> QED
    BY <1>1, <1>2, <2>1, <2>2
    DEF ExitInv, ExitCodeHonest, PendingKnown, Progress, CallOver, CallBad, bounded
<1>5. ASSUME NEW w \in Workers, WorkerStep(w) PROVE ExitInv'
  <2>1. mpc' = mpc
    BY <1>5 DEF WorkerStep, Worker, see_wait, see_quit, ready, reset, run, spin,
                job_ok, job_error, job_throws, set_errmsg, set_abort, count, clear, settle,
                runtime_stop, raise, master
  <2>2. failed' = failed \/ failed' # {}
    BY <1>5 DEF WorkerStep, Worker, see_wait, see_quit, ready, reset, run, spin,
                job_ok, job_error, job_throws, set_errmsg, set_abort, count, clear, settle,
                runtime_stop, raise
  <2>3. IF failed' # failed THEN Blame("job") ELSE blame' = blame
    BY <1>5 DEF WorkerStep, Noting
  <2>4. Blamed'
    BY <1>1, <1>2, <2>1, <2>2, <2>3 DEF Fatal, ExitInv, PendingKnown, Blamed, Blame, CallBad, bounded
  <2> QED
    BY <1>1, <1>2, <2>1, <2>4
    DEF ExitInv, ExitCodeHonest, PendingKnown, Progress, CallOver, CallBad, bounded
<1> QED
  BY <1>3, <1>4, <1>5

\* bounded_run blames its function, which main has not heard of yet.
LEMMA CallHonest ==
    ASSUME CallInv, ExitInv, CallStep \/ RunnerStep \/ FunctionStep
    PROVE  ExitInv'
<1>1. stage # "exit" /\ UNCHANGED <<measuring, outside>>
  BY DEF CallStep, RunnerStep, FunctionStep, main, outside
<1>2. CASE RunnerStep
  <2>1. runner \notin {"unborn", "ended"} /\ UNCHANGED <<result, outcome, blame>>
    BY <1>2 DEF RunnerStep, Runner, runner_lock, notify_all, runner_unlock, main
  <2> QED
    BY <1>1, <2>1 DEF ExitInv, ExitCodeHonest, Blamed, PendingKnown, Progress, CallOver, CallBad,
                      outside, measuring, master, worker
<1>3. CASE CallStep
  <2>1. caller # "out" /\ result = "none" /\ UNCHANGED outcome
    BY <1>3 DEF CallStep, Waiting, spawn_fails, spurious_wakeup, guard, spawn,
                wait_for, elapse, Overdue, relock, detach, join, CallInv, RunnerBehind
  <2>2. ASSUME ~ CallFails PROVE Blamed'
    BY <1>1, <1>3, <2>1, <2>2 DEF CallStep, Noting, CallFails, ExitInv, Blamed, CallBad, outside,
                                  measuring, master, worker
  <2>3. ASSUME CallFails PROVE Blamed'
    <3>1. Blame(IF stage = "destroy" THEN "destructor" ELSE result')
      BY <1>3, <2>3 DEF CallStep, Noting
    <3>2. blame' \cap Fatal # {} <=> stage = "destroy"
      BY <2>1, <2>3, <3>1, <1>1 DEF CallFails, Blame, Fatal, ExitInv, Blamed
    <3>3. blame' # {} /\ (blame' \cap {"overtime", "threads"} = blame \cap {"overtime", "threads"})
      BY <2>3, <3>1 DEF CallFails, Blame
    <3> QED
      BY <1>1, <2>1, <2>3, <3>2, <3>3
      DEF CallFails, ExitInv, Blamed, CallBad, outside, measuring, master, worker
  <2>4. Blamed'
    BY <2>2, <2>3
  <2> QED
    BY <1>1, <2>1, <2>4 DEF ExitInv, ExitCodeHonest, PendingKnown, Progress, CallOver,
                            outside, measuring, master, worker
<1>4. CASE FunctionStep
  <2>1. IF outcome' = "threw" THEN Blame("func") ELSE blame' = blame
    BY <1>4 DEF FunctionStep, Noting
  <2>2. CASE stray_ends
    <3>1. UNCHANGED <<caller, runner, result, outcome>>
      BY <2>2 DEF stray_ends
    <3>2. Blamed'
      BY <1>1, <2>1, <3>1
      DEF Fatal, ExitInv, Blamed, Blame, CallBad, outside, measuring, master, worker
    <3> QED
      BY <1>1, <3>1, <3>2 DEF ExitInv, ExitCodeHonest, PendingKnown, Progress, CallOver, CallBad,
                              outside, measuring, master, worker
  <2>3. CASE func_returns \/ func_throws
    <3>1. /\ runner = "func" /\ outcome = "running" /\ UNCHANGED result
          /\ stage = "destroy" => outcome' # "threw"
      BY <1>4, <2>3 DEF FunctionStep, func_returns, func_throws, CallInv, OutcomeKept
    <3>2. Blamed'
      BY <1>1, <2>1, <3>1
      DEF Fatal, ExitInv, Blamed, Blame, CallBad, outside, measuring, master, worker
    <3> QED
      BY <1>1, <3>1, <3>2 DEF ExitInv, ExitCodeHonest, PendingKnown, Progress, CallOver,
                              outside, measuring, master, worker
  <2> QED
    BY <1>4, <2>2, <2>3 DEF FunctionStep
<1> QED
  BY <1>2, <1>3, <1>4

LEMMA ExitInvariance == Spec => []ExitInv
<1>1. Init => ExitInv
  BY GraderConstantsOk
  DEF Init, MeasureInit, BoundedInit, ExitInv, Blamed, PendingKnown, Progress, CallOver, CallBad,
      ExitCodeHonest, Undecided
<1>2. CallInv /\ LifeInv /\ PhaseInv /\ ExitInv /\ [Next]_vars => ExitInv'
  <2>1. ASSUME ExitInv, UNCHANGED vars PROVE ExitInv'
    BY <2>1 DEF vars, measuring, bounded, main, master, worker, ExitInv, ExitCodeHonest, Blamed,
                PendingKnown, Progress, CallOver, CallBad
  <2> QED
    BY <2>1, MainHonest, FailuresHonest, MeasureHonest, CallHonest DEF Next, Failures
<1> QED
  BY <1>1, <1>2, CallInvariance, LifeInvariance, PhaseInvariance, PTL DEF Spec

\* grading.cpp:534-604: whatever fails, in whichever library, phase or call of
\* bounded_run, the exit code says so, 0 means that nothing did, and the process
\* terminates if and only if bounded_run throws in the region's destructor (an
\* overrun, or no thread), a check's region does, or a transaction retries while
\* the stack is unwound.
THEOREM ExitCodeTrue == Spec => []ExitCodeHonest
<1>1. ExitInv => ExitCodeHonest
  BY DEF ExitInv
<1> QED
  BY <1>1, ExitInvariance, PTL
=============================================================================
