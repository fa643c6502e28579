----------------------------- MODULE GradingSync -----------------------------
(***************************************************************************)
(* The grader's synchronisation: class Sync and function measure of        *)
(* grading/grading.cpp with the Latch and the Chrono of                    *)
(* grading/common.hpp.  The master runs a sequence of phases (init, the    *)
(* repetitions, check); in each, every worker executes one job.  One step  *)
(* is one access to an atomic or one critical section of the latch.        *)
(***************************************************************************)
EXTENDS Naturals, FiniteSets

CONSTANTS
    Workers,
    Phases     \* how many phases measure runs: nbrepeats + 2

ASSUME GradingConstantsOk ==
    /\ IsFiniteSet(Workers) /\ Workers # {}
    /\ Phases \in Nat \ {0}

nbworkers == Cardinality(Workers)

VARIABLES
    status, nbready, errmsg, \* the atomics of Sync
    raised,                  \* the latch
    total, local,            \* the Chrono: phases counted, phase last started
    mpc, phase,              \* the master: where it is, in which phase
    limited,                 \* it waits with a time limit
    verdict,                 \* what measure returned: "none", "ok", "error"
    wpc, job,                \* a worker: where it is, its current phase
    thrown,                  \* workers whose job threw an exception
    failed                   \* history: <<w, p>> when w reported an error in p

master == <<mpc, phase, limited, verdict>>
chrono == <<total, local>>
atomics == <<status, nbready, errmsg, raised>>
worker == <<wpc, job, thrown, failed>>
measuring == <<atomics, chrono, master, worker>>

MeasureInit ==
    /\ status = "Done" /\ nbready = 0 /\ errmsg = FALSE /\ raised = FALSE
    /\ total = {} /\ local = 0
    /\ mpc = "idle" /\ phase = 1 /\ limited = FALSE /\ verdict = "none"
    /\ wpc = [w \in Workers |-> "unborn"]
    /\ job = [w \in Workers |-> 1]
    /\ thrown = {} /\ failed = {}

-----------------------------------------------------------------------------
(* The master: measure. *)

\* A call, with a Sync of its own.
measure(limit) ==
    /\ mpc \in {"idle", "returned"}
    /\ status' = "Done" /\ nbready' = 0 /\ errmsg' = FALSE /\ raised' = FALSE
    /\ total' = {} /\ local' = 0
    /\ mpc' = "create" /\ phase' = 1 /\ limited' = limit /\ verdict' = "none"
    /\ wpc' = [w \in Workers |-> "unborn"]
    /\ job' = [w \in Workers |-> 1]
    /\ thrown' = {} /\ failed' = {}

\* The threads are created one after the other ...
create(w) ==
    /\ mpc = "create" /\ wpc[w] = "unborn"
    /\ wpc' = [wpc EXCEPT ![w] = "wait"]
    /\ mpc' = IF \A u \in Workers \ {w} : wpc[u] # "unborn" THEN "notify" ELSE mpc
    /\ UNCHANGED <<atomics, chrono, phase, limited, verdict, job, thrown, failed>>

\* ... which may fail: those already created are detached and the exception
\* goes on.
create_fails ==
    /\ mpc = "create"
    /\ mpc' = "threw"
    /\ UNCHANGED <<atomics, chrono, phase, limited, verdict, worker>>

\* master_notify, first half
master_notify ==
    /\ mpc = "notify"
    /\ status' = "Wait"
    /\ mpc' = "start"
    /\ UNCHANGED <<nbready, errmsg, raised, chrono, phase, limited, verdict, worker>>

\* ... second half: the clock is started.
runtime_start ==
    /\ mpc = "start"
    /\ local' = phase
    /\ mpc' = "latch"
    /\ UNCHANGED <<atomics, total, phase, limited, verdict, worker>>

\* donelatch.wait: woken and reset.
latch_wait ==
    /\ mpc = "latch" /\ raised
    /\ raised' = FALSE
    /\ mpc' = "judge"
    /\ UNCHANGED <<status, nbready, errmsg, chrono, phase, limited, verdict, worker>>

\* ... or overtime: an exception; the workers are detached and go on until
\* main leaves the process.
latch_overtime ==
    /\ limited /\ mpc = "latch" /\ ~ raised
    /\ mpc' = "threw"
    /\ UNCHANGED <<atomics, chrono, phase, limited, verdict, worker>>

\* master_wait returns; measure goes to the next phase or to its label join.
judge ==
    /\ mpc = "judge"
    /\ CASE status = "Done" ->
              IF phase < Phases
              THEN mpc' = "notify" /\ phase' = phase + 1 /\ UNCHANGED verdict
              ELSE mpc' = "join" /\ verdict' = "ok" /\ UNCHANGED phase
         [] status = "Fail" ->
              mpc' = "join" /\ verdict' = "error" /\ UNCHANGED phase
         [] OTHER -> mpc' = "unreachable" /\ UNCHANGED <<verdict, phase>>
    /\ UNCHANGED <<atomics, chrono, limited, worker>>

master_join ==
    /\ mpc = "join"
    /\ status' = "Quit"
    /\ mpc' = "joining"
    /\ UNCHANGED <<nbready, errmsg, raised, chrono, phase, limited, verdict, worker>>

\* thread::join on every worker
joined ==
    /\ mpc = "joining" /\ \A w \in Workers : wpc[w] = "gone"
    /\ mpc' = "returned"
    /\ UNCHANGED <<atomics, chrono, phase, limited, verdict, worker>>

-----------------------------------------------------------------------------
(* A worker. *)

At(w, l) == wpc[w] = l

Goto(w, l) == wpc' = [wpc EXCEPT ![w] = l]

\* worker_wait: the spin loop sees Wait or Quit.  After the last phase a
\* worker that may proceed throws.
see_wait(w) ==
    /\ At(w, "wait") /\ status = "Wait"
    /\ Goto(w, "ready")
    /\ UNCHANGED <<atomics, chrono, master, job, thrown, failed>>

see_quit(w) ==
    /\ At(w, "wait") /\ status = "Quit"
    /\ Goto(w, "gone")
    /\ UNCHANGED <<atomics, chrono, master, job, thrown, failed>>

\* Mutant of Latest: one worker too early.
Latest_Early == nbready + 1 >= nbworkers - 1

Latest == nbready + 1 = nbworkers

Cleared == 0

\* nbready.fetch_add: the latest worker will switch to run.
ready(w) ==
    /\ At(w, "ready")
    /\ nbready' = nbready + 1
    /\ Goto(w, IF Latest THEN "reset" ELSE "spin")
    /\ UNCHANGED <<status, errmsg, raised, chrono, master, job, thrown, failed>>

reset(w) ==
    /\ At(w, "reset")
    /\ nbready' = Cleared
    /\ Goto(w, "run")
    /\ UNCHANGED <<status, errmsg, raised, chrono, master, job, thrown, failed>>

run(w) ==
    /\ At(w, "run")
    /\ status' = "Run"
    /\ Goto(w, "job")
    /\ UNCHANGED <<nbready, errmsg, raised, chrono, master, job, thrown, failed>>

\* What the others wait for.
Started == status \in {"Run", "Abort"}

spin(w) ==
    /\ At(w, "spin") /\ Started
    /\ Goto(w, "job")
    /\ UNCHANGED <<atomics, chrono, master, job, thrown, failed>>

\* The job of the phase ends well or with a message ...
job_ok(w) ==
    /\ At(w, "job") /\ job[w] <= Phases
    /\ Goto(w, "count")
    /\ UNCHANGED <<atomics, chrono, master, job, thrown, failed>>

job_error(w) ==
    /\ At(w, "job") /\ job[w] <= Phases
    /\ Goto(w, "error")
    /\ failed' = failed \cup {<<w, job[w]>>}
    /\ UNCHANGED <<atomics, chrono, master, job, thrown>>

\* ... or with an exception, as does a phase after the last one.
job_throws(w) ==
    /\ At(w, "job")
    /\ Goto(w, "error")
    /\ failed' = failed \cup {<<w, job[w]>>} /\ thrown' = thrown \cup {w}
    /\ UNCHANGED <<atomics, chrono, master, job>>

\* worker_notify, with an error
set_errmsg(w) ==
    /\ At(w, "error")
    /\ errmsg' = TRUE
    /\ Goto(w, "abort")
    /\ UNCHANGED <<status, nbready, raised, chrono, master, job, thrown, failed>>

set_abort(w) ==
    /\ At(w, "abort")
    /\ status' = "Abort"
    /\ Goto(w, "count")
    /\ UNCHANGED <<nbready, errmsg, raised, chrono, master, job, thrown, failed>>

\* A worker goes on to the next phase, unless its job threw.
NextJob(w) == /\ Goto(w, IF w \in thrown THEN "gone" ELSE "wait")
              /\ job' = [job EXCEPT ![w] = @ + 1]

count(w) ==
    /\ At(w, "count")
    /\ nbready' = nbready + 1
    /\ IF Latest THEN Goto(w, "clear") /\ UNCHANGED job ELSE NextJob(w)
    /\ UNCHANGED <<status, errmsg, raised, chrono, master, thrown, failed>>

clear(w) ==
    /\ At(w, "clear")
    /\ nbready' = Cleared
    /\ Goto(w, "settle")
    /\ UNCHANGED <<status, errmsg, raised, chrono, master, job, thrown, failed>>

\* Mutant of Settled: the latest worker looks at its own result only.
Settled_Done == "Done"

Settled == IF status = "Abort" THEN "Fail" ELSE "Done"

settle(w) ==
    /\ At(w, "settle")
    /\ status' = Settled
    /\ Goto(w, "stop")
    /\ UNCHANGED <<nbready, errmsg, raised, chrono, master, job, thrown, failed>>

\* The time since the last start is added to the total.
runtime_stop(w) ==
    /\ At(w, "stop")
    /\ total' = total \cup {local}
    /\ Goto(w, "raise")
    /\ UNCHANGED <<atomics, local, master, job, thrown, failed>>

raise(w) ==
    /\ At(w, "raise")
    /\ raised' = TRUE
    /\ NextJob(w)
    /\ UNCHANGED <<status, nbready, errmsg, chrono, master, thrown, failed>>

-----------------------------------------------------------------------------

Master ==
    \/ \E w \in Workers : create(w)
    \/ master_notify \/ runtime_start \/ latch_wait \/ judge \/ master_join \/ joined

Exceptions == create_fails \/ latch_overtime

Worker(w) ==
    \/ see_wait(w) \/ see_quit(w) \/ ready(w) \/ reset(w) \/ run(w) \/ spin(w)
    \/ job_ok(w) \/ job_error(w) \/ job_throws(w)
    \/ set_errmsg(w) \/ set_abort(w) \/ count(w) \/ clear(w) \/ settle(w)
    \/ runtime_stop(w) \/ raise(w)

\* A load in one of the spin loops that changes nothing.
Spinning == \E w \in Workers :
    \/ At(w, "wait") /\ status \notin {"Wait", "Quit"}
    \/ At(w, "spin") /\ ~ Started

-----------------------------------------------------------------------------
(* What the synchronisation promises. *)

\* While a worker runs the job of a phase, the master waits for that phase or
\* has given up, and every other worker is in that phase too, or past it and
\* waiting.
PhasesSeparate ==
    \A w \in Workers : At(w, "job") =>
        /\ mpc \in {"start", "latch", "threw"}
        /\ \A u \in Workers : \/ job[u] = job[w]
                              \/ job[u] = job[w] + 1 /\ wpc[u] \in {"wait", "gone"}
        /\ job[w] = phase

\* The master learns of a failure exactly when a worker of this phase failed,
\* however the failure races with workers that start late or finish early.  The
\* exceptions named Unreachable are: the master finds Done or Fail behind the
\* latch, and no worker is let into a phase after the last one.
FailureReported ==
    /\ mpc = "judge" => (status = "Fail" <=> \E w \in Workers : <<w, phase>> \in failed)
    /\ (mpc = "judge" /\ status = "Fail") => errmsg
    /\ verdict = "ok" => failed = {}
    /\ verdict = "error" => failed # {}
    /\ mpc # "unreachable"
    /\ \A w \in Workers : wpc[w] = "job" => job[w] <= Phases

\* grading.cpp:65, "Runtime between 'master_notify' and when the last worker
\* finished": what the master reads is the time of one phase.
RuntimeOfPhase == mpc = "judge" => Cardinality(total) = 1

\* The same comment: the clock that the last worker stops was started in this
\* phase.
StartedBeforeStopped == \A w \in Workers : wpc[w] = "stop" => local = phase
=============================================================================
