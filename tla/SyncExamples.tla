---------------------------- MODULE SyncExamples ----------------------------
(***************************************************************************)
(* The programs of sync-examples/ and playground/, one per behaviour: the  *)
(* program is chosen in the initial state, and only its variables change.  *)
(***************************************************************************)
EXTENDS Naturals, FiniteSets

CONSTANTS
    Threads, RUNS,                               \* of counters and elections
    producer, consumer, Items, BUFFER_SIZE,      \* Items: the RUNS of procon1 to 4
    MaxSpurious, NoOne

ASSUME ExampleConstantsOk ==
    /\ IsFiniteSet(Threads) /\ Threads # {} /\ producer # consumer
    /\ NoOne \notin Threads \cup {producer, consumer}
    /\ RUNS \in Nat \ {0} /\ Items \in Nat \ {0} /\ BUFFER_SIZE \in Nat \ {0} /\ MaxSpurious \in Nat

VARIABLES
    program, pc, round, mutex, asleep, verdict,  \* of every program
    counter, local, check_counter,               \* of the counters
    leader, nb_leaders,                          \* of the elections
    buffer, produced_until, consumed_until,      \* of the producer-consumers
    consumed, published, known, spurious

C == INSTANCE Counter
E == INSTANCE Election
P == INSTANCE ProCon WITH RUNS <- Items

counting == <<counter, local, check_counter>>
electing == <<leader, nb_leaders>>
producing == <<buffer, produced_until, consumed_until, consumed, published, known, spurious>>
vars == <<program, pc, round, mutex, asleep, verdict, counting, electing, producing>>

Init ==
    /\ C!Init \/ E!Init \/ P!Init
    /\ C!Fresh /\ E!Fresh /\ P!Fresh

Counts == C!Next /\ UNCHANGED <<electing, producing>>

Elects == E!Next /\ UNCHANGED <<counting, producing>>

Produces == P!Next /\ UNCHANGED <<counting, electing>>

Finished == verdict # "none" /\ UNCHANGED vars

Next == Counts \/ Elects \/ Produces \/ Finished

Spec == Init /\ [][Next]_vars

\* The next step of one thread; every step moves one, or is main's.
Moves(t) == Next /\ t \in DOMAIN pc /\ (pc'[t] # pc[t] \/ round'[t] # round[t])

Compares == Next /\ verdict' # verdict

\* Every thread that can run does.  The mutex is not fair: a thread that waits
\* for it may be overtaken again and again.
FairSpec ==
    /\ Spec /\ WF_vars(Compares)
    /\ \A t \in Threads \cup {producer, consumer} : WF_vars(Moves(t))

-----------------------------------------------------------------------------

CountsRight == program \in C!Programs => C!CountsRight

OneLeader == program \in E!Programs => E!OneLeader

HandedOver == program \in P!Programs => P!HandedOver

Ordered == program \in P!Programs => P!Ordered

\* procon3.c:35-36, see ProCon.
OverwritesOrdered == program \in P!Programs => P!OverwritesOrdered

\* Every program ends: no wake-up is lost and nobody waits for the other for
\* ever.  procon2 is excepted: one thread may take and release the mutex in its
\* busy loop while the other one, which has work to do, never gets it.
Finishes == <>(program = "procon2" \/ verdict # "none")
=============================================================================
