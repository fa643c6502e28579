SPECIFICATION Spec
CONSTANTS
    t1 = t1
    t2 = t2
    Workers = {t1, t2}
    Faults = {"refusal", "nomem", "begin"}
    nbaccounts = 2
    init_balance = 1
    nbtxperwrk = 2
    Triggers = {0, 3}
SYMMETRY WorkerSymmetry
INVARIANTS
    MoneyConserved
    ChainFull
    CommittedOnce
