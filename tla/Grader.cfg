SPECIFICATION FairSpec
CONSTANTS
    w1 = w1
    w2 = w2
    w3 = w3
    Workers = {w1, w2, w3}
    Phases = 3
    Libraries = 2
    Checks = 2
INVARIANTS
    PhasesSeparate
    FailureReported
    ResultFaithful
    LibraryOutlivesWorkers
    ExitCodeHonest
PROPERTIES
    Ends
