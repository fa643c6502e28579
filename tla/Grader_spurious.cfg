SPECIFICATION FairSpec
CONSTANTS
    w1 = w1
    w2 = w2
    w3 = w3
    Workers = {w1, w2}
    Phases = 3
    Libraries = 2
    Checks = 2
PROPERTIES
    AlwaysEnds
