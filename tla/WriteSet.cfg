SPECIFICATION Spec
CONSTANTS
    k1 = k1
    k2 = k2
    k3 = k3
    k4 = k4
    NoKey = NoKey
    Keys = {k1, k2, k3, k4}
    Hashes = {0, 1, 2, 3, 5}
    InitialLength = 2
    GrowthFactor = 2
    MaxWrites = 5
SYMMETRY KeySymmetry
INVARIANTS
    ReadsOwnWrites
    VisitsOnce
    AllOrNothing
