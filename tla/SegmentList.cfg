SPECIFICATION Spec
CONSTANTS
    t1 = t1
    t2 = t2
    n1 = n1
    n2 = n2
    n3 = n3
    d1 = d1
    d2 = d2
    d3 = d3
    Null = Null
    Region = Region
    Threads = {t1, t2}
    Nodes = {n1, n2, n3}
    Data = {d1, d2, d3}
    MaxCalls = 4
SYMMETRY FullSymmetry
INVARIANTS
    LockExclusive
    ListsIntact
    NodesAccounted
PROPERTIES
    ImplementsSequences
