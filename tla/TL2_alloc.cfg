SPECIFICATION Spec
CONSTANTS
    t1 = t1
    t2 = t2
    x = x
    y = y
    s1 = s1
    s2 = s2
    k = k
    None = None
    FirstSeg = FirstSeg
    Threads = {t1, t2}
    Words = {}
    Segs = {s1, s2}
    LockIds = {k}
    LockOf <- LockShared
    Kinds = {FALSE}
    MaxAttempts <- OneAndTwo
CONSTRAINTS OneWrite OneRead OneFailure
SYMMETRY SegSymmetry
INVARIANTS
    MemorySafe
    SegmentsReclaimed
    SoloCommits
