SPECIFICATION Spec
CONSTANTS
    t1 = t1
    t2 = t2
    x = x
    y = y
    s1 = s1
    s2 = s2
    k = k
    None = None
    FirstSeg = FirstSeg
    Threads = {t1, t2}
    Words = {x, y}
    Segs = {}
    LockIds = {x, y}
    LockOf <- LockPerAddr
    Kinds = {FALSE}
    MaxAttempts <- OneAndTwo
CONSTRAINTS OneWrite FirstListed
SYMMETRY WordSymmetry
INVARIANTS
    UpdatesSerializable
    UnlockedIsCurrent
