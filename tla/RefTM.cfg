SPECIFICATION Spec
CONSTANTS
    t1 = t1
    t2 = t2
    w1 = w1
    s1 = s1
    s2 = s2
    s3 = s3
    zero = zero
    one = one
    None = None
    Threads = {t1, t2}
    Words = {w1}
    Segments = {s1, s2, s3}
    Values = {zero, one}
    Zero = zero
SYMMETRY TwoSymmetries
INVARIANTS
    Exclusion
    ListIntact
PROPERTIES
    ImplementsSerial
