SPECIFICATION CheckSpec
CONSTANTS
    t0 = t0
    t1 = t1
    t2 = t2
    Threads = {t0, t1, t2}
    Zero = t0
    Rounds = 3
    NbTx = 2
INVARIANTS
    Separates
    NoFalseAlarm
    Detects
PROPERTIES
    AllReturn
