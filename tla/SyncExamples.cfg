SPECIFICATION FairSpec
CONSTANTS
    t1 = t1
    t2 = t2
    t3 = t3
    producer = producer
    consumer = consumer
    NoOne = NoOne
    Threads = {t1, t2, t3}
    RUNS = 2
    Items = 4
    BUFFER_SIZE = 2
    MaxSpurious = 1
INVARIANTS
    CountsRight
    OneLeader
    HandedOver
    Ordered
PROPERTIES
    Finishes
