SPECIFICATION TruncSpec
CONSTANTS
    t1 = t1
    t2 = t2
    t3 = t3
    a = a
    b = b
    None = None
    Threads = {t1, t2}
    Instances = {a, b}
    InstanceOf <- OneEach
    Batch = {}
    BatchSize = 2
    Data = {"x", "y"}
    MaxEntries = 3
INVARIANTS
    TruncationRefused
