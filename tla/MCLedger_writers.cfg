SPECIFICATION FairSpec
CONSTANTS
    t1 = t1
    t2 = t2
    t3 = t3
    a = a
    b = b
    None = None
    Threads = {t1, t2, t3}
    Instances = {a, b}
    InstanceOf <- SharedAndOther
    Batch = {a}
    BatchSize = 2
    Data = {"x"}
    MaxEntries = 2
INVARIANTS
    IInv
    ChainValid
    ReturnedIsOnFile
    SyncIsDurable
    NothingPendingNothingAtRisk
    WindowPerWriter
PROPERTIES
    ImplementsDurableLog
    AppendEnds
