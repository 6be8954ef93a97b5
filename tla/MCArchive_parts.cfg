SPECIFICATION ArchiveSpec
CONSTANTS
    None = None
    NotAnObject = NotAnObject
    Genuine = Genuine
    Keys <- TrailKeys
    AlgOf <- TrailAlgOf
    Templates <- TrailTemplates
    Exports <- TrailExports
    Deleter = "deleter"
    AnchorHosts <- TrailAnchorHosts
    MaxOmega = 2
    MaxWork = 4
    Junk = Junk
    PackLists <- RecordPacks
    HashBytes <- RecordHashes
    RecordHosts <- RecordOn
    MaxEntries = 3
    MaxDamage = 1
    t1 = t1
    t2 = t2
    object = object
    Contents = {"x", "y"}
    MaxLeaves = 7
    Parts = {"trail", "record", "registry", "agents", "cut", "tree"}
    Classes = {"sev", "new", "none"}
    Services = {"kds", "svc1", "svc2"}
    Baseline <- ChipBaseline
    Untrusted = {"none"}
    Updates <- ChipUpdates
    Signers = {"curator", "stranger"}
    Trusted = {"curator"}
    MaxWrites = 4
    MaxSources = 2
    Threads = {t1, t2}
    Instances = {"a", "b"}
    InstanceOf <- LogInstanceOf
    Registered = {"a"}
    MaxLog = 2
INVARIANTS
    TrailTypeOK
    VerdictIsExact
    AlterationIsFound
    EpochVerdictIsExact
    ProofsFit
    NotRunIsNoVerdict
    RecordVerdictIsExact
    OnlyTrustedUpdates
    ServicesFollowSources
    AttestationsHold
    PacksBracket
    TruncationRefused
CHECK_DEADLOCK FALSE
