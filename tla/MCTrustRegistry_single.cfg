SPECIFICATION Spec
CONSTANTS
    r1 = r1
    r2 = r2
    s1 = s1
    k1 = k1
    k2 = k2
    q1 = q1
    q2 = q2
    None = None
    Registries = {r1}
    Signers = {s1}
    Keys = {k1, k2}
    PqKeys = {q1, q2}
    MaxRecords = 4
SYMMETRY KeySymmetry
INVARIANTS
    TypeOK
    LiveIsReplay
    RevokedStaysRevoked
    TrustedKeyStays
    PqPinStays
    RevokedPqNeedsDecision
