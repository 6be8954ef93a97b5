SPECIFICATION Spec
CONSTANTS
    a = a
    b = b
    x = x
    y = y
    None = None
    Instances = {a, b}
    Batch = {b}
    BatchSize = 2
    Faults = {"crash", "nospace", "nosync"}
    Data = {x, y}
    MaxPieces <- Pieces
SYMMETRY DataSymmetry
INVARIANTS
    TypeOK
    VerifiedMeansComplete
    LoaderAgreesWithVerify
    SnapshotsAreWhole
