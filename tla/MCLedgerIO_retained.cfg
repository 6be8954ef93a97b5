SPECIFICATION Spec
CONSTANTS
    a = a
    b = b
    x = x
    y = y
    None = None
    Instances = {b}
    Batch = {b}
    BatchSize = 2
    Faults = {"nospace"}
    Data = {x, y}
    MaxPieces <- Pieces
SYMMETRY DataSymmetry
INVARIANTS
    WholeLinesChain
CHECK_DEADLOCK FALSE
