SPECIFICATION Spec
CONSTANTS
    a = a
    b = b
    x = x
    y = y
    None = None
    Instances = {a}
    Batch = {}
    BatchSize = 2
    Faults = {"crash"}
    Data = {x, y}
    MaxPieces <- Pieces
SYMMETRY DataSymmetry
INVARIANTS
    ReturnedIsALine
