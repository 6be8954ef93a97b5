SPECIFICATION FairSpec
CONSTANTS
    Length = 5
    Held = 3
    BufSize = 2
    PipeSize = 3
INVARIANTS
    IInv
    ReceiptInOrder
    VerdictMeansWritten
    GivesUpOnlyWhenBroken
PROPERTIES
    Ends
CHECK_DEADLOCK FALSE
