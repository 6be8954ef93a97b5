SPECIFICATION Spec
CONSTANTS
    Length = 1
    Held = 3
    BufSize = 2
    PipeSize = 2
INVARIANTS
    CallersTextToo
CHECK_DEADLOCK FALSE
