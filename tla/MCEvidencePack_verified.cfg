SPECIFICATION Spec
CONSTANTS
    Bodies = {v1, v2, v3}
    Scoped = {v1, v2}
    Keys = {k1}
    PqKeys = {q1, q2}
    Hosts = {{}, {"known", "other"}}
    Producers = {p1, p2}
    Absent = Absent
    Bad = Bad
    Unread = Unread
    None = None
    MaxOps = 4
    MaxAlterations = 1
SYMMETRY Symmetry
INVARIANTS
    AuthenticatedIsSigned
    PassIsEarned
    AbsenceNeverDecides
    FaultIsNoFinding
    HealthyPasses
CHECK_DEADLOCK FALSE
