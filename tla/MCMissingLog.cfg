SPECIFICATION Spec
CONSTANTS
    Paths = {p1, p2, p3}
    Tasks = {t1, t2}
    MaxTracked = 2
    SummarySize = 1
    AlertFrom = 2
    Cooldown = 2
    MaxTime = 3
SYMMETRY Alike
INVARIANTS
    SummaryIsLatest
    EachLoggedOnce
    MissesAreCounted
