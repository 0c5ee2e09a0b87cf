SPECIFICATION Spec
CONSTANTS
    Movies = {m1, m2}
    Screens = {s1}
    Calls = {c1, c2}
    Durations = {1, 2}
    Buffer = 1
    MaxTime = 4
    MaxUpdates = 1
    None = None
SYMMETRY Symmetry
INVARIANTS
    TypeOK
    OverlapIsExplained
CHECK_DEADLOCK FALSE
