SPECIFICATION Spec
CONSTANTS
    Requests = {r1, r2}
    Cancels = {}
    Workers = {w1}
    Keys = {k1, k2}
    Seats = {s1}
    UnknownSeats = {}
    None = None
    Hold = 1
    LockTtl = 2
    ShowTime = 4
    MaxSeats = 2
    BatchSize = 1
    MaxTime = 3
    MaxFaults = 0
SYMMETRY Symmetry
PROPERTIES
    WorkerReleasesOwnSeats
CHECK_DEADLOCK FALSE
