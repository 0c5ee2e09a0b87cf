SPECIFICATION Spec
CONSTANTS
    Requests = {r1, r2, r3}
    Cancels = {}
    Workers = {w1}
    Keys = {k1, k2}
    Seats = {s1, s2}
    UnknownSeats = {}
    None = None
    Hold = 1
    LockTtl = 2
    ShowTime = 3
    MaxSeats = 2
    BatchSize = 1
    MaxTime = 2
    MaxFaults = 0
SYMMETRY Symmetry
INVARIANTS
    TypeOK
    OneBookingPerKey
PROPERTIES
    LiveHoldNotTaken
    LockReleasedByOwner
    ImplementsSeatHolds
CHECK_DEADLOCK FALSE
