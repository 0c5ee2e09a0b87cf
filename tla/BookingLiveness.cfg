SPECIFICATION FairSpec
CONSTANTS
    Requests = {r1, r2}
    Cancels = {}
    Workers = {w1}
    Keys = {k1, k2}
    Seats = {s1}
    UnknownSeats = {u1}
    None = None
    Hold = 1
    LockTtl = 2
    ShowTime = 3
    MaxSeats = 1
    BatchSize = 1
    MaxTime = 3
    MaxFaults = 1
PROPERTIES
    LapsedBookingEnds
    LockComesFree
CHECK_DEADLOCK FALSE
