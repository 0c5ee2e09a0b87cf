SPECIFICATION Spec
CONSTANTS
    Requests = {r1, r2}
    Cancels = {c1, c2}
    Workers = {w1}
    Keys = {k1, k2}
    Seats = {s1}
    UnknownSeats = {u1}
    None = None
    Hold = 1
    LockTtl = 2
    ShowTime = 4
    MaxSeats = 1
    BatchSize = 2
    MaxTime = 3
    MaxFaults = 1
SYMMETRY Symmetry
INVARIANTS
    LiveBookingHoldsItsSeats
    SeatsAreAccountedFor
    SeatCountAccurate
    EventsAreTrue
CHECK_DEADLOCK FALSE
