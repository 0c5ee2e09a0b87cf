SPECIFICATION FairSpec
CONSTANTS
    c1 = c1
    c2 = c2
    c3 = c3
    show = show
    booking = booking
    Connections = {c1, c2, c3}
    Services = {show, booking}
    Target <- OneShared
    Guarded = {booking}
    Threshold = 1
    MaxRetries = 0
    MaxFaults = 2
INVARIANTS
    TypeOK
PROPERTIES
    OnlyOutagesSkipTheBlacklist
    EveryRequestEnds
    BreakersRecover
