SPECIFICATION FairSpec
CONSTANTS
    o1 = o1
    o2 = o2
    a1 = a1
    a2 = a2
    Orders = {o1, o2}
    Bookings = {b1}
    Verifications = {v1}
    Refunds = {f1}
    Attempts = {a1, a2}
    AttemptsAt <- TwoAndOne
    None = None
    MaxFaults = 1
INVARIANTS
    TypeOK
    MoneyBehindStatus
    RefundBehindStatus
    DoubleOrderIsExplained
PROPERTIES
    PaidIsAnnounced
CHECK_DEADLOCK FALSE
