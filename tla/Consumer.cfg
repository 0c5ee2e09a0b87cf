SPECIFICATION FairSpec
CONSTANTS
    Members = {k1, k2}
    MaxRetries = 2
    MaxLog = 3
    MaxFaults = 2
    None = None
INVARIANTS
    TypeOK
PROPERTIES
    NeverRewinds
    DeliversAtLeastOnce
    EveryMessageTried
CHECK_DEADLOCK FALSE
