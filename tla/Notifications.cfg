SPECIFICATION FairSpec
CONSTANTS
    booked = booked
    reminded = reminded
    Messages = {booked, reminded}
    Kind <- OneOfEach
    MaxRetries = 3
    MaxChannels = 2
    MaxFaults = 2
INVARIANTS
    TypeOK
    SentOncePerChannel
PROPERTIES
    OnlyStaleHandlersMislead
    DeliversAtLeastOnce
    QueuesDrain
CHECK_DEADLOCK FALSE
