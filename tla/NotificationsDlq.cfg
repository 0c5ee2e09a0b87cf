SPECIFICATION Spec
CONSTANTS
    booked = booked
    reminded = reminded
    Messages = {booked}
    Kind <- OneEmail
    MaxRetries = 3
    MaxChannels = 1
    MaxFaults = 4
INVARIANTS
    DeadLetteredAfterRetries
CHECK_DEADLOCK FALSE
