SPECIFICATION Spec
CONSTANTS
    Requests = {r1, r2, r3, r4, r5}
    Threshold = 2
    Recovery = 1
    MaxTime = 4
    MaxResets = 1
SYMMETRY Symmetry
INVARIANTS
    TypeOK
PROPERTIES
    ProbeWaitsForQuiet
    OneProbeUnlessOvertaken
    ImplementsProtocol
CHECK_DEADLOCK FALSE
