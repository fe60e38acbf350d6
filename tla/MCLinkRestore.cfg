SPECIFICATION Spec
CONSTANTS
    d1 = d1
    p1 = p1
    p2 = p2
    p3 = p3
    Nobody = Nobody
    Process <- ThreeProcesses
    Destination <- OneLink
    LinksPer = 1
    MaxAttempts = 2
CHECK_DEADLOCK FALSE
INVARIANTS
    LinkHasSavedTarget
