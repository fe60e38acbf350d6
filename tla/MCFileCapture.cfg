CONSTANTS
    f = f
    g = g
    l = l
    NoFile = NoFile
    Regular <- TwoFiles
    Link <- OneLink
    MaxBlocks = 2
    ChunkBlocks = 1
    ClockSteps <- FineClock
    Swaps = TRUE
    MaxChanges = 3
SYMMETRY FileSymmetry
SPECIFICATION Spec
INVARIANTS
    CaptureInv
    StableReadIsOneVersion
    CapturedIsRestorable
CHECK_DEADLOCK FALSE
