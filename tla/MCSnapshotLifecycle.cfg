SPECIFICATION Spec
CONSTANTS
    Handle = {h1, h2}
    Entry = {e1, e2}
    MaxId = 2
    WriteBatchLimit = 2
    CleanBatchLimit = 1
    None = None
SYMMETRY HandleEntrySymmetry
INVARIANTS
    IndInv
    CompleteIsWhole
    LiveSnapshotUntouched
    RestoreReadsStable
    RecoveryReachesCleanState
PROPERTIES
    ImplementsVault
