SPECIFICATION Spec
CONSTANTS
    Worker = {w1, w2}
    Entry = {f1, d1}
    File = {f1}
    JobCapacity = 1
    ResultCapacity = 1
    BatchLimit = 2
    AttemptCount = 2
    MaxFault = 1
    None = None
SYMMETRY WorkerSymmetry
CHECK_DEADLOCK FALSE
INVARIANTS
    PipelineInv
    PublishedIsWhole
    RootCauseReported
    NobodyStuck
