SPECIFICATION FairSpec
CONSTANTS
    Handle = {h1, h2}
    Entry = {e1}
    MaxId = 2
    WriteBatchLimit = 1
    CleanBatchLimit = 1
    None = None
PROPERTIES
    LockReleased
