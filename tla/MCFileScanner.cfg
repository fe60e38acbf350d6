SPECIFICATION Spec
CONSTANTS
    Name = {"x", "y", "z"}
    BadName <- NameZ
    Depth = 2
    Tree <- Trees
    Change <- Changes
    IgnoredAny <- OnlyXX
    IgnoredDirectory <- OnlyXY
    MaxChanges = 1
CHECK_DEADLOCK FALSE
INVARIANTS
    ScanInv
    NothingLost
