SPECIFICATION Spec
CONSTANTS
    d = d
    f = f
    l = l
    Name = {d, f, l}
    Path <- Tree
    Entry <- Tree
    TypeOf <- TreeType
    Chunks <- TreeChunks
    Requests <- SomeRequests
    MaxOutside = 4
INVARIANTS
    IndInv
    ResultIsTrue
    MetadataLast
    SkippedSubtreeUntouched
    LeftoversNamed
PROPERTIES
    UserDataKept
CHECK_DEADLOCK FALSE
