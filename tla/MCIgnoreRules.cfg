SPECIFICATION FairSpec
CONSTANTS
    Cases <- NameAndPathCases
    Sensitivity <- BothCases
CHECK_DEADLOCK FALSE
INVARIANTS
    MatchIsExact
PROPERTIES
    MatchEnds
