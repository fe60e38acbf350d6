SPECIFICATION FairSpec
CONSTANTS
    Worker = {w1}
    Sizes = {1}
    MaxEntry = 2
    Second = 1
    MaxTime = 1
    MaxEvents = 8
    MaxOrdinary = 2
CHECK_DEADLOCK FALSE
INVARIANTS
    LimitKept
    EventsConsistent
PROPERTIES
    EventsMonotone
    CallReturns
