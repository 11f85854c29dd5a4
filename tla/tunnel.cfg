SPECIFICATION FairSpec
CONSTANTS
    Faults = TRUE
    MaxSent = 3
CHECK_DEADLOCK FALSE
INVARIANTS NothingAltered CompletesOnlyAtEnd
PROPERTIES BytesArrive EndsWhenClosed
