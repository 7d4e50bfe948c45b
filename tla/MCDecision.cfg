SPECIFICATION Spec
CONSTANTS
    Callers = {c1, c2, c3}
    MayRaise = TRUE
    MaxCalls = 6
    MaxCrashes = 2
SYMMETRY AnyCaller
CHECK_DEADLOCK FALSE
INVARIANT TypeOK
INVARIANT RecordsAgree
INVARIANT ApprovedFirst
INVARIANT ActsOnce
INVARIANT OneEvent
PROPERTY ImplementsContract
