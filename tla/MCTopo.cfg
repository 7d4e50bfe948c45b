SPECIFICATION Spec
CONSTANTS
    Ids <- ThreeIds
    MaxRepeats = 2
CHECK_DEADLOCK FALSE
INVARIANTS
    Accounting
    RespectsDependencies
    VerdictExact
PROPERTY Ends
