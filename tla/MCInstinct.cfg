SPECIFICATION Spec
CONSTANTS
    pass = pass
    review = review
    rollback = rollback
    retry = retry
    north = north
    south = south
    Callers = {c, d}
    Ids = {id}
    Evidence = {pass, review, rollback, retry}
    Kind <- Kinds
    Project <- Projects
    Nothing = Nothing
    MaxCalls = 6
    Mortal = {c}
CHECK_DEADLOCK FALSE
INVARIANT Governed
INVARIANT Earned
PROPERTY Durable
