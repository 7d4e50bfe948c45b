SPECIFICATION Spec
CONSTANTS
    architect = architect
    developer = developer
    tester = tester
    security = security
    devops = devops
    reviewer = reviewer
    Steps = {architect, developer, tester, security, devops, reviewer}
    Deps <- Uses
    Pos <- Order
    Mode <- Modes
    Acceptance <- Checks
    InitialStatus <- Fresh
    Gates = {"off", "shadow", "active"}
    Workers = 2
    RequiresCode = TRUE
    Implementers = {developer}
    NeedsOutput <- Chats
CHECK_DEADLOCK FALSE
INVARIANT InputUsable
INVARIANT CompletedMeansAll
PROPERTY SpendContained
PROPERTY RunEnds
PROPERTY ImplementsContract
