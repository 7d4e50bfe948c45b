SPECIFICATION Spec
CONSTANTS
    Steps <- ReleaseSteps
    Deps <- ReleaseDeps
    Pos <- ReleasePos
    Mode <- ReleaseMode
    Acceptance <- ReleaseAcceptance
    InitialStatus <- AllPending
    Runners = {r1}
    Clients = {c1}
    RunModes <- ActiveOnly
    OnFail = "stop"
    MaxStepRetries = 0
    MaxParallel = 1
    HasTimeout = FALSE
    OneRunAtATime = TRUE
    ClientsBetweenRuns = FALSE
    StepsOutliveThreshold = FALSE
    ReadsMayFail = FALSE
    MaxRuns = 1
    MaxCrashes = 0
    MaxSaveErrors = 0
    MaxClientOps = 1
CHECK_DEADLOCK FALSE
PROPERTY ApprovalDurable
