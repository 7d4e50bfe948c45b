SPECIFICATION Spec
CONSTANTS
    Steps <- ReleaseSteps
    Deps <- ReleaseDeps
    Pos <- ReleasePos
    Mode <- ReleaseMode
    Acceptance <- ReleaseAcceptance
    InitialStatus <- AllPending
    Runners = {r1, r2}
    Clients = {c1}
    RunModes <- BothModes
    OnFail = "stop"
    MaxStepRetries = 0
    MaxParallel = 3
    HasTimeout = FALSE
    OneRunAtATime = FALSE
    ClientsBetweenRuns = FALSE
    StepsOutliveThreshold = TRUE
    ReadsMayFail = TRUE
    MaxRuns = 2
    MaxCrashes = 1
    MaxSaveErrors = 1
    MaxClientOps = 2
CHECK_DEADLOCK FALSE
INVARIANTS
    TypeOK
    DependencyGate
    HumanGate
    StatusTruthful
