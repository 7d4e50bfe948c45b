SPECIFICATION FairSpec
CONSTANTS
    Steps <- FanSteps
    Deps <- FanDeps
    Pos <- FanPos
    Mode <- FanMode
    Acceptance <- FanQuick
    InitialStatus <- FanKept
    Runners = {r1}
    Clients = {c1}
    RunModes <- BothModes
    OnFail = "continue"
    MaxStepRetries = 0
    MaxParallel = 3
    HasTimeout = FALSE
    OneRunAtATime = TRUE
    ClientsBetweenRuns = FALSE
    StepsOutliveThreshold = FALSE
    ReadsMayFail = FALSE
    MaxRuns = 3
    MaxCrashes = 2
    MaxSaveErrors = 0
    MaxClientOps = 1
CHECK_DEADLOCK FALSE
PROPERTY RecoveredRunCompletes
PROPERTY CancelHonoured
PROPERTY TransitionsLegal
