SPECIFICATION FairSpec
CONSTANTS
    Steps <- GatedSteps
    Deps <- GatedDeps
    Pos <- GatedPos
    Mode <- GatedMode
    Acceptance <- GatedAcceptance
    InitialStatus <- GateSeeded
    Runners = {r1}
    Clients = {c1}
    RunModes <- ActiveOnly
    OnFail = "retry"
    MaxStepRetries = 1
    MaxParallel = 2
    HasTimeout = TRUE
    OneRunAtATime = TRUE
    ClientsBetweenRuns = TRUE
    StepsOutliveThreshold = FALSE
    ReadsMayFail = FALSE
    MaxRuns = 4
    MaxCrashes = 2
    MaxSaveErrors = 0
    MaxClientOps = 3
CHECK_DEADLOCK FALSE
INVARIANT NoOrphanedStep
INVARIANT CheckedGate
PROPERTY DurableProgress
PROPERTY ImplementsContract
PROPERTY RunsEnd
