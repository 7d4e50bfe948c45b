SPECIFICATION Spec
CONSTANTS
    main = main
    beat1 = beat1
    beat2 = beat2
    Main = main
    Beat <- Beats
    Threads = {main, beat1, beat2}
    Clients = {c}
    Watchdog = Watchdog
    Unlucky = {main}
    Runs = {0, 1, 2}
    MaxRounds = 2
    Executors = 2
    Mortal = TRUE
CHECK_DEADLOCK FALSE
INVARIANT SuccessTruthful
PROPERTY CancelHonoured
PROPERTY RecordsClose
