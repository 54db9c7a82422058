CONSTANTS
    main = main
    w1 = w1
    Main = main
    Workers <- OneWorker
    Garbage <- NothingProfiled
    Granularity = 1
    Programs <- ParallelProgram
    Variants = {"original"}
    Careful = FALSE
    MayFail = FALSE
    MaxRuns = 1
    Trips = 2
SPECIFICATION Spec
INVARIANT NoFault
CHECK_DEADLOCK FALSE
