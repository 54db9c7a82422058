CONSTANTS
    main = main
    w1 = w1
    Main = main
    Workers <- OneWorker
    Garbage <- NothingProfiled
    Granularity = 1
    Programs <- AllPrograms
    Variants = {"original", "alt"}
    Careful = TRUE
    MayFail = TRUE
    MaxRuns = 2
    Trips = 2
SPECIFICATION Spec
INVARIANTS AlternatesIfDisjoint ChargedWhereAsked PointerRight NoFault SampledRight Reported
CHECK_DEADLOCK FALSE
