CONSTANTS
    c1 = c1
    c2 = c2
    p1 = p1
    p2 = p2
    p3 = p3
    blur = blur
    lap = lap
    Null = Null
    NoThread = NoThread
    Sampler = Sampler
    Callers <- TwoCallers
    Nodes <- TwoNodes
    Names <- TwoNames
    NumFuncs <- BlurAndLap
    Overlap = FALSE
    MayFail = TRUE
    Endless <- Nobody
    MaxTime = 3
    MaxLeak = 1
SPECIFICATION FairSpec
INVARIANTS NoDangling MeteredWhileRunning SampleFindsOwner NeverOverbilled CleanBetweenRuns
PROPERTIES ImplementsProfiledRun EveryRunReturns
