CONSTANTS
    c1 = c1
    c2 = c2
    p1 = p1
    p2 = p2
    p3 = p3
    blur = blur
    lap = lap
    Null = Null
    NoThread = NoThread
    Sampler = Sampler
    Callers <- OneCaller
    Nodes <- TwoNodes
    Names <- OneNames
    NumFuncs <- BlurOnly
    Overlap = FALSE
    MayFail = FALSE
    Endless <- Nobody
    MaxTime = 1
    MaxLeak = 1
SPECIFICATION Spec
INVARIANT ActiveThreadsCounted
