CONSTANTS
    c1 = c1
    c2 = c2
    p1 = p1
    p2 = p2
    p3 = p3
    blur = blur
    lap = lap
    Null = Null
    NoThread = NoThread
    Sampler = Sampler
    Callers <- TwoCallers
    Nodes <- ThreeNodes
    Names <- TwoNames
    NumFuncs <- BlurAndLap
    Overlap = TRUE
    MayFail = FALSE
    Endless <- TwoCallers
    MaxTime = 2
    MaxLeak = 1
SPECIFICATION Spec
INVARIANT NeverOverbilled
