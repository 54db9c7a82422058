SPECIFICATION Spec
CONSTANTS
    f1 = f1
    g1 = g1
    w1 = w1
    w2 = w2
    global = global
    Funcs <- TwoFuncs
    WrapperFuncs <- TwoWrappers
    Global = global
    MaxDims = 2
    MaxUpdates = 1
    MaxCallees = 2
    MaxEarly = 1
    MaxCalls = 4
    Unchecked = {}
SYMMETRY Symmetry
INVARIANTS LoweredAcyclic CallsWellFormed WrapperNotShared CloneIsCopy
PROPERTY UsedKeepsValues
CHECK_DEADLOCK FALSE
