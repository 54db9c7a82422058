CONSTANTS
    t1 = t1
    t2 = t2
    m1 = m1
    m2 = m2
    s0 = s0
    s1 = s1
    Threads <- TwoThreads
    MaxThreads = 2
    Markers <- TwoMarkers
    NoMarker = NoMarker
    Sets <- TwoSets
    PAPI_NULL = PAPI_NULL
    NumEvents = 1
    Nesters <- OneThread
    Failing <- OneThread
    MaxWork <- UnequalWork
SYMMETRY Symmetric
SPECIFICATION Spec
INVARIANTS CountedRight SetsOwned RunsComplete
CHECK_DEADLOCK FALSE
