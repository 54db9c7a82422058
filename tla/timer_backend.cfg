CONSTANTS
    t1 = t1
    t2 = t2
    m1 = m1
    m2 = m2
    Threads <- TwoThreads
    MaxThreads = 2
    Markers <- TwoMarkers
    NoMarker = NoMarker
    Nesters <- OneNester
    MaxClock = 2
SYMMETRY Symmetric
SPECIFICATION Spec
INVARIANTS ChargedRight TotalCoversEveryThread
