CONSTANTS
    t1 = t1
    t2 = t2
    t3 = t3
    t4 = t4
    NoOwner = NoOwner
    Threads <- Crowd
    MaxThreads = 2
    Tid <- DistinctTid
SPECIFICATION SlotFairSpec
INVARIANTS SlotExclusive
PROPERTIES SlotPermanent ReturnsUnlessFull ImplementsRegistry
