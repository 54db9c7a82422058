CONSTANTS
    t1 = t1
    t2 = t2
    t3 = t3
    t4 = t4
    NoOwner = NoOwner
    Threads <- Few
    MaxThreads = 1
    Tid <- FewTid
SPECIFICATION SlotFairSpec
PROPERTY CallsReturn
