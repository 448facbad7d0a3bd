SPECIFICATION FairSpec
CONSTANTS
    i1 = i1
    i2 = i2
    o1 = o1
    o2 = o2
    o3 = o3
    t1 = t1
    t2 = t2
    InBufs <- TwoIns
    FirstIn = i1
    OutBufs <- TwoOuts
    MAX_MSG = 3
    CbThreads <- OneThread
    NumFrames = 0
    NFramePlay = 0
    EncDepth = 1
    FaultyCalls <- NoCalls
PROPERTIES
    Terminates
