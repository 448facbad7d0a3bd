SPECIFICATION Spec
CONSTANTS
    i1 = i1
    i2 = i2
    o1 = o1
    o2 = o2
    o3 = o3
    t1 = t1
    t2 = t2
    InBufs <- TwoIns
    FirstIn = i1
    OutBufs <- ThreeOuts
    MAX_MSG = 4
    CbThreads <- TwoThreads
    NumFrames = 4
    NFramePlay = 3
    EncDepth = 2
    FaultyCalls <- AllCalls
INVARIANTS
    TypeOK
    OneOwner
    NothingLost
    MutexNeverLeaked
    NoLostWakeup
    EofUnmapsSafely
    TeardownQuiet
    CountLagsByInFlight
SYMMETRY Symmetry
PROPERTIES
    QueueIsFifo
