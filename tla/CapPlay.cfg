SPECIFICATION FairSpec
CONSTANTS
    b1 = b1
    b2 = b2
    b3 = b3
    b4 = b4
    Bufs <- ThreeBufs
    GSTBUFFERNUMBER = 1
    Sizes <- TwoSizes
    MaxStarts = 2
    Faults <- AllFaults
INVARIANTS
    TypeOK
    OnePlace
    NothingLeaked
    OfThisDisplay
PROPERTIES
    InCaptureOrder
    FirstPlayReturns
