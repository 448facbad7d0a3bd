SPECIFICATION FairSpec
CONSTANTS
    b1 = b1
    b2 = b2
    b3 = b3
    b4 = b4
    Bufs <- TwoBufs
    GSTBUFFERNUMBER = 2
    Sizes <- OneSize
    MaxStarts = 2
    Faults <- NoFaults
PROPERTIES
    CreateReturns
