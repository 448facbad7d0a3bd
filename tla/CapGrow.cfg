SPECIFICATION Spec
CONSTANTS
    b1 = b1
    b2 = b2
    b3 = b3
    b4 = b4
    Bufs <- FourBufs
    GSTBUFFERNUMBER = 2
    Sizes <- OneSize
    MaxStarts = 1
    Faults <- NoFaults
PROPERTIES
    PooledIsReused
