SPECIFICATION FairSpec
CONSTANTS
    SEC_ION_BUF_CAPACITY = 2
    NumFrames = 4
    Faults <- NoFault
PROPERTIES
    NeedDataAnswered
CHECK_DEADLOCK FALSE
