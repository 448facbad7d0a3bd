SPECIFICATION FairSpec
CONSTANTS
    SEC_ION_BUF_CAPACITY = 3
    NumFrames = 4
    Faults <- CopyAndPipeline
INVARIANTS
    TypeOK
    OneHolder
    DecoderSeesItsFrame
    NoneLeaks
PROPERTIES
    EosEndsPlayback
    QuitEndsOrSleeps
CHECK_DEADLOCK FALSE
