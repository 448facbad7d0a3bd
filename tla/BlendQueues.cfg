SPECIFICATION FairSpec
CONSTANTS
    Times <- SomeTimes
    Durations <- SomeDurations
    SegStart = 1
    SegStop = 4
    Rates <- SomeRates
    Frames <- ThreeAndTwo
    MaxRestarts = 1
CHECK_DEADLOCK FALSE
INVARIANTS
    TypeOK
    ForegroundOfThisTime
PROPERTIES
    PushedInOrder
    NoBufferAfterEos
    RegularPushedOnce
    BackgroundGoesOn
