SPECIFICATION FairSpec
CONSTANTS
    p1 = p1
    p2 = p2
    small = small
    large = large
    interlaced = interlaced
    yuv = yuv
    Pads <- TwoPads
    Caps <- SmallOnly
    Supported <- SmallOnly
    Shape <- Shapes
    Positions <- Origin
    MaxKeeps = 1
CHECK_DEADLOCK FALSE
PROPERTIES
    SetCapsReturns
