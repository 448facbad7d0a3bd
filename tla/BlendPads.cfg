SPECIFICATION Spec
CONSTANTS
    p1 = p1
    p2 = p2
    small = small
    large = large
    interlaced = interlaced
    yuv = yuv
    Pads <- TwoPads
    Caps <- AllCaps
    Supported <- Converted
    Shape <- Shapes
    Positions <- OffOrigin
    MaxKeeps = 1
SYMMETRY Alike
CHECK_DEADLOCK FALSE
INVARIANTS
    TypeOK
    AnnouncedIsCurrent
    BackgroundFirst
    NoOtherDeadlock
PROPERTIES
    StateStaysWhileBlending
    LocksReleased
