SPECIFICATION Spec
CONSTANTS
    small = small
    large = large
    a1 = a1
    a2 = a2
    a3 = a3
    a4 = a4
    Caps <- TwoCaps
    Addresses <- FourAddresses
    NULL = NULL
SYMMETRY Alike
CHECK_DEADLOCK FALSE
INVARIANTS
    TypeOK
    NoMappingLeaks
    MemoryOfCaps
PROPERTIES
    OnlyStaleTargetUnmaps
