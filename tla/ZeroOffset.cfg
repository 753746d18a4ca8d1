SPECIFICATION Spec
CONSTANTS
    Block = {b1, b2, b3, b4}
    StdRate = 30
    Rates <- OneRate
    FrameCount = 5
    Spacings <- SomeSpacings
    Significands = 128
    Lengths <- OneLength
    ORIG = ORIG
    NULL = NULL
INVARIANTS
    ZeroOffsetIsLeft
