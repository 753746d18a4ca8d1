SPECIFICATION Spec
CONSTANTS
    Block = {b1, b2, b3, b4}
    StdRate = 30
    Rates <- SomeRates
    FrameCount = 5
    Spacings <- SomeSpacings
    Significands = 128
    Lengths <- SomeLengths
    ORIG = ORIG
    NULL = NULL
SYMMETRY Symmetry
INVARIANTS
    FreesOnlyItsOwn
    LeaksNothing
    ConvertsFaithfully
    LeavesNoHalfFrame
    ReadBytesFit
    Fits
    PlaysOnlyTheChunk
    EndsWell
PROPERTIES
    ChunksMeet
