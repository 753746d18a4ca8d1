SPECIFICATION Spec
CONSTANTS
    Paths <- SomePaths
    Boundary = 65535
INVARIANTS
    FreesWhatItHolds
    HoldsOnlyWhenOpen
    KnowsItsFormat
    ReadsHeader
    StrictAgrees
