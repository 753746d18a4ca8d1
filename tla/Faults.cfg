SPECIFICATION Spec
CONSTANTS
    Buf = {b1, b2}
    Loader = {l1, l2}
    NULL = NULL
    File <- MixedFiles
    Chunk = 2
    N = 1
    Faults = {"read", "convert", "decode", "thread", "device"}
    DetectsSelfLock = TRUE
SYMMETRY Symmetry
CHECK_DEADLOCK FALSE
INVARIANTS
    TypeOK
    MixingExcludesLoading
    OneOwner
    NoDanglingTrack
    CallbackFreesUnlocked
    TeardownAlone
    ExitFreesEverything
    IInv
