SPECIFICATION FairSpec
CONSTANTS
    Buf = {b1, b2}
    Loader = {l1, l2}
    NULL = NULL
    File <- WavFiles
    Chunk = 2
    N = 2
    Faults = {}
    DetectsSelfLock = TRUE

    
PROPERTIES
    RefinesTrackTable
    NoTrackCutShort
    ShutdownCompletes
    FinishedTrackIsFreed
