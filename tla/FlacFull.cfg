SPECIFICATION Spec
CONSTANTS
    Buf = {b1}
    Loader = {l1, l2}
    NULL = NULL
    File <- FlacFiles
    Chunk = 2
    N = 1
    Faults = {}
    DetectsSelfLock = TRUE
PROPERTIES
    FullChunkDelivered
