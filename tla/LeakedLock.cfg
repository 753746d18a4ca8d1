SPECIFICATION Spec
CONSTANTS
    Buf = {b1}
    Loader = {l1, l2}
    NULL = NULL
    File <- WavFiles
    Chunk = 2
    N = 1
    Faults = {"convert"}
    DetectsSelfLock = TRUE
INVARIANTS
    LoadersUnlock
