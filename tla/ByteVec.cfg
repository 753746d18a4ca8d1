SPECIFICATION Spec
CONSTANTS
    Byte = {x, y}
    Sizes = {1, 2, 3}
    AllocBytes = {0, 1, 2}
    Addr = {a1, a2}
    MaxMemory = 8
    Garbage = Garbage
    NULL = NULL
INVARIANTS
    MemoryMatchesFields
    CopyFits
PROPERTIES
    ImplementsLog
    AppendReturns
