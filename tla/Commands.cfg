SPECIFICATION Spec
CONSTANTS
    Char = {sep, nl, p, l, q}
    SEP = sep
    NL = nl
    P = p
    L = l
    Q = q
    MaxLine = 5
    SliceMax = 5
    MaxInput = 7
    NULL = NULL
INVARIANTS
    FreesEverythingOnce
    SlicesInBounds
PROPERTIES
    ReadsWholeLines
    ObeysTheLine
