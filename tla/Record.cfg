SPECIFICATION Spec
CONSTANTS
    Ptr = {p1, p2, p3, p4}
    Thread = {t1, t2, t3}
    Site = {s1, s2}
    RecordFails = TRUE
    NULL = NULL
SYMMETRY Symmetry
INVARIANTS
    TypeOK
    RecordInBounds
    RecordMatchesHeap
    EntryTellsSite
PROPERTIES
    FreeReleases
