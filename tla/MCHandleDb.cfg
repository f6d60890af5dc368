\* The code's initial capacity of four, one doubling, two pointers.
CONSTANTS
    NULL = NULL
    Ptrs = {p1, p2}
    InitialMax = 4
    MaxPtrs = 8
SYMMETRY PtrSymmetry
SPECIFICATION Spec
INVARIANTS
    GrowsOnlyOnDemand
PROPERTY
    ImplementsHandleMap
