\* A client that passes handles it holds and handles that stand for nothing; two
\* doublings of the array.
CONSTANTS
    NULL = NULL
    Ptrs = {p1, p2, p3}
    InitialMax = 1
    MaxPtrs = 4
    HT_BIGINT = HT_BIGINT
    HT_FMMCTX = HT_FMMCTX
    HT_FMMVAR = HT_FMMVAR
    Vals = {0, 1}
    Zero = 0
    Forged <- Unresolvable
SYMMETRY PtrSymmetry
SPECIFICATION Spec
INVARIANTS
    HeldHandlesResolve
    NoDanglingSlot
    OneSlotPerObject
PROPERTIES
    ImplementsVarStore
