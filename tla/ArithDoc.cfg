\* ARITH_NEW_VAR against the parameters ta_crypt.h gives it.
CONSTANTS
    NULL = NULL
    Ptrs = {p1, p2, p3}
    InitialMax = 1
    MaxPtrs = 2
    HT_BIGINT = HT_BIGINT
    HT_FMMCTX = HT_FMMCTX
    HT_FMMVAR = HT_FMMVAR
    Vals = {0}
    Zero = 0
    Forged <- NothingForged
SPECIFICATION Spec
INVARIANT
    NewVarHandleInValueB
