------------------------------ MODULE HandleDb ------------------------------
(***************************************************************************)
(* The handle database of the crypt TA, ta/crypt/handle.c: an array of     *)
(* pointers indexed by handle, searched linearly for an empty slot and     *)
(* doubled when it is full.  HandleDbCallers closes it with callers,       *)
(* ArithTa with the arithmetic commands that use it.                       *)
(***************************************************************************)
EXTENDS Integers, FiniteSets

CONSTANTS
    Ptrs,               \* the non-NULL pointers callers store
    NULL,
    InitialMax,         \* HANDLE_DB_INITIAL_MAX_PTRS
    MaxPtrs             \* bound: TEE_Realloc fails for an array longer than this

ASSUME DbAssumption ==
    /\ NULL \notin Ptrs
    /\ InitialMax \in Nat \ {0}
    /\ MaxPtrs \in Nat

VARIABLES
    ptrs,               \* db->ptrs, a function on 0..max_ptrs-1
    max_ptrs            \* db->max_ptrs

dbVars == <<ptrs, max_ptrs>>

Slots == 0..(max_ptrs - 1)
Allocated == {n \in Slots : ptrs[n] # NULL}

\* The allocated handles with their pointers: what the callers may rely on.
LiveMap == [h \in Allocated |-> ptrs[h]]

\* The array has max_ptrs elements, each NULL or a pointer of a caller.
DbTypeOK ==
    /\ max_ptrs \in Nat
    /\ ptrs \in [Slots -> Ptrs \cup {NULL}]

DbInit ==
    /\ ptrs = << >>
    /\ max_ptrs = 0

-----------------------------------------------------------------------------
(***************************************************************************)
(* The operations.  An operation that returns a value has it as its last   *)
(* parameter.                                                              *)
(***************************************************************************)

\* The loop of handle_get stops at the first empty slot.
TakeFirstEmpty(ptr, h) ==
    /\ h \in Slots
    /\ ptrs[h] = NULL
    /\ \A m \in 0..(h - 1) : ptrs[m] # NULL
    /\ ptrs' = [ptrs EXCEPT ![h] = ptr]
    /\ UNCHANGED max_ptrs

NewMaxPtrs == IF max_ptrs # 0 THEN max_ptrs * 2 ELSE InitialMax

\* Mutant: the array is replaced by a cleared one instead of being extended.
GrowAndTakeCleared(ptr, h) ==
    /\ Allocated = Slots
    /\ NewMaxPtrs <= MaxPtrs
    /\ h = max_ptrs
    /\ ptrs' = [n \in 0..(NewMaxPtrs - 1) |-> IF n = h THEN ptr ELSE NULL]
    /\ max_ptrs' = NewMaxPtrs

\* Mutant: the search for an empty slot is skipped.
GrowAndTakeEager(ptr, h) ==
    /\ NewMaxPtrs <= MaxPtrs
    /\ h = max_ptrs
    /\ ptrs' = [n \in 0..(NewMaxPtrs - 1) |->
                    IF n < max_ptrs THEN ptrs[n] ELSE IF n = h THEN ptr ELSE NULL]
    /\ max_ptrs' = NewMaxPtrs

\* No slot is empty: TEE_Realloc, clear the new half, use its first slot.
GrowAndTake(ptr, h) ==
    /\ Allocated = Slots
    /\ NewMaxPtrs <= MaxPtrs
    /\ h = max_ptrs
    /\ ptrs' = [n \in 0..(NewMaxPtrs - 1) |->
                    IF n < max_ptrs THEN ptrs[n] ELSE IF n = h THEN ptr ELSE NULL]
    /\ max_ptrs' = NewMaxPtrs

\* No slot is empty and TEE_Realloc returned NULL, which it may do at any size.
GetFails(ptr, h) ==
    /\ ptr = NULL \/ Allocated = Slots
    /\ h = -1
    /\ UNCHANGED dbVars

handle_get(ptr, h) ==
    \/ ptr # NULL /\ TakeFirstEmpty(ptr, h)
    \/ ptr # NULL /\ GrowAndTake(ptr, h)
    \/ GetFails(ptr, h)

\* Out of range handles, negative ones included, are rejected.
handle_put(h, ptr) ==
    IF h \in Slots
    THEN /\ ptr = ptrs[h]
         /\ ptrs' = [ptrs EXCEPT ![h] = NULL]
         /\ UNCHANGED max_ptrs
    ELSE /\ ptr = NULL
         /\ UNCHANGED dbVars

handle_lookup(h) == IF h \in Slots THEN ptrs[h] ELSE NULL

handle_db_destroy ==
    /\ ptrs' = << >>
    /\ max_ptrs' = 0
=============================================================================
