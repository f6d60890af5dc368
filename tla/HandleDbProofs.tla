--------------------------- MODULE HandleDbProofs ---------------------------
(***************************************************************************)
(* Proofs about the handle database, for every capacity and every set of   *)
(* pointers: its type invariant, that it implements the handle map, and    *)
(* that it grows only on demand.                                           *)
(***************************************************************************)
EXTENDS HandleDbCallers, FiniteSetTheorems, TLAPS

\* handle_get keeps the array well-formed, whether it finds an empty slot, grows
\* the array or fails.
LEMMA GetType ==
    ASSUME DbTypeOK, NEW ptr \in Ptrs \cup {NULL}, NEW h \in Int, handle_get(ptr, h)
    PROVE  DbTypeOK'
<1> USE DbAssumption DEF DbTypeOK, Slots
<1>1. CASE TakeFirstEmpty(ptr, h)
  BY <1>1 DEF TakeFirstEmpty
<1>2. CASE GrowAndTake(ptr, h) /\ ptr # NULL
  <2>1. NewMaxPtrs \in Nat
    BY DEF NewMaxPtrs
  <2>2. max_ptrs' \in Nat
    BY <1>2, <2>1 DEF GrowAndTake
  <2>3. ptrs' \in [0..(max_ptrs' - 1) -> Ptrs \cup {NULL}]
    BY <1>2, <2>1 DEF GrowAndTake
  <2>4. QED
    BY <2>2, <2>3
<1>3. CASE GetFails(ptr, h)
  BY <1>3 DEF GetFails, dbVars
<1>4. QED
  BY <1>1, <1>2, <1>3 DEF handle_get

\* handle_put keeps the array well-formed.
LEMMA PutType ==
    ASSUME DbTypeOK, NEW h, NEW ptr, handle_put(h, ptr)
    PROVE  DbTypeOK'
BY DbAssumption DEF DbTypeOK, Slots, handle_put, dbVars

\* The array always has max_ptrs elements, each NULL or a caller's pointer.
THEOREM DbTypeCorrect == Spec => []DbTypeOK
<1>1. Init => DbTypeOK
  BY DEF Init, DbInit, DbTypeOK, Slots
<1>2. DbTypeOK /\ [Next]_vars => DbTypeOK'
  <2> SUFFICES ASSUME DbTypeOK, [Next]_vars
               PROVE  DbTypeOK'
    OBVIOUS
  <2>1. CASE Get
    BY <2>1, GetType, DbAssumption DEF Get
  <2>2. CASE Put
    BY <2>2, PutType DEF Put
  <2>3. CASE Destroy
    BY <2>3 DEF Destroy, handle_db_destroy, DbTypeOK, Slots
  <2>4. CASE UNCHANGED vars
    BY <2>4 DEF vars, DbTypeOK, Slots
  <2>5. QED
    BY <2>1, <2>2, <2>3, <2>4 DEF Next
<1>3. QED
  BY <1>1, <1>2, PTL DEF Spec

-----------------------------------------------------------------------------
\* handle_get either leaves the allocated handles alone or adds one that was
\* not allocated; growing the array moves no pointer.
LEMMA GetMap ==
    ASSUME DbTypeOK, DbTypeOK', NEW ptr \in Ptrs \cup {NULL}, NEW h \in Int,
           handle_get(ptr, h)
    PROVE  Map!Allocate \/ LiveMap' = LiveMap
<1>1. CASE GetFails(ptr, h)
  BY <1>1 DEF GetFails, dbVars, LiveMap, Allocated, Slots
<1>2. ASSUME ptr # NULL, TakeFirstEmpty(ptr, h) \/ GrowAndTake(ptr, h)
      PROVE  Map!Allocate
  <2>1. h \notin Allocated /\ Allocated' = Allocated \cup {h}
    <3>1. CASE TakeFirstEmpty(ptr, h)
      BY <1>2, <3>1, DbAssumption DEF TakeFirstEmpty, Allocated, Slots, DbTypeOK
    <3>2. CASE GrowAndTake(ptr, h)
      <4>1. max_ptrs' \in Nat /\ max_ptrs < max_ptrs'
        BY <3>2, DbAssumption DEF GrowAndTake, NewMaxPtrs, DbTypeOK
      <4>2. QED
        BY <1>2, <3>2, <4>1, DbAssumption DEF GrowAndTake, Allocated, Slots, DbTypeOK
    <3>3. QED
      BY <1>2, <3>1, <3>2
  <2>2. ptrs'[h] = ptr /\ \A k \in Allocated : ptrs'[k] = ptrs[k]
    <3>1. CASE TakeFirstEmpty(ptr, h)
      BY <2>1, <3>1 DEF TakeFirstEmpty, Allocated, Slots, DbTypeOK
    <3>2. CASE GrowAndTake(ptr, h)
      <4>1. max_ptrs' \in Nat /\ max_ptrs < max_ptrs' /\ max_ptrs' = NewMaxPtrs
        BY <3>2, DbAssumption DEF GrowAndTake, NewMaxPtrs, DbTypeOK
      <4>2. QED
        BY <3>2, <4>1, DbAssumption DEF GrowAndTake, Allocated, Slots, DbTypeOK
    <3>3. QED
      BY <1>2, <3>1, <3>2
  <2>3. ptr \in Ptrs
    BY <1>2
  <2>4. LiveMap' = [k \in DOMAIN LiveMap \cup {h} |->
                      IF k = h THEN ptr ELSE LiveMap[k]]
    BY <2>1, <2>2 DEF LiveMap
  <2>5. h \in DOMAIN LiveMap' \ DOMAIN LiveMap
    BY <2>1 DEF LiveMap
  <2>6. QED
    BY <2>3, <2>4, <2>5 DEF Map!Allocate
<1>3. QED
  BY <1>1, <1>2 DEF handle_get

\* handle_put removes the handle it is given, or nothing when that handle is
\* out of range or not allocated.
LEMMA PutMap ==
    ASSUME DbTypeOK, NEW h \in Int, NEW ptr, handle_put(h, ptr)
    PROVE  Map!Deallocate \/ LiveMap' = LiveMap
<1>1. CASE h \in Allocated
  <2>1. /\ Allocated' = Allocated \ {h}
        /\ \A k \in Allocated \ {h} : ptrs'[k] = ptrs[k]
    BY <1>1, DbAssumption DEF handle_put, Allocated, Slots, DbTypeOK
  <2>2. LiveMap' = [k \in DOMAIN LiveMap \ {h} |-> LiveMap[k]]
    BY <2>1 DEF LiveMap
  <2>3. QED
    BY <1>1, <2>2 DEF Map!Deallocate, LiveMap
<1>2. CASE h \notin Allocated
  <2>1. ptrs' = ptrs /\ max_ptrs' = max_ptrs
    BY <1>2 DEF handle_put, dbVars, Allocated, Slots, DbTypeOK
  <2>2. QED
    BY <2>1 DEF LiveMap, Allocated, Slots
<1>3. QED
  BY <1>1, <1>2

\* The database implements the handle map of handle.h: no operation moves, drops
\* or doubles a pointer behind its callers' backs.
THEOREM DbImplementsMap == Spec => ImplementsHandleMap
<1>1. Init => Map!MapInit
  BY DEF Init, DbInit, Map!MapInit, LiveMap, Allocated, Slots
<1>2. DbTypeOK /\ DbTypeOK' /\ [Next]_vars => [Map!MapNext]_LiveMap
  <2> SUFFICES ASSUME DbTypeOK, DbTypeOK', [Next]_vars
               PROVE  Map!MapNext \/ LiveMap' = LiveMap
    OBVIOUS
  <2>1. CASE Get
    BY <2>1, GetMap, DbAssumption DEF Get, Map!MapNext
  <2>2. CASE Put
    BY <2>2, PutMap, DbAssumption DEF Put, Map!MapNext
  <2>3. CASE Destroy
    BY <2>3 DEF Destroy, handle_db_destroy, Map!MapNext, Map!Clear, LiveMap, Allocated, Slots
  <2>4. CASE UNCHANGED vars
    BY <2>4 DEF vars, LiveMap, Allocated, Slots
  <2>5. QED
    BY <2>1, <2>2, <2>3, <2>4 DEF Next
<1>3. QED
  BY <1>1, <1>2, DbTypeCorrect, PTL DEF Spec, ImplementsHandleMap, Map!MapSpec
-----------------------------------------------------------------------------
\* The array was doubled only when every slot was in use: the peak counts the
\* handles in use, and a capacity above the initial one is below twice the peak.
\* A capacity above 0 is at least the initial one, so a doubling starts there.
GrowInv ==
    /\ DbTypeOK
    /\ peak \in Nat
    /\ max_ptrs = 0 \/ max_ptrs >= InitialMax
    /\ GrowsOnlyOnDemand

\* The allocated handles are finitely many; a full array has max_ptrs of them.
LEMMA AllocatedFinite ==
    ASSUME DbTypeOK
    PROVE  /\ IsFiniteSet(Allocated)
           /\ Cardinality(Allocated) \in Nat
           /\ Allocated = Slots => Cardinality(Allocated) = max_ptrs
<1>1. IsFiniteSet(Slots) /\ Cardinality(Slots) = max_ptrs
  BY FS_Interval DEF Slots, DbTypeOK
<1>2. IsFiniteSet(Allocated)
  BY <1>1, FS_Subset DEF Allocated
<1>3. QED
  BY <1>1, <1>2, FS_CardinalityType

\* The peak never falls below what a step leaves allocated, and never decreases.
LEMMA PeakGrows ==
    ASSUME peak \in Nat, DbTypeOK', TrackPeak
    PROVE  peak' \in Nat /\ peak' >= peak /\ peak' >= Cardinality(Allocated')
<1>1. Cardinality(Allocated') \in Nat
  <2>1. IsFiniteSet(Slots') /\ Slots' = 0..(max_ptrs' - 1)
    BY FS_Interval DEF Slots, DbTypeOK
  <2>2. Allocated' \subseteq Slots'
    BY DEF Allocated
  <2>3. QED
    BY <2>1, <2>2, FS_Subset, FS_CardinalityType
<1>2. QED
  BY <1>1 DEF TrackPeak

\* A doubling finds every slot in use and then uses one more.
LEMMA GrowOnFull ==
    ASSUME GrowInv, DbTypeOK', NEW ptr \in Ptrs, NEW h \in Int, GrowAndTake(ptr, h)
    PROVE  Cardinality(Allocated') = max_ptrs + 1
<1>1. max_ptrs \in Nat /\ max_ptrs' \in Nat /\ max_ptrs < max_ptrs' /\ h = max_ptrs
  BY DbAssumption DEF GrowAndTake, NewMaxPtrs, GrowInv, DbTypeOK
<1>2. Allocated' = Allocated \cup {h}
  BY <1>1, DbAssumption DEF GrowAndTake, GrowInv, Allocated, Slots, DbTypeOK
<1>3. h \notin Allocated
  BY <1>1 DEF Allocated, Slots
<1>4. IsFiniteSet(Allocated) /\ Cardinality(Allocated) = max_ptrs
  BY AllocatedFinite DEF GrowAndTake, GrowInv
<1>5. QED
  BY <1>2, <1>3, <1>4, FS_AddElement

\* Beyond its initial capacity, the array is shorter than twice the number of
\* handles that were in use at the same time.
THEOREM DbGrowsOnlyOnDemand == Spec => []GrowsOnlyOnDemand
<1>1. Init => GrowInv
  BY DbAssumption DEF Init, DbInit, GrowInv, DbTypeOK, Slots, GrowsOnlyOnDemand
<1>2. GrowInv /\ DbTypeOK' /\ [Next]_vars => GrowInv'
  <2> SUFFICES ASSUME GrowInv, DbTypeOK', [Next]_vars
               PROVE  GrowInv'
    OBVIOUS
  <2> USE DbAssumption
  <2>1. ASSUME TrackPeak, UNCHANGED max_ptrs
        PROVE  GrowInv'
    BY <2>1, PeakGrows DEF GrowInv, GrowsOnlyOnDemand, DbTypeOK
  <2>2. ASSUME NEW ptr \in Ptrs, NEW h \in Int, GrowAndTake(ptr, h), TrackPeak
        PROVE  GrowInv'
    <3>1. peak' \in Nat /\ peak' >= max_ptrs + 1 /\ max_ptrs \in Nat
      BY <2>2, PeakGrows, GrowOnFull DEF GrowInv, DbTypeOK
    <3>2. max_ptrs' = IF max_ptrs # 0 THEN max_ptrs * 2 ELSE InitialMax
      BY <2>2 DEF GrowAndTake, NewMaxPtrs
    <3>3. max_ptrs' \in Int /\ max_ptrs' >= InitialMax
      BY <3>1, <3>2 DEF GrowInv
    <3>4. max_ptrs' > InitialMax => max_ptrs' < 2 * peak'
      <4> DEFINE q == peak'
      <4> DEFINE n == max_ptrs'
      <4>1. q \in Nat /\ q >= max_ptrs + 1 /\ max_ptrs \in Nat /\ n \in Int
        BY <3>1, <3>3
      <4>2. n = IF max_ptrs # 0 THEN max_ptrs * 2 ELSE InitialMax
        BY <3>2
      <4> HIDE DEF q, n
      <4>3. n > InitialMax => n < 2 * q
        BY <4>1, <4>2
      <4>4. QED
        BY <4>3 DEF q, n
    <3>5. QED
      BY <3>1, <3>3, <3>4 DEF GrowInv, GrowsOnlyOnDemand
  <2>3. CASE Get
    <3>1. PICK ptr \in Ptrs \cup {NULL}, h \in Int : handle_get(ptr, h)
      BY <2>3 DEF Get
    <3>2. TrackPeak
      BY <2>3 DEF Get
    <3>3. CASE ptr # NULL /\ GrowAndTake(ptr, h)
      BY <2>2, <3>2, <3>3
    <3>4. CASE TakeFirstEmpty(ptr, h) \/ GetFails(ptr, h)
      BY <2>1, <3>2, <3>4 DEF TakeFirstEmpty, GetFails, dbVars
    <3>5. QED
      BY <3>1, <3>3, <3>4 DEF handle_get
  <2>4. CASE Put
    BY <2>4, <2>1 DEF Put, handle_put, dbVars
  <2>5. CASE Destroy
    BY <2>5 DEF Destroy, handle_db_destroy, GrowInv, GrowsOnlyOnDemand
  <2>6. CASE UNCHANGED vars
    BY <2>6 DEF vars, GrowInv, GrowsOnlyOnDemand
  <2>7. QED
    BY <2>3, <2>4, <2>5, <2>6 DEF Next
<1>3. GrowInv => GrowsOnlyOnDemand
  BY DEF GrowInv
<1>4. QED
  BY <1>1, <1>2, <1>3, DbTypeCorrect, PTL DEF Spec
=============================================================================
