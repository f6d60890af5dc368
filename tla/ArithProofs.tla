----------------------------- MODULE ArithProofs -----------------------------
(***************************************************************************)
(* Proofs about the arithmetic commands: whatever handles clients pass, no *)
(* slot of the database dangles, no object is lost and every handle that   *)
(* was given out and not freed resolves at its type.                       *)
(***************************************************************************)
EXTENDS ArithTa, FiniteSetTheorems, TLAPS

\* The heap and the handles in use, without the reply.
StoreOK ==
    /\ DbTypeOK
    /\ DOMAIN heap \subseteq Ptrs
    /\ heap \in [DOMAIN heap -> Objects]

\* OneSlotPerObject is preserved only together with: no two slots share a pointer.
SlotsDiffer == \A m, n \in Allocated : ptrs[m] = ptrs[n] => m = n
EveryObjectHasSlot == \A p \in DOMAIN heap : \E n \in Allocated : ptrs[n] = p

\* A held handle names an allocated slot by the type of the object there.
HeldTyped ==
    \A h \in held : /\ h.idx \in Allocated
                    /\ \E t \in Tags : h.tag = {t} /\ heap[ptrs[h.idx]].type = t

IInv ==
    /\ StoreOK
    /\ NoDanglingSlot
    /\ SlotsDiffer
    /\ EveryObjectHasSlot
    /\ HeldTyped

\* The three commands that create an object.
Creates ==
    \/ NewObject("new_var", HT_BIGINT, {Zero})
    \/ NewObject("new_fmm_ctx", HT_FMMCTX, Vals)
    \/ NewObject("new_fmm_var", HT_FMMVAR, {Zero})

\* A command that neither creates nor frees: only values change.
OnlyValues ==
    /\ UNCHANGED <<ptrs, max_ptrs, held>>
    /\ DOMAIN heap' = DOMAIN heap
    /\ heap' \in [DOMAIN heap -> Objects]
    /\ \A p \in DOMAIN heap : heap'[p].type = heap[p].type

-----------------------------------------------------------------------------
\* Assigning to any results keeps the allocated objects and their types.
LEMMA CommandOnlyValues ==
    ASSUME StoreOK, NEW cmd, NEW args, NEW operands, NEW results,
           Command(cmd, args, operands, results)
    PROVE  OnlyValues
<1> USE DEF OnlyValues, StoreOK
<1>1. CASE UNCHANGED heap
  BY <1>1 DEF Command
<1>2. CASE Assign(results)
  <2> DEFINE Dest == {lookup_handle(o[1], o[2]) : o \in results}
  <2>1. PICK v \in [Dest -> Vals] :
            heap' = [p \in DOMAIN heap |->
                        IF p \in Dest THEN [heap[p] EXCEPT !.val = v[p]] ELSE heap[p]]
    BY <1>2 DEF Assign
  <2> HIDE DEF Dest
  <2>2. \A p \in DOMAIN heap : heap[p] \in Objects
    OBVIOUS
  <2>3. \A p \in DOMAIN heap : heap'[p] \in Objects /\ heap'[p].type = heap[p].type
    BY <2>1, <2>2 DEF Objects
  <2>4. heap' \in [DOMAIN heap -> Objects]
    BY <2>1, <2>3
  <2>5. QED
    BY <2>1, <2>3, <2>4 DEF Command
<1>3. QED
  BY <1>1, <1>2 DEF Command

\* Every step creates an object, frees a handle, only assigns values, or starts
\* over with a new instance.
LEMMA NextCases ==
    ASSUME StoreOK, [Next]_vars
    PROVE  \/ Creates
           \/ \E h \in Passed : ta_entry_arith_free_handle(h)
           \/ OnlyValues
           \/ NewInstance
<1> USE CommandOnlyValues
<1>0. UNCHANGED store => OnlyValues
  BY DEF OnlyValues, StoreOK, store
<1>1. CASE ta_entry_arith_new_var \/ ta_entry_arith_new_fmm_var
  BY <1>1 DEF Creates, ta_entry_arith_new_var, ta_entry_arith_new_fmm_var
<1>2. ASSUME NEW h \in Passed, OnOne(h)
      PROVE  \/ Creates
             \/ ta_entry_arith_free_handle(h)
             \/ OnlyValues
  BY <1>2, <1>0 DEF OnOne, Creates, ta_entry_arith_new_fmm_ctx,
     ta_entry_arith_from_octet_string, ta_entry_arith_from_s32,
     ta_entry_arith_get_value, ta_entry_arith_get_value_s32, ReadOne,
     ta_entry_arith_get_bit, ta_entry_arith_get_bit_count,
     ta_entry_arith_cmp_s32, ta_entry_arith_is_prime
<1>3. ASSUME NEW h1 \in Passed, NEW h2 \in Passed, OnTwo(h1, h2)
      PROVE  OnlyValues
  BY <1>3 DEF OnTwo, ta_entry_arith_cmp, ta_entry_arith_is_rel_prime,
     ta_entry_arith_shift_right
<1>4. CASE UnaryCommand \/ BinaryCommand \/ TernaryCommand
  BY <1>4 DEF UnaryCommand, BinaryCommand, TernaryCommand,
     unary_func, binary_func, ternary_func
<1>5. ASSUME NEW h1 \in Passed, NEW h2 \in Passed, NEW h3 \in Passed,
             NEW h4 \in Passed, OnFour(h1, h2, h3, h4)
      PROVE  OnlyValues
  BY <1>5 DEF OnFour, ta_entry_arith_div, ta_entry_arith_to_fmm, ta_entry_arith_from_fmm
<1>6. CASE Egcd \/ ComputeFmm
  BY <1>6 DEF Egcd, ComputeFmm, ta_entry_arith_compute_egcd, ta_entry_arith_compute_fmm
<1>7. CASE UNCHANGED vars
  BY <1>7, <1>0 DEF vars, store
<1>8. QED
  BY <1>1, <1>2, <1>3, <1>4, <1>5, <1>6, <1>7 DEF Next

-----------------------------------------------------------------------------
\* What it means that an object was created: a pointer that was in no slot, in a slot
\* that was empty, and a handle for it.
Created(type, ptr, h, v) ==
    /\ ptr \in Ptrs \ DOMAIN heap /\ h \in 0..MaxPtrs
    /\ h \notin Allocated /\ Allocated' = Allocated \cup {h}
    /\ ptrs'[h] = ptr /\ \A k \in Allocated : ptrs'[k] = ptrs[k]
    /\ \A k \in 0..(h - 1) : k \in Allocated
    /\ max_ptrs' <= MaxPtrs \/ max_ptrs' = max_ptrs
    /\ heap' = [p \in DOMAIN heap \cup {ptr} |-> IF p = ptr THEN [type |-> type, val |-> v] ELSE heap[p]]
    /\ held' = held \cup {[tag |-> {type}, idx |-> h]}

\* The command failed, or it succeeded with these results.
Failed == reply'.res # "SUCCESS"
Succeeded(cmd, dest) == reply'.cmd = cmd /\ reply'.res = "SUCCESS" /\ reply'.dest = dest

\* Creating an object has this effect or none: on every failure path the pointer is freed.
LEMMA NewObjectCreates ==
    ASSUME IInv, NEW cmd, NEW type \in Tags, NEW vals, NewObject(cmd, type, vals)
    PROVE  \/ UNCHANGED <<ptrs, max_ptrs, heap, held>> /\ Failed
           \/ /\ DbTypeOK'
              /\ \E ptr, h, v :
                    /\ v \in vals /\ Created(type, ptr, h, v)
                    /\ Succeeded(cmd, Results(cmd, <<[tag |-> {type}, idx |-> h]>>))
<1>1. PICK ptr \in Malloc, h \in -1..MaxPtrs, v \in vals :
        /\ get_handle(type, ptr, h)
        /\ IF h = -1
           THEN UNCHANGED <<heap, held>> /\ Reply(cmd, "OUT_OF_MEMORY")
           ELSE /\ heap' = [p \in DOMAIN heap \cup {ptr} |->
                              IF p = ptr THEN [type |-> type, val |-> v] ELSE heap[p]]
                /\ held' = held \cup {[tag |-> {type}, idx |-> h]}
                /\ Success(cmd, [tag |-> {type}, idx |-> h],
                           Results(cmd, <<[tag |-> {type}, idx |-> h]>>))
  BY Zenon DEF NewObject
<1>2. handle_get(ptr, h)
  BY <1>1 DEF get_handle
<1>3. CASE GetFails(ptr, h)
  <2>1. UNCHANGED <<ptrs, max_ptrs, heap, held>> /\ Reply(cmd, "OUT_OF_MEMORY")
    BY <1>1, <1>3 DEF GetFails, dbVars
  <2>2. QED
    BY <2>1 DEF Reply, Failed
<1>4. CASE ptr # NULL /\ (TakeFirstEmpty(ptr, h) \/ GrowAndTake(ptr, h))
  <2>1. /\ ptr \in Ptrs \ DOMAIN heap
        /\ h \in Nat /\ h \in 0..MaxPtrs
    BY <1>1, <1>4, DbAssumption DEF Malloc, TakeFirstEmpty, GrowAndTake, IInv, StoreOK,
       DbTypeOK, Slots
  <2>2. /\ DbTypeOK'
        /\ h \notin Allocated /\ Allocated' = Allocated \cup {h}
        /\ ptrs'[h] = ptr /\ \A k \in Allocated : ptrs'[k] = ptrs[k]
        /\ \A k \in 0..(h - 1) : k \in Allocated
        /\ max_ptrs' <= MaxPtrs \/ max_ptrs' = max_ptrs
    <3>1. CASE TakeFirstEmpty(ptr, h)
      BY <1>4, <2>1, <3>1, DbAssumption
         DEF TakeFirstEmpty, Allocated, Slots, IInv, StoreOK, DbTypeOK
    <3>2. CASE GrowAndTake(ptr, h)
      <4>1. max_ptrs' \in Nat /\ max_ptrs < max_ptrs' /\ max_ptrs' = NewMaxPtrs
        BY <3>2, DbAssumption DEF GrowAndTake, NewMaxPtrs, IInv, StoreOK, DbTypeOK
      <4>2. QED
        BY <1>4, <2>1, <3>2, <4>1, DbAssumption
           DEF GrowAndTake, Allocated, Slots, IInv, StoreOK, DbTypeOK
    <3>3. QED
      BY <1>4, <3>1, <3>2
  <2>3. /\ heap' = [p \in DOMAIN heap \cup {ptr} |->
                      IF p = ptr THEN [type |-> type, val |-> v] ELSE heap[p]]
        /\ held' = held \cup {[tag |-> {type}, idx |-> h]}
    BY <1>1, <2>1
  <2>4. Created(type, ptr, h, v)
    BY <2>1, <2>2, <2>3 DEF Created
  <2>5. Succeeded(cmd, Results(cmd, <<[tag |-> {type}, idx |-> h]>>))
    <3>1. Success(cmd, [tag |-> {type}, idx |-> h],
                  Results(cmd, <<[tag |-> {type}, idx |-> h]>>))
      BY <1>1, <2>1
    <3>2. QED
      BY <3>1 DEF Success, Succeeded
  <2>6. QED
    BY <2>2, <2>4, <2>5
<1>5. QED
  BY <1>2, <1>3, <1>4 DEF handle_get

\* Creating an object keeps the invariant: the new pointer is in no slot yet and
\* the slot that is taken was empty; the failure paths change nothing.
LEMMA NewObjectInv ==
    ASSUME IInv, NEW cmd, NEW type \in Tags, NEW vals, vals \subseteq Vals,
           NewObject(cmd, type, vals)
    PROVE  IInv'
<1>1. CASE UNCHANGED <<ptrs, max_ptrs, heap, held>>
  BY <1>1 DEF IInv, StoreOK, NoDanglingSlot, SlotsDiffer, EveryObjectHasSlot,
     HeldTyped, DbTypeOK, Allocated, Slots
<1>2. CASE DbTypeOK' /\ \E ptr, h, v : v \in vals /\ Created(type, ptr, h, v)
  <2>1. PICK ptr, h, v : v \in vals /\ Created(type, ptr, h, v)
    BY <1>2
  <2>2. /\ ptr \in Ptrs \ DOMAIN heap
        /\ h \notin Allocated /\ Allocated' = Allocated \cup {h}
        /\ ptrs'[h] = ptr /\ \A k \in Allocated : ptrs'[k] = ptrs[k]
    BY <2>1 DEF Created
  <2>3. /\ heap' = [p \in DOMAIN heap \cup {ptr} |->
                      IF p = ptr THEN [type |-> type, val |-> v] ELSE heap[p]]
        /\ held' = held \cup {[tag |-> {type}, idx |-> h]}
    BY <2>1 DEF Created
  <2>4. /\ DOMAIN heap' = DOMAIN heap \cup {ptr}
        /\ heap'[ptr] = [type |-> type, val |-> v]
        /\ \A p \in DOMAIN heap : heap'[p] = heap[p]
    BY <2>2, <2>3
  <2>5. StoreOK'
    <3>1. [type |-> type, val |-> v] \in Objects
      BY <2>1 DEF Objects
    <3>2. heap' \in [DOMAIN heap' -> Objects]
      BY <2>3, <2>4, <3>1 DEF IInv, StoreOK
    <3>3. QED
      BY <1>2, <2>2, <2>4, <3>2 DEF IInv, StoreOK
  <2>6. NoDanglingSlot'
    BY <2>2, <2>4 DEF IInv, NoDanglingSlot
  <2>7. SlotsDiffer'
    BY <2>2 DEF IInv, SlotsDiffer, NoDanglingSlot
  <2>8. EveryObjectHasSlot'
    BY <2>2, <2>4 DEF IInv, EveryObjectHasSlot
  <2>9. HeldTyped'
    <3> SUFFICES ASSUME NEW k \in held'
                 PROVE  /\ k.idx \in Allocated'
                        /\ \E t \in Tags : k.tag = {t} /\ heap'[ptrs'[k.idx]].type = t
      BY DEF HeldTyped
    <3>1. CASE k \in held
      BY <2>2, <2>4, <3>1 DEF IInv, HeldTyped, NoDanglingSlot
    <3>2. CASE k = [tag |-> {type}, idx |-> h]
      BY <2>2, <2>4, <3>2
    <3>3. QED
      BY <2>3, <3>1, <3>2
  <2>10. QED
    BY <2>5, <2>6, <2>7, <2>8, <2>9 DEF IInv
<1>3. QED
  BY <1>1, <1>2, NewObjectCreates

\* Freeing a handle keeps the invariant: the slot and the object go together, and
\* the client no longer holds a handle with that index.
LEMMA FreeInv ==
    ASSUME IInv, NEW h, ta_entry_arith_free_handle(h)
    PROVE  IInv'
<1>1. PICK ptr \in Ptrs \cup {NULL} :
        /\ handle_put(h.idx, ptr)
        /\ IF ptr = NULL
           THEN UNCHANGED <<heap, held>>
           ELSE /\ heap' = [p \in DOMAIN heap \ {ptr} |-> heap[p]]
                /\ held' = {k \in held : k.idx # h.idx}
  BY Zenon DEF ta_entry_arith_free_handle, put_handle
<1>2. CASE h.idx \in Allocated
  <2>1. /\ ptr = ptrs[h.idx] /\ ptr # NULL
        /\ DbTypeOK'
        /\ Allocated' = Allocated \ {h.idx}
        /\ \A k \in Allocated' : ptrs'[k] = ptrs[k]
    BY <1>1, <1>2, DbAssumption DEF handle_put, Allocated, Slots, IInv, StoreOK, DbTypeOK
  <2>2. /\ heap' = [p \in DOMAIN heap \ {ptr} |-> heap[p]]
        /\ held' = {k \in held : k.idx # h.idx}
    BY <1>1, <2>1
  <2>3. StoreOK'
    BY <2>1, <2>2 DEF IInv, StoreOK
  <2>4. \A k \in Allocated' : ptrs'[k] \in DOMAIN heap' /\ heap'[ptrs'[k]] = heap[ptrs[k]]
    BY <1>2, <2>1, <2>2 DEF IInv, NoDanglingSlot, SlotsDiffer
  <2>5. NoDanglingSlot' /\ SlotsDiffer'
    BY <2>1, <2>4 DEF IInv, NoDanglingSlot, SlotsDiffer
  <2>6. EveryObjectHasSlot'
    BY <2>1, <2>2 DEF IInv, EveryObjectHasSlot
  <2>7. HeldTyped'
    BY <2>1, <2>2, <2>4 DEF IInv, HeldTyped
  <2>8. QED
    BY <2>3, <2>5, <2>6, <2>7 DEF IInv
<1>3. CASE h.idx \notin Allocated
  <2>1. UNCHANGED <<ptrs, max_ptrs, heap, held>>
    BY <1>1, <1>3 DEF handle_put, dbVars, Allocated, Slots, IInv, StoreOK, DbTypeOK
  <2>2. QED
    BY <2>1 DEF IInv, StoreOK, NoDanglingSlot, SlotsDiffer, EveryObjectHasSlot,
       HeldTyped, DbTypeOK, Allocated, Slots
<1>4. QED
  BY <1>2, <1>3

\* The inductive invariant.
LEMMA Inductive == Spec => []IInv
<1>1. Init => IInv
  BY DEF Init, DbInit, IInv, StoreOK, NoDanglingSlot, SlotsDiffer, EveryObjectHasSlot,
     HeldTyped, DbTypeOK, Allocated, Slots
<1>2. IInv /\ [Next]_vars => IInv'
  <2> SUFFICES ASSUME IInv, [Next]_vars
               PROVE  IInv'
    OBVIOUS
  <2>1. CASE Creates
    BY <2>1, NewObjectInv, ArithAssumption DEF Creates, Tags
  <2>2. ASSUME NEW h \in Passed, ta_entry_arith_free_handle(h)
        PROVE  IInv'
    BY <2>2, FreeInv
  <2>3. CASE OnlyValues
    BY <2>3 DEF OnlyValues, IInv, StoreOK, NoDanglingSlot, SlotsDiffer, EveryObjectHasSlot,
       HeldTyped, DbTypeOK, Allocated, Slots
  <2>4. CASE NewInstance
    BY <2>4 DEF NewInstance, IInv, StoreOK, NoDanglingSlot, SlotsDiffer, EveryObjectHasSlot,
       HeldTyped, DbTypeOK, Allocated, Slots
  <2>5. QED
    BY <2>1, <2>2, <2>3, <2>4, NextCases DEF IInv
<1>3. QED
  BY <1>1, <1>2, PTL DEF Spec

\* Whatever handles clients pass, no slot of the database points to freed memory.
THEOREM ArithNoDanglingSlot == Spec => []NoDanglingSlot
<1>1. IInv => NoDanglingSlot
  BY DEF IInv
<1>2. QED
  BY <1>1, Inductive, PTL

\* Every allocated object sits in exactly one slot: nothing leaks, nothing is
\* shared.
THEOREM ArithOneSlotPerObject == Spec => []OneSlotPerObject
<1>1. IInv => OneSlotPerObject
  BY DEF IInv, OneSlotPerObject, SlotsDiffer, EveryObjectHasSlot
<1>2. QED
  BY <1>1, Inductive, PTL

\* A handle that was given out and not freed resolves at its type.
THEOREM ArithHeldHandlesResolve == Spec => []HeldHandlesResolve
<1>1. IInv => HeldHandlesResolve
  BY DEF IInv, HeldTyped, HeldHandlesResolve, NoDanglingSlot, lookup_handle, handle_lookup,
     Allocated, StoreOK, DbTypeOK
<1>2. QED
  BY <1>1, Inductive, PTL

-----------------------------------------------------------------------------
(***************************************************************************)
(* The store of variables, for clients that pass the handles they hold and *)
(* handles that no slot has.                                               *)
(***************************************************************************)

\* A handle behind every slot: one that the array never reaches, or that no object ever
\* gets because all of them fit in front of it.
Harmless(h) == h.idx >= MaxPtrs \/ (IsFiniteSet(Ptrs) /\ h.idx >= Cardinality(Ptrs))
Disciplined == \A h \in Forged : Harmless(h)

\* Slots are taken from the front, so that the objects limit the indices.
RInv ==
    /\ held \subseteq Handles
    /\ max_ptrs <= MaxPtrs
    /\ IsFiniteSet(Ptrs) => \A n \in Allocated : n < Cardinality(Ptrs)

\* An object goes into the first slot that is empty: the slots in front of it hold as many
\* other objects.
LEMMA SlotInFront ==
    ASSUME IInv, IInv', IsFiniteSet(Ptrs), NEW type, NEW ptr, NEW h, NEW v, Created(type, ptr, h, v)
    PROVE  h < Cardinality(Ptrs)
<1> DEFINE f == [n \in 0..h |-> ptrs'[n]]
<1>1. h \in Nat /\ \A n \in 0..h : n \in Allocated'
  BY DbAssumption DEF Created
<1>2. \A n \in 0..h : ptrs'[n] \in Ptrs
  BY <1>1 DEF IInv, StoreOK, DbTypeOK, Allocated, Slots
<1>3. \A m, n \in 0..h : ptrs'[m] = ptrs'[n] => m = n
  BY <1>1 DEF IInv, SlotsDiffer
<1>4. f \in Injection(0..h, Ptrs)
  BY <1>2, <1>3 DEF Injection, IsInjective
<1>5. IsFiniteSet(0..h) /\ Cardinality(0..h) <= Cardinality(Ptrs)
  BY <1>4, FS_Injection
<1>6. Cardinality(0..h) = h + 1
  BY <1>1, FS_Interval
<1>7. Cardinality(Ptrs) \in Nat
  BY FS_CardinalityType
<1>8. QED
  BY <1>1, <1>5, <1>6, <1>7

\* The new slot and the new handle keep this.
LEMMA CreatedR ==
    ASSUME IInv, IInv', RInv, NEW type \in Tags, NEW ptr, NEW h, NEW v, Created(type, ptr, h, v)
    PROVE  RInv'
<1>1. [tag |-> {type}, idx |-> h] \in Handles
  BY DEF Created, Handles
<1>2. held' \subseteq Handles
  BY <1>1 DEF Created, RInv
<1>3. max_ptrs' <= MaxPtrs
  BY DEF Created, RInv
<1>4. IsFiniteSet(Ptrs) => \A n \in Allocated' : n < Cardinality(Ptrs)
  <2> SUFFICES ASSUME IsFiniteSet(Ptrs)
               PROVE  \A n \in Allocated' : n < Cardinality(Ptrs)
    OBVIOUS
  <2>1. h < Cardinality(Ptrs)
    BY SlotInFront
  <2>2. Allocated' = Allocated \cup {h}
    BY DEF Created
  <2>3. QED
    BY <2>1, <2>2 DEF RInv
<1>5. QED
  BY <1>2, <1>3, <1>4 DEF RInv

\* A handle that is passed and names an object is one that the client holds.
LEMMA ResolvingIsHeld ==
    ASSUME Disciplined, IInv, RInv, NEW h \in Passed, h.idx \in Allocated
    PROVE  h \in held
<1>1. ASSUME h \in Forged PROVE FALSE
  <2>1. h.idx \in Nat /\ h.idx < MaxPtrs /\ (IsFiniteSet(Ptrs) => h.idx < Cardinality(Ptrs))
    BY DbAssumption DEF IInv, StoreOK, DbTypeOK, RInv, Allocated, Slots
  <2>2. CASE h.idx >= MaxPtrs
    BY <2>1, <2>2, DbAssumption
  <2>3. CASE IsFiniteSet(Ptrs) /\ h.idx >= Cardinality(Ptrs)
    <3>1. Cardinality(Ptrs) \in Nat
      BY <2>3, FS_CardinalityType
    <3>2. QED
      BY <2>1, <2>3, <3>1
  <2>4. QED
    BY <1>1, <2>2, <2>3 DEF Disciplined, Harmless
<1>2. QED
  BY <1>1 DEF Passed

\* Held handles of one slot are one handle.
LEMMA HeldDiffer ==
    ASSUME IInv, RInv, NEW h \in held, NEW k \in held, h.idx = k.idx
    PROVE  h = k
<1>1. h.tag = k.tag
  BY DEF IInv, HeldTyped
<1>2. h \in Handles /\ k \in Handles
  BY DEF RInv
<1>3. QED
  BY <1>1, <1>2 DEF Handles

\* What a command on variables does: it fails, or it gives values to the objects of the held
\* handles that it names as results, each of which has the type it names.
Assigns ==
    /\ OnlyValues
    /\ \/ UNCHANGED heap /\ Failed
       \/ /\ Succeeded("command", reply'.dest)
          /\ \A r \in reply'.dest : r[2] \in held /\ heap[ptrs[r[2].idx]].type = r[1]
          /\ \A p \in DOMAIN heap :
                heap'[p] # heap[p] => \E r \in reply'.dest : p = ptrs[r[2].idx]

\* What the code makes of the handles is what the interface documents, but for a handle that
\* stands for no result.
Documented(cmd, args, results) ==
    Results(cmd, args) = {o \in results : o[2] # TA_CRYPT_ARITH_INVALID_HANDLE}

\* Every result that is found is the object of a handle that the client holds, at the type
\* by which it was looked up.
LEMMA CommandAssigns ==
    ASSUME Disciplined, IInv, RInv, NEW cmd, NEW args, NEW operands, NEW results,
           Command(cmd, args, operands, results),
           Documented(cmd, args, results), \A o \in results : o[2] \in Passed
    PROVE  Assigns
<1>1. OnlyValues
  BY CommandOnlyValues DEF IInv
<1>2. CASE UNCHANGED heap /\ Reply("command", "BAD_PARAMETERS")
  BY <1>1, <1>2 DEF Assigns, Reply, Failed
<1>3. CASE /\ Found(operands \cup results) /\ Assign(results)
           /\ Success("command", NULL, Results(cmd, args))
  <2>1. ASSUME NEW o \in results
        PROVE  /\ o[2] \in held /\ o[2] # TA_CRYPT_ARITH_INVALID_HANDLE
               /\ lookup_handle(o[1], o[2]) = ptrs[o[2].idx]
               /\ heap[ptrs[o[2].idx]].type = o[1]
    <3>1. lookup_handle(o[1], o[2]) # NULL
      BY <1>3 DEF Found
    <3>2. /\ o[2].tag = {o[1]} /\ o[2].idx \in Allocated
          /\ lookup_handle(o[1], o[2]) = ptrs[o[2].idx]
      BY <3>1 DEF lookup_handle, handle_lookup, Allocated
    <3>3. o[2] \in held
      BY <3>2, ResolvingIsHeld
    <3>4. heap[ptrs[o[2].idx]].type = o[1]
      BY <3>2, <3>3 DEF IInv, HeldTyped
    <3>5. o[2].idx < MaxPtrs
      BY <3>2, DbAssumption DEF IInv, StoreOK, DbTypeOK, RInv, Allocated, Slots
    <3>6. o[2] # TA_CRYPT_ARITH_INVALID_HANDLE
      BY <3>5, DbAssumption DEF TA_CRYPT_ARITH_INVALID_HANDLE
    <3>7. QED
      BY <3>2, <3>3, <3>4, <3>6
  <2>2. results = Results(cmd, args)
    BY <2>1 DEF Documented
  <2>3. Succeeded("command", reply'.dest) /\ reply'.dest = results
    BY <1>3, <2>2 DEF Success, Succeeded
  <2>4. \A p \in DOMAIN heap : heap'[p] # heap[p] => \E o \in results : lookup_handle(o[1], o[2]) = p
    BY <1>3 DEF Assign
  <2>5. \A p \in DOMAIN heap : heap'[p] # heap[p] => \E o \in results : p = ptrs[o[2].idx]
    BY <2>1, <2>4
  <2>6. \A o \in results : o[2] \in held /\ heap[ptrs[o[2].idx]].type = o[1]
    BY <2>1
  <2>7. QED
    BY <1>1, <2>3, <2>5, <2>6 DEF Assigns
<1>4. QED
  BY <1>2, <1>3 DEF Command

\* A result is one of the handles at the positions of the results.
LEMMA ResultMembers ==
    ASSUME NEW cmd, NEW args, NEW o
    PROVE  o \in Results(cmd, args) <=>
              \E r \in ResultAt[cmd] : /\ args[r[2]] # TA_CRYPT_ARITH_INVALID_HANDLE
                                      /\ o = <<r[1], args[r[2]]>>
BY Zenon DEF Results

\* The same for a command with two results.
LEMMA ResultsAtPositions ==
    ASSUME NEW cmd, NEW args, NEW p1, NEW p2, ResultAt[cmd] = {p1, p2}
    PROVE  \A o : o \in Results(cmd, args) <=>
              \/ args[p1[2]] # TA_CRYPT_ARITH_INVALID_HANDLE /\ o = <<p1[1], args[p1[2]]>>
              \/ args[p2[2]] # TA_CRYPT_ARITH_INVALID_HANDLE /\ o = <<p2[1], args[p2[2]]>>
<1>1. ASSUME NEW o \in Results(cmd, args)
      PROVE  \/ args[p1[2]] # TA_CRYPT_ARITH_INVALID_HANDLE /\ o = <<p1[1], args[p1[2]]>>
             \/ args[p2[2]] # TA_CRYPT_ARITH_INVALID_HANDLE /\ o = <<p2[1], args[p2[2]]>>
  <2>1. PICK r \in ResultAt[cmd] : /\ args[r[2]] # TA_CRYPT_ARITH_INVALID_HANDLE
                                   /\ o = <<r[1], args[r[2]]>>
    BY <1>1, ResultMembers
  <2>2. r = p1 \/ r = p2
    OBVIOUS
  <2>3. QED
    BY <2>1, <2>2, Zenon
<1>2. \A r \in ResultAt[cmd] : args[r[2]] # TA_CRYPT_ARITH_INVALID_HANDLE =>
                                 <<r[1], args[r[2]]>> \in Results(cmd, args)
  BY ResultMembers, Zenon
<1>3. p1 \in ResultAt[cmd] /\ p2 \in ResultAt[cmd]
  OBVIOUS
<1>4. QED
  BY <1>1, <1>2, <1>3, Zenon

\* The same for a command with one result.
LEMMA ResultAtPosition ==
    ASSUME NEW cmd, NEW args, NEW p, ResultAt[cmd] = {p}
    PROVE  \A o : o \in Results(cmd, args) <=>
                    args[p[2]] # TA_CRYPT_ARITH_INVALID_HANDLE /\ o = <<p[1], args[p[2]]>>
<1>1. ASSUME NEW o \in Results(cmd, args)
      PROVE  args[p[2]] # TA_CRYPT_ARITH_INVALID_HANDLE /\ o = <<p[1], args[p[2]]>>
  <2>1. PICK r \in ResultAt[cmd] : /\ args[r[2]] # TA_CRYPT_ARITH_INVALID_HANDLE
                                   /\ o = <<r[1], args[r[2]]>>
    BY <1>1, ResultMembers
  <2>2. r = p
    OBVIOUS
  <2>3. QED
    BY <2>1, <2>2, Zenon
<1>2. \A r \in ResultAt[cmd] : args[r[2]] # TA_CRYPT_ARITH_INVALID_HANDLE =>
                                 <<r[1], args[r[2]]>> \in Results(cmd, args)
  BY ResultMembers, Zenon
<1>3. p \in ResultAt[cmd]
  OBVIOUS
<1>4. QED
  BY <1>1, <1>2, <1>3, Zenon

\* Commands with one result, the n-th of their handles.
LEMMA OneResultAssigns ==
    ASSUME Disciplined, IInv, RInv, NEW cmd, NEW args, NEW operands, NEW type, NEW n,
           NEW d \in Passed, args[n] = d, ResultAt[cmd] = {<<type, n>>},
           NEW result, result = <<type, d>>, Command(cmd, args, operands, {result})
    PROVE  Assigns
<1> DEFINE pos == <<type, n>>
<1>1. pos[2] = n /\ result[2] = d /\ <<pos[1], args[pos[2]]>> = result
  OBVIOUS
<1>2. ResultAt[cmd] = {pos}
  OBVIOUS
<1> HIDE DEF pos
<1>3. \A o : o \in Results(cmd, args) <=> d # TA_CRYPT_ARITH_INVALID_HANDLE /\ o = result
  <2>1. args[pos[2]] = d
    BY <1>1
  <2>2. \A o : o \in Results(cmd, args) <=>
                  args[pos[2]] # TA_CRYPT_ARITH_INVALID_HANDLE /\ o = <<pos[1], args[pos[2]]>>
    BY <1>2, ResultAtPosition, SMTT(30)
  <2>3. QED
    BY <1>1, <2>1, <2>2, Zenon
<1>4. Documented(cmd, args, {result})
  BY <1>1, <1>3 DEF Documented
<1>5. \A o \in {result} : o[2] \in Passed
  BY <1>1
<1>6. QED
  BY <1>4, <1>5, CommandAssigns

\* Commands that only read.
LEMMA ReadAssigns ==
    ASSUME Disciplined, IInv, RInv, NEW args, NEW operands, Command("read", args, operands, {})
    PROVE  Assigns
<1>1. Results("read", args) = {}
  BY DEF Results, ResultAt
<1>2. QED
  BY <1>1, CommandAssigns DEF Documented

\* Where the results of the commands are.
LEMMA ResultPositions ==
    /\ ResultAt["set"] = {<<HT_BIGINT, 1>>}
    /\ ResultAt["unary"] = {<<HT_BIGINT, 2>>}
    /\ ResultAt["binary"] = {<<HT_BIGINT, 3>>}
    /\ ResultAt["ternary"] = {<<HT_BIGINT, 4>>}
    /\ ResultAt["to_fmm"] = {<<HT_FMMVAR, 4>>}
    /\ ResultAt["from_fmm"] = {<<HT_BIGINT, 4>>}
    /\ ResultAt["compute_fmm"] = {<<HT_FMMVAR, 5>>}
BY DEF ResultAt

\* The commands with more than one result.
LEMMA DivAssigns ==
    ASSUME Disciplined, IInv, RInv, NEW op1 \in Passed, NEW op2 \in Passed, NEW q \in Passed,
           NEW r \in Passed, ta_entry_arith_div(op1, op2, q, r)
    PROVE  Assigns
<1> DEFINE args == <<op1, op2, q, r>>
           p3 == <<HT_BIGINT, 3>>
           p4 == <<HT_BIGINT, 4>>
<1>1. ResultAt["div"] = {p3, p4}
  BY DEF ResultAt
<1>2. /\ args[p3[2]] = q /\ <<p3[1], args[p3[2]]>> = Big(q)
      /\ args[p4[2]] = r /\ <<p4[1], args[p4[2]]>> = Big(r)
  BY DEF Big
<1>3. Command("div", args, {Big(op1), Big(op2)}, {Big(q), Big(r)})
  BY DEF ta_entry_arith_div
<1>4. \A h : Big(h) = <<HT_BIGINT, h>> /\ Big(h)[2] = h
  BY DEF Big
<1> HIDE DEF args, p3, p4
<1>5. \A o : o \in Results("div", args) <=>
              \/ q # TA_CRYPT_ARITH_INVALID_HANDLE /\ o = Big(q)
              \/ r # TA_CRYPT_ARITH_INVALID_HANDLE /\ o = Big(r)
  <2>1. ResultAt["div"] = {p3, p4}
    BY <1>1
  <2>2. \A o : o \in Results("div", args) <=>
                  \/ args[p3[2]] # TA_CRYPT_ARITH_INVALID_HANDLE /\ o = <<p3[1], args[p3[2]]>>
                  \/ args[p4[2]] # TA_CRYPT_ARITH_INVALID_HANDLE /\ o = <<p4[1], args[p4[2]]>>
    BY <2>1, ResultsAtPositions, SMTT(30)
  <2>3. QED
    BY <1>2, <2>2, Zenon
<1>6. Documented("div", args, {Big(q), Big(r)})
  BY <1>4, <1>5 DEF Documented
<1>7. \A o \in {Big(q), Big(r)} : o[2] \in Passed
  BY <1>4
<1>8. QED
  BY <1>3, <1>6, <1>7, CommandAssigns

\* The results of the extended greatest common divisor.
LEMMA EgcdResults ==
    ASSUME NEW args
    PROVE  LET p3 == <<HT_BIGINT, 3>>
               p4 == <<HT_BIGINT, 4>>
               p5 == <<HT_BIGINT, 5>>
           IN  \A o : o \in Results("egcd", args) <=>
                  \/ args[p3[2]] # TA_CRYPT_ARITH_INVALID_HANDLE /\ o = <<p3[1], args[p3[2]]>>
                  \/ args[p4[2]] # TA_CRYPT_ARITH_INVALID_HANDLE /\ o = <<p4[1], args[p4[2]]>>
                  \/ args[p5[2]] # TA_CRYPT_ARITH_INVALID_HANDLE /\ o = <<p5[1], args[p5[2]]>>
<1> DEFINE p3 == <<HT_BIGINT, 3>>
           p4 == <<HT_BIGINT, 4>>
           p5 == <<HT_BIGINT, 5>>
<1>1. ResultAt["egcd"] = {p3, p4, p5}
  BY DEF ResultAt
<1> HIDE DEF p3, p4, p5
<1>2. \A o : o \in Results("egcd", args) <=>
              \/ args[p3[2]] # TA_CRYPT_ARITH_INVALID_HANDLE /\ o = <<p3[1], args[p3[2]]>>
              \/ args[p4[2]] # TA_CRYPT_ARITH_INVALID_HANDLE /\ o = <<p4[1], args[p4[2]]>>
              \/ args[p5[2]] # TA_CRYPT_ARITH_INVALID_HANDLE /\ o = <<p5[1], args[p5[2]]>>
  <2>1. ASSUME NEW o \in Results("egcd", args)
        PROVE  \/ args[p3[2]] # TA_CRYPT_ARITH_INVALID_HANDLE /\ o = <<p3[1], args[p3[2]]>>
               \/ args[p4[2]] # TA_CRYPT_ARITH_INVALID_HANDLE /\ o = <<p4[1], args[p4[2]]>>
               \/ args[p5[2]] # TA_CRYPT_ARITH_INVALID_HANDLE /\ o = <<p5[1], args[p5[2]]>>
    <3>1. PICK r \in ResultAt["egcd"] : /\ args[r[2]] # TA_CRYPT_ARITH_INVALID_HANDLE
                                        /\ o = <<r[1], args[r[2]]>>
      BY <2>1, ResultMembers
    <3>2. r = p3 \/ r = p4 \/ r = p5
      BY <1>1
    <3>3. QED
      BY <3>1, <3>2, Zenon
  <2>2. \A r \in ResultAt["egcd"] : args[r[2]] # TA_CRYPT_ARITH_INVALID_HANDLE =>
                                     <<r[1], args[r[2]]>> \in Results("egcd", args)
    BY ResultMembers, Zenon
  <2>3. p3 \in ResultAt["egcd"] /\ p4 \in ResultAt["egcd"] /\ p5 \in ResultAt["egcd"]
    BY <1>1
  <2>4. QED
    BY <2>1, <2>2, <2>3, Zenon
<1>3. QED
  BY <1>2 DEF p3, p4, p5

\* As above; a cofactor that the client does not want is no result.
LEMMA EgcdAssigns ==
    ASSUME Disciplined, IInv, RInv, Egcd
    PROVE  Assigns
<1>1. PICK op1 \in Passed, op2 \in Passed, gcd \in Passed,
           u \in Passed \cup {TA_CRYPT_ARITH_INVALID_HANDLE},
           v \in Passed \cup {TA_CRYPT_ARITH_INVALID_HANDLE} :
           ta_entry_arith_compute_egcd(op1, op2, u, v, gcd)
  BY DEF Egcd
<1> DEFINE args == <<op1, op2, u, v, gcd>>
           results == {Big(gcd)} \cup {Big(h) : h \in {u, v} \ {TA_CRYPT_ARITH_INVALID_HANDLE}}
           p3 == <<HT_BIGINT, 3>>
           p4 == <<HT_BIGINT, 4>>
           p5 == <<HT_BIGINT, 5>>
<1>2. Command("egcd", args, {Big(op1), Big(op2)}, results)
  BY <1>1 DEF ta_entry_arith_compute_egcd
<1>3. /\ args[p3[2]] = u /\ <<p3[1], args[p3[2]]>> = Big(u)
      /\ args[p4[2]] = v /\ <<p4[1], args[p4[2]]>> = Big(v)
      /\ args[p5[2]] = gcd /\ <<p5[1], args[p5[2]]>> = Big(gcd)
  BY DEF Big
<1>5. \A h : Big(h) = <<HT_BIGINT, h>> /\ Big(h)[2] = h
  BY DEF Big
<1>6. \A o \in results :
          \/ o = Big(gcd)
          \/ u # TA_CRYPT_ARITH_INVALID_HANDLE /\ o = Big(u)
          \/ v # TA_CRYPT_ARITH_INVALID_HANDLE /\ o = Big(v)
  OBVIOUS
<1>7. /\ Big(gcd) \in results
      /\ u # TA_CRYPT_ARITH_INVALID_HANDLE => Big(u) \in results
      /\ v # TA_CRYPT_ARITH_INVALID_HANDLE => Big(v) \in results
  OBVIOUS
<1> HIDE DEF args, p3, p4, p5, results
<1>8. \A o : o \in Results("egcd", args) <=>
              \/ u # TA_CRYPT_ARITH_INVALID_HANDLE /\ o = Big(u)
              \/ v # TA_CRYPT_ARITH_INVALID_HANDLE /\ o = Big(v)
              \/ gcd # TA_CRYPT_ARITH_INVALID_HANDLE /\ o = Big(gcd)
  <2>1. \A o : o \in Results("egcd", args) <=>
                  \/ args[p3[2]] # TA_CRYPT_ARITH_INVALID_HANDLE /\ o = <<p3[1], args[p3[2]]>>
                  \/ args[p4[2]] # TA_CRYPT_ARITH_INVALID_HANDLE /\ o = <<p4[1], args[p4[2]]>>
                  \/ args[p5[2]] # TA_CRYPT_ARITH_INVALID_HANDLE /\ o = <<p5[1], args[p5[2]]>>
    BY EgcdResults DEF p3, p4, p5
  <2>2. QED
    BY <1>3, <2>1, Zenon
<1>9. Documented("egcd", args, results)
  <2>1. \A o : o \in Results("egcd", args) <=>
                  o \in results /\ o[2] # TA_CRYPT_ARITH_INVALID_HANDLE
    <3>1. \A o : o \in Results("egcd", args) =>
                    o \in results /\ o[2] # TA_CRYPT_ARITH_INVALID_HANDLE
      BY <1>5, <1>7, <1>8
    <3>2. \A o : o \in results /\ o[2] # TA_CRYPT_ARITH_INVALID_HANDLE =>
                    o \in Results("egcd", args)
      BY <1>5, <1>6, <1>8
    <3>3. QED
      BY <3>1, <3>2
  <2>2. QED
    BY <2>1 DEF Documented
<1>10. \A o \in results : o[2] \in Passed
  BY <1>5, <1>6
<1>11. QED
  BY <1>2, <1>9, <1>10, CommandAssigns

\* As NextCases, for clients that forge no handle the database has.
LEMMA NextAssigns ==
    ASSUME Disciplined, IInv, RInv, Next
    PROVE  \/ Creates
           \/ \E h \in Passed : ta_entry_arith_free_handle(h)
           \/ Assigns
           \/ NewInstance
<1>0. UNCHANGED store /\ Failed => Assigns
  BY DEF Assigns, OnlyValues, IInv, StoreOK, store
<1>1. CASE ta_entry_arith_new_var \/ ta_entry_arith_new_fmm_var
  BY <1>1 DEF Creates, ta_entry_arith_new_var, ta_entry_arith_new_fmm_var
<1>2. ASSUME NEW h \in Passed, OnOne(h)
      PROVE  \/ Creates
             \/ ta_entry_arith_free_handle(h)
             \/ Assigns
  <2>0. <<h>>[1] = h
    OBVIOUS
  <2>1. CASE ta_entry_arith_new_fmm_ctx(h)
    BY <1>0, <2>1 DEF Creates, ta_entry_arith_new_fmm_ctx, Reply, Failed
  <2>2. CASE ta_entry_arith_from_octet_string(h) \/ ta_entry_arith_from_s32(h)
    <3>1. CASE Command("set", <<h>>, {}, {Big(h)})
      BY <2>0, <3>1, OneResultAssigns, ResultPositions DEF Big
    <3>2. CASE UNCHANGED store /\ Reply("command", "OVERFLOW")
      BY <1>0, <3>2 DEF Reply, Failed
    <3>3. QED
      BY <2>2, <3>1, <3>2 DEF ta_entry_arith_from_octet_string, ta_entry_arith_from_s32
  <2>3. CASE \/ ta_entry_arith_get_value(h) \/ ta_entry_arith_get_value_s32(h)
             \/ ta_entry_arith_get_bit(h) \/ ta_entry_arith_get_bit_count(h)
             \/ ta_entry_arith_cmp_s32(h) \/ ta_entry_arith_is_prime(h)
    <3>1. CASE Command("read", <<h>>, {Big(h)}, {})
      BY <3>1, ReadAssigns
    <3>2. CASE UNCHANGED store /\ Reply("command", "SHORT_BUFFER")
      BY <1>0, <3>2 DEF Reply, Failed
    <3>3. QED
      BY <2>3, <3>1, <3>2
         DEF ta_entry_arith_get_value, ta_entry_arith_get_value_s32, ReadOne,
             ta_entry_arith_get_bit, ta_entry_arith_get_bit_count,
             ta_entry_arith_cmp_s32, ta_entry_arith_is_prime
  <2>4. QED
    BY <1>2, <2>1, <2>2, <2>3 DEF OnOne
<1>3. ASSUME NEW h1 \in Passed, NEW h2 \in Passed,
             OnTwo(h1, h2) \/ unary_func(h1, h2)
      PROVE  Assigns
  <2>1. <<h1, h2>>[2] = h2
    OBVIOUS
  <2>2. CASE Command("unary", <<h1, h2>>, {Big(h1)}, {Big(h2)})
    BY <2>1, <2>2, OneResultAssigns, ResultPositions DEF Big
  <2>3. QED
    BY <1>3, <2>2, ReadAssigns DEF OnTwo, ta_entry_arith_cmp, ta_entry_arith_is_rel_prime,
       ta_entry_arith_shift_right, unary_func
<1>4. ASSUME NEW h1 \in Passed, NEW h2 \in Passed, NEW h3 \in Passed, binary_func(h1, h2, h3)
      PROVE  Assigns
  <2>1. <<h1, h2, h3>>[3] = h3
    OBVIOUS
  <2>2. QED
    BY <1>4, <2>1, OneResultAssigns, ResultPositions DEF binary_func, Big
<1>5. ASSUME NEW h1 \in Passed, NEW h2 \in Passed, NEW h3 \in Passed, NEW h4 \in Passed,
             OnFour(h1, h2, h3, h4) \/ ternary_func(h1, h2, h3, h4)
      PROVE  Assigns
  <2>1. <<h1, h2, h3, h4>>[4] = h4
    OBVIOUS
  <2>2. CASE ta_entry_arith_div(h1, h2, h3, h4)
    BY <2>2, DivAssigns
  <2>3. CASE ta_entry_arith_to_fmm(h1, h2, h3, h4)
    BY <2>1, <2>3, OneResultAssigns, ResultPositions DEF ta_entry_arith_to_fmm, Fmm
  <2>4. CASE ta_entry_arith_from_fmm(h1, h2, h3, h4)
    BY <2>1, <2>4, OneResultAssigns, ResultPositions DEF ta_entry_arith_from_fmm, Big
  <2>5. CASE ternary_func(h1, h2, h3, h4)
    BY <2>1, <2>5, OneResultAssigns, ResultPositions DEF ternary_func, Big
  <2>6. QED
    BY <1>5, <2>2, <2>3, <2>4, <2>5 DEF OnFour
<1>6. ASSUME NEW h1 \in Passed, NEW h2 \in Passed, NEW h3 \in Passed, NEW h4 \in Passed,
             NEW h5 \in Passed, ta_entry_arith_compute_fmm(h1, h2, h3, h4, h5)
      PROVE  Assigns
  <2>1. <<h1, h2, h3, h4, h5>>[5] = h5
    OBVIOUS
  <2>2. QED
    BY <1>6, <2>1, OneResultAssigns, ResultPositions DEF ta_entry_arith_compute_fmm, Fmm
<1>7. CASE UnaryCommand \/ BinaryCommand \/ TernaryCommand
  BY <1>3, <1>4, <1>5, <1>7 DEF UnaryCommand, BinaryCommand, TernaryCommand
<1>8. QED
  BY <1>1, <1>2, <1>3, <1>5, <1>6, <1>7, EgcdAssigns DEF Next, ComputeFmm

\* What freeing a handle does: nothing when no slot has it, else slot, object and
\* handle go together.
LEMMA FreeEffect ==
    ASSUME IInv, NEW h, ta_entry_arith_free_handle(h)
    PROVE  \/ UNCHANGED <<ptrs, max_ptrs, heap, held>> /\ Failed
           \/ /\ h.idx \in Allocated
              /\ Succeeded("free_handle", {<<t, h>> : t \in h.tag})
              /\ Allocated' = Allocated \ {h.idx}
              /\ \A k \in Allocated' : ptrs'[k] = ptrs[k]
              /\ max_ptrs' = max_ptrs
              /\ heap' = [p \in DOMAIN heap \ {ptrs[h.idx]} |-> heap[p]]
              /\ held' = {k \in held : k.idx # h.idx}
<1>1. PICK ptr \in Ptrs \cup {NULL} :
        /\ handle_put(h.idx, ptr)
        /\ IF ptr = NULL
           THEN UNCHANGED <<heap, held>> /\ Reply("free_handle", "BAD_PARAMETERS")
           ELSE /\ heap' = [p \in DOMAIN heap \ {ptr} |-> heap[p]]
                /\ held' = {k \in held : k.idx # h.idx}
                /\ Success("free_handle", NULL, {<<t, h>> : t \in h.tag})
  BY Zenon DEF ta_entry_arith_free_handle, put_handle
<1>2. CASE h.idx \in Allocated
  <2>1. /\ ptr = ptrs[h.idx] /\ ptr # NULL /\ max_ptrs' = max_ptrs
        /\ Allocated' = Allocated \ {h.idx}
        /\ \A k \in Allocated' : ptrs'[k] = ptrs[k]
    BY <1>1, <1>2, DbAssumption DEF handle_put, Allocated, Slots, IInv, StoreOK, DbTypeOK
  <2>2. Succeeded("free_handle", {<<t, h>> : t \in h.tag})
    BY <1>1, <2>1 DEF Success, Succeeded
  <2>3. QED
    BY <1>1, <1>2, <2>1, <2>2
<1>3. CASE h.idx \notin Allocated
  <2>1. ptr = NULL /\ UNCHANGED <<ptrs, max_ptrs>>
    BY <1>1, <1>3 DEF handle_put, dbVars, Allocated, Slots, IInv, StoreOK, DbTypeOK
  <2>2. QED
    BY <1>1, <2>1 DEF Reply, Failed
<1>4. QED
  BY <1>2, <1>3

\* Together with IInv this is inductive.
LEMMA RInductive ==
    ASSUME IInv, IInv', RInv, [Next]_vars
    PROVE  RInv'
<1>1. CASE Creates
  <2>1. ASSUME NEW cmd, NEW type \in Tags, NEW vals, NewObject(cmd, type, vals)
        PROVE  RInv'
    <3>1. CASE UNCHANGED <<ptrs, max_ptrs, heap, held>>
      BY <3>1 DEF RInv, Allocated, Slots
    <3>2. CASE \E ptr, h, v : v \in vals /\ Created(type, ptr, h, v)
      BY <3>2, CreatedR
    <3>3. QED
      BY <2>1, <3>1, <3>2, NewObjectCreates
  <2>2. QED
    BY <1>1, <2>1 DEF Creates, Tags
<1>2. ASSUME NEW h \in Passed, ta_entry_arith_free_handle(h)
      PROVE  RInv'
  <2>1. CASE UNCHANGED <<ptrs, max_ptrs, heap, held>>
    BY <2>1 DEF RInv, Allocated, Slots
  <2>2. CASE /\ Allocated' = Allocated \ {h.idx}
             /\ max_ptrs' = max_ptrs
             /\ held' = {k \in held : k.idx # h.idx}
    BY <2>2 DEF RInv
  <2>3. QED
    BY <1>2, <2>1, <2>2, FreeEffect
<1>3. CASE OnlyValues
  BY <1>3 DEF OnlyValues, RInv, Allocated, Slots
<1>4. CASE NewInstance
  BY <1>4, DbAssumption DEF NewInstance, RInv, Allocated, Slots
<1>5. QED
  BY <1>1, <1>2, <1>3, <1>4, NextCases DEF IInv

-----------------------------------------------------------------------------
\* What a client sees of a held handle is the object in its slot.
LEMMA ViewAt ==
    ASSUME IInv, IInv'
    PROVE  /\ DOMAIN ClientView = held /\ DOMAIN ClientView' = held'
           /\ \A h \in held : /\ h.idx \in Allocated /\ ptrs[h.idx] \in DOMAIN heap
                              /\ ClientView[h] = heap[ptrs[h.idx]]
           /\ \A h \in held' : /\ h.idx \in Allocated' /\ ptrs'[h.idx] \in DOMAIN heap'
                               /\ ClientView'[h] = heap'[ptrs'[h.idx]]
<1>1. DOMAIN ClientView = held /\ DOMAIN ClientView' = held'
  BY DEF ClientView
<1>2. ASSUME NEW h \in held
      PROVE  /\ h.idx \in Allocated /\ ptrs[h.idx] \in DOMAIN heap
             /\ ClientView[h] = heap[ptrs[h.idx]]
  <2>1. h.idx \in Allocated
    BY DEF IInv, HeldTyped
  <2>2. handle_lookup(h.idx) = ptrs[h.idx]
    BY <2>1 DEF handle_lookup, Allocated
  <2>3. QED
    BY <2>1, <2>2 DEF ClientView, IInv, NoDanglingSlot
<1>3. ASSUME NEW h \in held'
      PROVE  /\ h.idx \in Allocated' /\ ptrs'[h.idx] \in DOMAIN heap'
             /\ ClientView'[h] = heap'[ptrs'[h.idx]]
  <2>1. h.idx \in Allocated'
    BY DEF IInv, HeldTyped
  <2>2. handle_lookup(h.idx)' = ptrs'[h.idx]
    BY <2>1 DEF handle_lookup, Allocated
  <2>3. QED
    BY <2>1, <2>2 DEF ClientView, IInv, NoDanglingSlot
<1>4. QED
  BY <1>1, <1>2, <1>3

\* A step that leaves the database, the heap and the handles alone is a stutter.
LEMMA SameView ==
    ASSUME UNCHANGED <<ptrs, max_ptrs, heap, held>>
    PROVE  ClientView' = ClientView
BY DEF ClientView, handle_lookup, Slots

\* Creating an object adds one variable, at a handle that was not in use.
LEMMA CreatedIsNew ==
    ASSUME IInv, IInv', NEW cmd \in {"new_var", "new_fmm_ctx", "new_fmm_var"},
           NEW type, NEW ptr, NEW h, NEW v, Created(type, ptr, h, v),
           ResultAt[cmd] = {<<type, 1>>},
           Succeeded(cmd, Results(cmd, <<[tag |-> {type}, idx |-> h]>>)), max_ptrs' <= MaxPtrs
    PROVE  Variables!New
<1> DEFINE new == [tag |-> {type}, idx |-> h]
<1>1. new \notin held /\ held' = held \cup {new}
  BY ViewAt DEF Created
<1>2. ClientView'[new].type = type
  <2>1. ClientView'[new] = heap'[ptrs'[h]]
    BY <1>1, ViewAt
  <2>2. heap'[ptrs'[h]] = [type |-> type, val |-> v]
    BY DEF Created
  <2>3. QED
    BY <2>1, <2>2
<1>3. \A k \in held : ClientView'[k] = ClientView[k]
  <2> SUFFICES ASSUME NEW k \in held PROVE ClientView'[k] = ClientView[k]
    OBVIOUS
  <2>1. ClientView[k] = heap[ptrs[k.idx]] /\ ptrs[k.idx] \in DOMAIN heap /\ k.idx \in Allocated
    BY ViewAt
  <2>2. ClientView'[k] = heap'[ptrs'[k.idx]]
    BY <1>1, ViewAt
  <2>3. heap'[ptrs'[k.idx]] = heap[ptrs[k.idx]]
    BY <2>1 DEF Created
  <2>4. QED
    BY <2>1, <2>2, <2>3
<1>4. new.tag = {type}
  OBVIOUS
<1>5. reply'.dest = {<<type, new>>}
  <2>1. new # TA_CRYPT_ARITH_INVALID_HANDLE
    <3>1. h \in Allocated'
      BY DEF Created
    <3>2. h < MaxPtrs
      BY <3>1, DbAssumption DEF IInv, StoreOK, DbTypeOK, Allocated, Slots
    <3>3. QED
      BY <3>2, DbAssumption DEF TA_CRYPT_ARITH_INVALID_HANDLE
  <2> DEFINE pos == <<type, 1>>
             args == <<new>>
  <2>2. ResultAt[cmd] = {pos} /\ args[pos[2]] = new /\ <<pos[1], args[pos[2]]>> = <<type, new>>
    OBVIOUS
  <2>3. reply'.dest = Results(cmd, args)
    BY DEF Succeeded
  <2> HIDE DEF new, pos, args
  <2>4. \A o : o \in Results(cmd, args) <=> o = <<type, new>>
    <3>1. \A o : o \in Results(cmd, args) <=>
                    args[pos[2]] # TA_CRYPT_ARITH_INVALID_HANDLE /\ o = <<pos[1], args[pos[2]]>>
      BY <2>2, ResultAtPosition, SMTT(30)
    <3>2. QED
      BY <2>1, <2>2, <3>1, Zenon
  <2>5. QED
    BY <2>3, <2>4
<1> HIDE DEF new
<1>6. DOMAIN ClientView = held /\ DOMAIN ClientView' = held'
  BY ViewAt
<1>7. new \in DOMAIN ClientView' \ DOMAIN ClientView /\ DOMAIN ClientView' = DOMAIN ClientView \cup {new}
  BY <1>1, <1>6
<1>8. new.tag = {ClientView'[new].type} /\ reply'.dest = {<<ClientView'[new].type, new>>}
  BY <1>2, <1>4, <1>5
<1>9. Variables!Succeeds({"new_var", "new_fmm_ctx", "new_fmm_var"})
  BY DEF Succeeded, Variables!Succeeds
<1>10. QED
  BY <1>3, <1>6, <1>7, <1>8, <1>9 DEF Variables!New

\* A command that fails does nothing.
LEMMA FailedIsFail ==
    ASSUME Failed, UNCHANGED <<ptrs, max_ptrs, heap, held>>
    PROVE  Variables!Fail
BY SameView DEF Failed, Variables!Fail

\* Creation as a step of the store.
LEMMA CreatesIsNew ==
    ASSUME IInv, IInv', RInv', Creates
    PROVE  Variables!New \/ Variables!Fail
<1>1. max_ptrs' <= MaxPtrs
  BY DEF RInv
<1>2. ASSUME NEW cmd \in {"new_var", "new_fmm_ctx", "new_fmm_var"}, NEW type \in Tags,
             NEW vals, NewObject(cmd, type, vals), ResultAt[cmd] = {<<type, 1>>}
      PROVE  Variables!New \/ Variables!Fail
  <2>1. CASE UNCHANGED <<ptrs, max_ptrs, heap, held>> /\ Failed
    BY <2>1, FailedIsFail
  <2>2. ASSUME NEW ptr, NEW h, NEW v, Created(type, ptr, h, v),
               Succeeded(cmd, Results(cmd, <<[tag |-> {type}, idx |-> h]>>))
        PROVE  Variables!New
    BY <1>1, <1>2, <2>2, CreatedIsNew
  <2>3. QED
    BY <1>2, <2>1, <2>2, NewObjectCreates
<1>3. /\ ResultAt["new_var"] = {<<HT_BIGINT, 1>>}
      /\ ResultAt["new_fmm_ctx"] = {<<HT_FMMCTX, 1>>}
      /\ ResultAt["new_fmm_var"] = {<<HT_FMMVAR, 1>>}
  BY DEF ResultAt
<1>4. QED
  BY <1>2, <1>3 DEF Creates, Tags

\* Freeing a handle that an object has deletes the variable of the one handle that names it.
LEMMA FreeIsDelete ==
    ASSUME Disciplined, IInv, IInv', RInv, NEW h \in Passed, ta_entry_arith_free_handle(h)
    PROVE  Variables!Delete \/ Variables!Fail
<1>1. CASE UNCHANGED <<ptrs, max_ptrs, heap, held>> /\ Failed
  BY <1>1, FailedIsFail
<1>2. CASE /\ h.idx \in Allocated
           /\ Succeeded("free_handle", {<<t, h>> : t \in h.tag})
           /\ Allocated' = Allocated \ {h.idx}
           /\ \A k \in Allocated' : ptrs'[k] = ptrs[k]
           /\ max_ptrs' = max_ptrs
           /\ heap' = [p \in DOMAIN heap \ {ptrs[h.idx]} |-> heap[p]]
           /\ held' = {k \in held : k.idx # h.idx}
  <2>1. h \in held
    BY <1>2, ResolvingIsHeld
  <2>2. held' = held \ {h}
    BY <1>2, <2>1, HeldDiffer
  <2>3. DOMAIN ClientView = held /\ DOMAIN ClientView' = held \ {h}
    BY <2>2, ViewAt
  <2>4. ASSUME NEW k \in held \ {h}
        PROVE  ClientView'[k] = ClientView[k]
    <3>1. /\ k.idx \in Allocated /\ ptrs[k.idx] \in DOMAIN heap
          /\ ClientView[k] = heap[ptrs[k.idx]]
          /\ k.idx \in Allocated' /\ ClientView'[k] = heap'[ptrs'[k.idx]]
      BY <2>2, ViewAt
    <3>2. ptrs'[k.idx] = ptrs[k.idx] /\ ptrs[k.idx] # ptrs[h.idx]
      BY <1>2, <3>1 DEF IInv, SlotsDiffer
    <3>3. heap'[ptrs[k.idx]] = heap[ptrs[k.idx]]
      BY <1>2, <3>1, <3>2
    <3>4. QED
      BY <3>1, <3>2, <3>3
  <2>5. ClientView' = [k \in held \ {h} |-> ClientView[k]]
    <3>1. ClientView' = [k \in held' |-> ClientView'[k]]
      BY ViewAt DEF ClientView
    <3>2. QED
      BY <2>2, <2>4, <3>1
  <2>6. reply'.dest = {<<ClientView[h].type, h>>}
    <3>1. h.tag = {ClientView[h].type}
      BY <2>1, ViewAt DEF IInv, HeldTyped
    <3>2. reply'.dest = {<<t, h>> : t \in h.tag}
      BY <1>2 DEF Succeeded
    <3>3. QED
      BY <3>1, <3>2
  <2>7. Variables!Succeeds({"free_handle"})
    BY <1>2 DEF Succeeded, Variables!Succeeds
  <2>8. QED
    BY <2>1, <2>3, <2>5, <2>6, <2>7 DEF Variables!Delete
<1>3. QED
  BY <1>1, <1>2, FreeEffect

\* A command assigns to the variables of the results it names and to no others.
LEMMA AssignsIsAssign ==
    ASSUME IInv, IInv', RInv, Assigns
    PROVE  Variables!Assign \/ Variables!Fail
<1>1. CASE UNCHANGED heap /\ Failed
  BY <1>1, FailedIsFail DEF Assigns, OnlyValues
<1>2. CASE /\ Succeeded("command", reply'.dest)
           /\ \A r \in reply'.dest : r[2] \in held /\ heap[ptrs[r[2].idx]].type = r[1]
           /\ \A p \in DOMAIN heap :
                 heap'[p] # heap[p] => \E r \in reply'.dest : p = ptrs[r[2].idx]
  <2>1. held' = held /\ ptrs' = ptrs
    BY DEF Assigns, OnlyValues
  <2>2. DOMAIN ClientView = held /\ DOMAIN ClientView' = DOMAIN ClientView
    BY <2>1, ViewAt
  <2>3. ASSUME NEW h \in held
        PROVE  /\ h.idx \in Allocated /\ ptrs[h.idx] \in DOMAIN heap
               /\ ClientView[h] = heap[ptrs[h.idx]] /\ ClientView'[h] = heap'[ptrs[h.idx]]
               /\ ClientView'[h].type = ClientView[h].type /\ ClientView'[h].val \in Vals
    <3>1. /\ h.idx \in Allocated /\ ptrs[h.idx] \in DOMAIN heap
          /\ ClientView[h] = heap[ptrs[h.idx]] /\ ClientView'[h] = heap'[ptrs[h.idx]]
      BY <2>1, ViewAt
    <3>2. heap'[ptrs[h.idx]] \in Objects /\ heap'[ptrs[h.idx]].type = heap[ptrs[h.idx]].type
      BY <3>1 DEF Assigns, OnlyValues
    <3>3. QED
      BY <3>1, <3>2 DEF Objects
  <2>4. ASSUME NEW r \in reply'.dest
        PROVE  /\ r[2] \in DOMAIN ClientView
               /\ ClientView[r[2]].type = r[1]
               /\ ClientView'[r[2]].type = r[1]
               /\ ClientView'[r[2]].val \in Vals
    BY <1>2, <2>2, <2>3
  <2>5. ASSUME NEW h \in DOMAIN ClientView, \A r \in reply'.dest : r[2] # h
        PROVE  ClientView'[h] = ClientView[h]
    <3>1. SUFFICES ASSUME heap'[ptrs[h.idx]] # heap[ptrs[h.idx]] PROVE FALSE
      BY <2>2, <2>3
    <3>2. PICK r \in reply'.dest : ptrs[h.idx] = ptrs[r[2].idx]
      BY <1>2, <2>2, <2>3, <3>1
    <3>3. r[2] \in held /\ h \in held
      BY <1>2, <2>2
    <3>4. h.idx = r[2].idx
      BY <2>3, <3>2, <3>3 DEF IInv, SlotsDiffer
    <3>5. QED
      BY <2>5, <3>3, <3>4, HeldDiffer
  <2>6. Variables!Succeeds({"command"})
    BY <1>2 DEF Succeeded, Variables!Succeeds
  <2>7. QED
    BY <2>2, <2>4, <2>5, <2>6 DEF Variables!Assign
<1>3. QED
  BY <1>1, <1>2 DEF Assigns

\* Every step of the commands is a step of the store of variables or none.
LEMMA NextRefines ==
    ASSUME Disciplined, IInv, IInv', RInv, RInv', [Next]_vars
    PROVE  Variables!StoreNext \/ UNCHANGED <<ClientView, reply>>
<1>1. CASE Creates
  BY <1>1, CreatesIsNew DEF Variables!StoreNext
<1>2. ASSUME NEW h \in Passed, ta_entry_arith_free_handle(h)
      PROVE  Variables!StoreNext
  BY <1>2, FreeIsDelete DEF Variables!StoreNext
<1>3. CASE Assigns
  BY <1>3, AssignsIsAssign DEF Variables!StoreNext
<1>4. CASE NewInstance
  <2>1. ClientView' = << >>
    BY <1>4 DEF NewInstance, ClientView
  <2>2. Variables!Succeeds({"none"})
    BY <1>4 DEF NewInstance, Reply, Variables!Succeeds
  <2>3. QED
    BY <2>1, <2>2 DEF Variables!StoreNext, Variables!Forget
<1>5. CASE UNCHANGED vars
  BY <1>5, SameView DEF vars
<1>6. QED
  BY <1>1, <1>2, <1>3, <1>4, <1>5, NextAssigns

\* For clients that follow ta_crypt.h, which pass the handles they hold and others that no
\* object can have, the commands implement a store of typed variables: a command that succeeds
\* adds, deletes or changes the variables that ta_crypt.h names as its results, at the types
\* it names, and no others; a command that fails changes nothing.
THEOREM ArithImplementsVarStore == ASSUME Disciplined PROVE Spec => ImplementsVarStore
<1>1. Init => RInv /\ Variables!StoreInit
  BY DbAssumption DEF Init, DbInit, RInv, Allocated, Slots, ClientView, Variables!StoreInit
<1>2. IInv /\ IInv' /\ RInv /\ [Next]_vars =>
          RInv' /\ [Variables!StoreNext]_<<ClientView, reply>>
  BY RInductive, NextRefines
<1>3. QED
  BY <1>1, <1>2, Inductive, PTL DEF Spec, ImplementsVarStore, Variables!StoreSpec
=============================================================================
