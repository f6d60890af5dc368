-------------------------- MODULE ConcurrentProofs --------------------------
(***************************************************************************)
(* Proofs about the concurrent TA for any finite set of threads: the       *)
(* shared counter is the number of running calls, and the largest value    *)
(* reported is the largest number of calls that ran in parallel.           *)
(***************************************************************************)
EXTENDS ConcurrentTa, FiniteSetTheorems, TLAPS

\* The calls in the loop body are a finite set.
LEMMA CountedFinite == IsFiniteSet(Counted) /\ Cardinality(Counted) \in Nat
BY ConcurrentAssumption, FS_Subset, FS_CardinalityType DEF Counted

\* What a step does to the control of its thread and to the counter.
LEMMA StepCases ==
    ASSUME TypeOK, NEW t \in Threads, Invoke(t) \/ Step(t)
    PROVE  \/ Enter(t)
           \/ CountOut(t)
           \/ /\ Counted' = Counted
              /\ UNCHANGED active_count
<1>1. CASE Invoke(t)
  BY <1>1 DEF Invoke, Goto, Counted, TypeOK
<1>2. CASE CheckFails(t)
  BY <1>2 DEF CheckFails, Goto, Counted, TypeOK
<1>3. CASE AllocateOut(t) \/ AllocateOp(t)
  BY <1>3 DEF AllocateOut, AllocateOp, Allocate, Goto, Counted, TypeOK
<1>4. CASE Round(t)
  BY <1>4 DEF Round, Counted, TypeOK
<1>5. CASE LoopDone(t) \/ FreeAll(t)
  BY <1>5 DEF LoopDone, FreeAll, Goto, Counted, TypeOK
<1>6. CASE Return(t)
  BY <1>6 DEF Return, Goto, Counted, TypeOK
<1>7. QED
  BY <1>1, <1>2, <1>3, <1>4, <1>5, <1>6 DEF Step

\* TypeOK and CountsRunningCalls are preserved together: without the count, the
\* decrement might leave the naturals.
CInv == TypeOK /\ CountsRunningCalls

\* The increment counts its own call in and reports the new count.
LEMMA EnterCounts ==
    ASSUME CInv, NEW t \in Threads, Enter(t)
    PROVE  /\ CountsRunningCalls'
           /\ Counted' = Counted \cup {t}
           /\ active_count' = Cardinality(Counted) + 1
           /\ reported' = [reported EXCEPT ![t] = Cardinality(Counted) + 1]
<1>1. t \notin Counted /\ Counted' = Counted \cup {t}
  BY DEF Enter, Goto, Counted, CInv, TypeOK
<1>2. Cardinality(Counted \cup {t}) = Cardinality(Counted) + 1
  BY <1>1, CountedFinite, FS_AddElement
<1>3. active_count = Cardinality(Counted)
  BY DEF CInv, CountsRunningCalls
<1>4. /\ active_count' = active_count + 1
      /\ reported' = [reported EXCEPT ![t] = active_count']
  BY DEF Enter, inc_active_count
<1>5. QED
  BY <1>1, <1>2, <1>3, <1>4 DEF CountsRunningCalls

\* The decrement counts exactly its own call out.
LEMMA CountOutCounts ==
    ASSUME CInv, NEW t \in Threads, CountOut(t)
    PROVE  CountsRunningCalls' /\ active_count' \in Nat
<1>1. t \in Counted /\ Counted' = Counted \ {t}
  BY DEF CountOut, Goto, Counted, CInv, TypeOK
<1>2. /\ IsFiniteSet(Counted \ {t})
      /\ Cardinality(Counted \ {t}) = Cardinality(Counted) - 1
      /\ Cardinality(Counted \ {t}) \in Nat
  BY <1>1, CountedFinite, FS_RemoveElement, FS_CardinalityType
<1>3. active_count = Cardinality(Counted)
  BY DEF CInv, CountsRunningCalls
<1>4. active_count' = active_count - 1
  BY DEF CountOut, dec_active_count
<1>5. QED
  BY <1>1, <1>2, <1>3, <1>4 DEF CountsRunningCalls

\* Every step keeps the types, given that the counter is the number of running calls.
LEMMA TypeStep ==
    ASSUME CInv, NEW t \in Threads, Invoke(t) \/ Step(t)
    PROVE  TypeOK'
<1> USE DEF TypeOK, Goto, Labels, CInv
<1>1. CASE Invoke(t)
  BY <1>1 DEF Invoke
<1>2. CASE CheckFails(t)
  BY <1>2 DEF CheckFails
<1>3. CASE Enter(t)
  <2>1. Cardinality(Counted) + 1 \in Nat
    BY CountedFinite
  <2>2. most' \in Nat
    BY <1>3, <2>1 DEF Enter, Max2
  <2>3. active_count' \in Nat /\ reported' \in [Threads -> Nat]
    BY <1>3, <2>1, EnterCounts
  <2>4. QED
    BY <1>3, <2>2, <2>3 DEF Enter
<1>4. CASE AllocateOut(t) \/ AllocateOp(t)
  BY <1>4 DEF AllocateOut, AllocateOp, Allocate
<1>5. CASE Round(t)
  BY <1>5, ConcurrentAssumption DEF Round
<1>6. CASE LoopDone(t) \/ FreeAll(t)
  BY <1>6 DEF LoopDone, FreeAll
<1>7. CASE CountOut(t)
  BY <1>7, CountOutCounts DEF CountOut
<1>8. CASE Return(t)
  BY <1>8 DEF Return, Max2
<1>9. QED
  BY <1>1, <1>2, <1>3, <1>4, <1>5, <1>6, <1>7, <1>8 DEF Step

\* The inductive invariant of the counter.
LEMMA CInductive == Spec => []CInv
<1>1. Init => CInv
  <2> SUFFICES ASSUME Init PROVE CInv
    OBVIOUS
  <2>1. TypeOK
    BY ConcurrentAssumption DEF Init, TypeOK, Labels
  <2>2. Counted = {}
    BY DEF Init, Counted
  <2>3. QED
    BY <2>1, <2>2, FS_EmptySet DEF Init, CInv, CountsRunningCalls
<1>2. CInv /\ [Next]_vars => CInv'
  <2> SUFFICES ASSUME CInv, [Next]_vars
               PROVE  CInv'
    OBVIOUS
  <2>1. ASSUME NEW t \in Threads, Invoke(t) \/ Step(t)
        PROVE  CInv'
    BY <2>1, TypeStep, StepCases, EnterCounts, CountOutCounts DEF CInv, CountsRunningCalls
  <2>2. CASE UNCHANGED vars
    BY <2>2 DEF vars, CInv, TypeOK, CountsRunningCalls, Counted
  <2>3. QED
    BY <2>1, <2>2 DEF Next
<1>3. QED
  BY <1>1, <1>2, PTL DEF Spec

\* The variables keep their types; in particular the counter never wraps below 0.
THEOREM ConcurrentTypeCorrect == Spec => []TypeOK
BY CInductive, PTL DEF CInv

\* The counter is the number of calls between their increment and decrement,
\* whatever fails.
THEOREM ConcurrentCounts == Spec => []CountsRunningCalls
BY CInductive, PTL DEF CInv

-----------------------------------------------------------------------------
\* The largest value reported so far, or still to be reported by a running call,
\* is the most calls that ran in parallel.
PeakInv ==
    /\ maxReported <= most
    /\ \A t \in Threads : reported[t] <= most
    /\ \/ maxReported = most
       \/ \E t \in Threads : pc[t] \notin {"idle", "check"} /\ reported[t] = most

\* Every step keeps PeakInv: the largest count so far was reported or will be.
LEMMA PeakStep ==
    ASSUME CInv, PeakInv, NEW t \in Threads, Invoke(t) \/ Step(t)
    PROVE  PeakInv'
<1> USE DEF PeakInv, CInv, TypeOK, Goto
<1>1. CASE Invoke(t)
  BY <1>1 DEF Invoke
<1>2. CASE CheckFails(t)
  BY <1>2 DEF CheckFails
<1>3. CASE Enter(t)
  <2> DEFINE n == Cardinality(Counted) + 1
  <2>1. n \in Nat /\ reported' = [reported EXCEPT ![t] = n]
    BY <1>3, EnterCounts, CountedFinite
  <2>2. /\ most' = Max2(most, n) /\ maxReported' = maxReported
        /\ pc[t] = "check" /\ pc'[t] \notin {"idle", "check"}
        /\ \A u \in Threads \ {t} : pc'[u] = pc[u]
    BY <1>3 DEF Enter
  <2> HIDE DEF n
  <2>3. QED
    BY <2>1, <2>2 DEF Max2
<1>4. CASE AllocateOut(t) \/ AllocateOp(t)
  BY <1>4 DEF AllocateOut, AllocateOp, Allocate
<1>5. CASE Round(t)
  BY <1>5 DEF Round
<1>6. CASE LoopDone(t) \/ FreeAll(t)
  BY <1>6 DEF LoopDone, FreeAll
<1>7. CASE CountOut(t)
  BY <1>7 DEF CountOut
<1>8. CASE Return(t)
  BY <1>8 DEF Return, Max2
<1>9. QED
  BY <1>1, <1>2, <1>3, <1>4, <1>5, <1>6, <1>7, <1>8 DEF Step

\* Once all calls are back, the host's maximum of the reported values is the true
\* peak of concurrency.
THEOREM ConcurrentPeak == Spec => []PeakIsReported
<1>1. Init => PeakInv
  BY DEF Init, PeakInv
<1>2. CInv /\ PeakInv /\ [Next]_vars => PeakInv'
  BY PeakStep DEF Next, vars, PeakInv
<1>3. PeakInv => PeakIsReported
  BY DEF PeakInv, PeakIsReported
<1>4. QED
  BY <1>1, <1>2, <1>3, CInductive, PTL DEF Spec
-----------------------------------------------------------------------------
\* What a call may have allocated, by where it is: nothing before TEE_Malloc and
\* after label out, and nothing at all in a call of busy_loop, which is never at
\* the labels of sha256.
MemInv ==
    \A t \in Threads :
        /\ pc[t] \in {"idle", "check", "malloc", "dec", "return"} => mem[t] = {}
        /\ pc[t] \in {"malloc", "alloc_op"} => cmd[t] = "sha256"
        /\ pc[t] = "loop" /\ cmd[t] = "busy_loop" => mem[t] = {}

\* Every step keeps MemInv; only the exits through label out free memory, so the
\* exits that bypass it must have none.
LEMMA MemStep ==
    ASSUME TypeOK, MemInv, NEW t \in Threads, Invoke(t) \/ Step(t)
    PROVE  MemInv'
<1> USE DEF MemInv, TypeOK, Goto
<1>1. CASE Invoke(t)
  BY <1>1 DEF Invoke
<1>2. CASE CheckFails(t)
  BY <1>2 DEF CheckFails
<1>3. CASE Enter(t)
  BY <1>3 DEF Enter
<1>4. CASE AllocateOut(t)
  BY <1>4 DEF AllocateOut, Allocate
<1>5. CASE AllocateOp(t)
  BY <1>5 DEF AllocateOp, Allocate
<1>6. CASE Round(t)
  BY <1>6 DEF Round
<1>7. CASE LoopDone(t)
  BY <1>7 DEF LoopDone
<1>8. CASE FreeAll(t)
  BY <1>8 DEF FreeAll
<1>9. CASE CountOut(t) \/ Return(t)
  BY <1>9 DEF CountOut, Return
<1>10. QED
  BY <1>1, <1>2, <1>3, <1>4, <1>5, <1>6, <1>7, <1>8, <1>9 DEF Step

\* Whatever failed on the way, a call that is counted out has freed what it
\* allocated.
THEOREM ConcurrentNothingAllocated == Spec => []NothingAllocatedOnReturn
<1>1. Init => MemInv
  BY DEF Init, MemInv
<1>2. TypeOK /\ MemInv /\ [Next]_vars => MemInv'
  BY MemStep DEF Next, vars, MemInv
<1>3. MemInv => NothingAllocatedOnReturn
  BY DEF MemInv, NothingAllocatedOnReturn
<1>4. QED
  BY <1>1, <1>2, <1>3, ConcurrentTypeCorrect, PTL DEF Spec
=============================================================================
