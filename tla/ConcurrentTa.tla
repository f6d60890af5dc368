---------------------------- MODULE ConcurrentTa ----------------------------
(***************************************************************************)
(* The concurrent TA, ta/concurrent/ta_entry.c (ta/concurrent_large is the *)
(* same code with a larger heap).  Each client thread has a session and    *)
(* with it a TA instance of its own; the instances run in parallel and     *)
(* share only the client's struct ta_concurrent_shm.  The steps of a call  *)
(* are separate, those on the shared counter are atomic instructions.      *)
(***************************************************************************)
EXTENDS Naturals, FiniteSets

CONSTANTS
    Threads,            \* client threads, each with its session
    MaxRounds           \* bound on params[1].value.a, the number of rounds

ASSUME ConcurrentAssumption ==
    /\ IsFiniteSet(Threads)
    /\ MaxRounds \in Nat

VARIABLES
    active_count,       \* shm->active_count
    pc,                 \* where a thread's call is
    cmd,                \* "busy_loop" or "sha256"
    num_rounds,         \* rounds left
    reported,           \* params[1].value.b
    res,                \* result of the call
    mem,                \* what a call of sha256 has allocated
    most,               \* history: most calls in the loop body at once so far
    maxReported         \* history: largest value.b a returned call delivered

vars == <<active_count, pc, cmd, num_rounds, reported, res, mem, most, maxReported>>

Max2(a, b) == IF a > b THEN a ELSE b

\* The calls between their increment and their decrement.
Counted == {t \in Threads : pc[t] \in {"malloc", "alloc_op", "loop", "out", "dec"}}

Goto(t, label) == pc' = [pc EXCEPT ![t] = label]

Init ==
    /\ active_count = 0
    /\ pc = [t \in Threads |-> "idle"]
    /\ cmd = [t \in Threads |-> "busy_loop"]
    /\ num_rounds = [t \in Threads |-> 0]
    /\ reported = [t \in Threads |-> 0]
    /\ res = [t \in Threads |-> "SUCCESS"]
    /\ mem = [t \in Threads |-> {}]
    /\ most = 0
    /\ maxReported = 0

-----------------------------------------------------------------------------
\* The host invokes a command; its parameters have the right types and sizes or not.
Invoke(t) ==
    /\ pc[t] = "idle"
    /\ \E c \in {"busy_loop", "sha256"}, n \in 0..MaxRounds :
        /\ cmd' = [cmd EXCEPT ![t] = c]
        /\ num_rounds' = [num_rounds EXCEPT ![t] = n]
    /\ reported' = [reported EXCEPT ![t] = 0]
    /\ Goto(t, "check")
    /\ UNCHANGED <<active_count, res, mem, most, maxReported>>

\* Mutant: the checks fail into the common exit, which counts the call out.
CheckFailsToExit(t) ==
    /\ pc[t] = "check"
    /\ res' = [res EXCEPT ![t] = "BAD_PARAMETERS"]
    /\ Goto(t, "dec")
    /\ UNCHANGED <<active_count, cmd, num_rounds, reported, mem, most, maxReported>>

\* A wrong type, a short shared struct or a short output buffer.
CheckFails(t) ==
    /\ pc[t] = "check"
    /\ res' = [res EXCEPT ![t] = "BAD_PARAMETERS"]
    /\ Goto(t, "return")
    /\ UNCHANGED <<active_count, cmd, num_rounds, reported, mem, most, maxReported>>

\* Mutant: the value before the increment is reported.
inc_active_countOld(t) ==
    /\ active_count' = active_count + 1
    /\ reported' = [reported EXCEPT ![t] = active_count]

\* atomic_inc32: the new value is returned.
inc_active_count(t) ==
    /\ active_count' = active_count + 1
    /\ reported' = [reported EXCEPT ![t] = active_count']

dec_active_count == active_count' = active_count - 1

\* The parameters are accepted: count this call in.  The history variable
\* records how many calls, this one included, are then running.
Enter(t) ==
    LET running == Cardinality(Counted) + 1 IN
    /\ pc[t] = "check"
    /\ inc_active_count(t)
    /\ res' = [res EXCEPT ![t] = "SUCCESS"]
    /\ Goto(t, IF cmd[t] = "sha256" THEN "malloc" ELSE "loop")
    /\ most' = Max2(most, running)
    /\ UNCHANGED <<cmd, num_rounds, mem, maxReported>>

\* sha256: TEE_Malloc of the output, then TEE_AllocateOperation; either may fail.
Allocate(t, at, what, error, next) ==
    /\ pc[t] = at
    /\ \/ /\ mem' = [mem EXCEPT ![t] = @ \cup {what}]
          /\ UNCHANGED res
          /\ Goto(t, next)
       \/ /\ UNCHANGED mem
          /\ res' = [res EXCEPT ![t] = error]
          /\ Goto(t, "out")
    /\ UNCHANGED <<active_count, cmd, num_rounds, reported, most, maxReported>>

\* Mutant: the failure of TEE_AllocateOperation returns directly.
AllocateOpReturning(t) ==
    /\ pc[t] = "alloc_op"
    /\ \/ /\ mem' = [mem EXCEPT ![t] = @ \cup {"op"}]
          /\ UNCHANGED res
          /\ Goto(t, "loop")
       \/ /\ UNCHANGED mem
          /\ res' = [res EXCEPT ![t] = "GENERIC"]
          /\ Goto(t, "return")
    /\ UNCHANGED <<active_count, cmd, num_rounds, reported, most, maxReported>>

AllocateOut(t) == Allocate(t, "malloc", "out", "OUT_OF_MEMORY", "alloc_op")
AllocateOp(t) == Allocate(t, "alloc_op", "op", "GENERIC", "loop")

\* Mutant: the number of rounds is not counted down.
RoundForever(t) ==
    /\ pc[t] = "loop"
    /\ num_rounds[t] > 0
    /\ UNCHANGED vars

\* One round: busy work, or TEE_ResetOperation and TEE_DigestDoFinal, whose result
\* is kept and does not end the loop.
Round(t) ==
    /\ pc[t] = "loop"
    /\ num_rounds[t] > 0
    /\ num_rounds' = [num_rounds EXCEPT ![t] = @ - 1]
    /\ \E r \in IF cmd[t] = "sha256" THEN {"SUCCESS", "GENERIC"} ELSE {"SUCCESS"} :
        res' = [res EXCEPT ![t] = r]
    /\ UNCHANGED <<active_count, pc, cmd, reported, mem, most, maxReported>>

LoopDone(t) ==
    /\ pc[t] = "loop"
    /\ num_rounds[t] = 0
    /\ Goto(t, IF cmd[t] = "sha256" THEN "out" ELSE "dec")
    /\ UNCHANGED <<active_count, cmd, num_rounds, reported, res, mem, most, maxReported>>

\* Mutant: the operation is not freed.
FreeOutOnly(t) ==
    /\ pc[t] = "out"
    /\ mem' = [mem EXCEPT ![t] = @ \ {"out"}]
    /\ Goto(t, "dec")
    /\ UNCHANGED <<active_count, cmd, num_rounds, reported, res, most, maxReported>>

\* Label out: free what was allocated.
FreeAll(t) ==
    /\ pc[t] = "out"
    /\ mem' = [mem EXCEPT ![t] = {}]
    /\ Goto(t, "dec")
    /\ UNCHANGED <<active_count, cmd, num_rounds, reported, res, most, maxReported>>

CountOut(t) ==
    /\ pc[t] = "dec"
    /\ dec_active_count
    /\ Goto(t, "return")
    /\ UNCHANGED <<cmd, num_rounds, reported, res, mem, most, maxReported>>

\* The call is back in the host with its result and value.b.
Return(t) ==
    /\ pc[t] = "return"
    /\ maxReported' = Max2(maxReported, reported[t])
    /\ Goto(t, "idle")
    /\ UNCHANGED <<active_count, cmd, num_rounds, reported, res, mem, most>>

\* The steps of a call once it was invoked.
Step(t) ==
    \/ CheckFails(t)
    \/ Enter(t)
    \/ AllocateOut(t)
    \/ AllocateOp(t)
    \/ Round(t)
    \/ LoopDone(t)
    \/ FreeAll(t)
    \/ CountOut(t)
    \/ Return(t)

Next == \E t \in Threads : Invoke(t) \/ Step(t)

\* The scheduler of the normal world runs every thread; whether a host invokes
\* another command is its own choice.
Fairness == \A t \in Threads : WF_vars(Step(t))

Spec == Init /\ [][Next]_vars
FairSpec == Spec /\ Fairness

-----------------------------------------------------------------------------
Labels == {"idle", "check", "malloc", "alloc_op", "loop", "out", "dec", "return"}

TypeOK ==
    /\ active_count \in Nat
    /\ pc \in [Threads -> Labels]
    /\ cmd \in [Threads -> {"busy_loop", "sha256"}]
    /\ num_rounds \in [Threads -> 0..MaxRounds]
    /\ reported \in [Threads -> Nat]
    /\ res \in [Threads -> {"SUCCESS", "BAD_PARAMETERS", "OUT_OF_MEMORY", "GENERIC"}]
    /\ mem \in [Threads -> SUBSET {"out", "op"}]
    /\ most \in Nat
    /\ maxReported \in Nat

\* ta_concurrent.h:45-49: the struct tells how many calls are running in parallel,
\* on the error paths of sha256 as well.
CountsRunningCalls == active_count = Cardinality(Counted)

\* What a host computes from value.b: once all calls are back, the largest value
\* reported is the largest number of calls that ever ran in parallel.
PeakIsReported == (\A t \in Threads : pc[t] = "idle") => maxReported = most

\* Whatever failed, a call that returns leaves nothing allocated (ta_entry.c:151-157).
NothingAllocatedOnReturn == \A t \in Threads : pc[t] \in {"dec", "return", "idle"} => mem[t] = {}

\* Every call returns: the rounds are finite and no call waits for another one.
CallsReturn == \A t \in Threads : pc[t] # "idle" ~> pc[t] = "idle"
=============================================================================
