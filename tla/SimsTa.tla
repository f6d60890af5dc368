------------------------------- MODULE SimsTa -------------------------------
(***************************************************************************)
(* The sims TA, ta/sims/ta_sims.c, which is also the source of             *)
(* sims_keepalive and of miss.  Its sessions have a context each; the      *)
(* counter is shared by the sessions of an instance.  The buckets and the  *)
(* copy of the counter in a context, which are only reported, are left     *)
(* out.                                                                    *)
(***************************************************************************)
EXTENDS TeeSessions

CONSTANT MaxCounter     \* bound on the counters

VARIABLES
    counter,            \* instance -> counter
    ctx,                \* session with such a TA -> the nested session in its context
    lost                \* history: instance -> nested sessions whose handle was overwritten

simsVars == <<counter, ctx, lost>>

SimsTas == {"sims", "sims_keepalive", "miss"}

SimsInit ==
    /\ counter = [i \in InstIds |-> 0]
    /\ ctx = << >>
    /\ lost = [i \in InstIds |-> 0]

\* sims_open_session, which can also fail: a session gets a context and is counted.
CtxWith(ta) == IF ta \in SimsTas THEN With(ctx, NewHandle, NoSession) ELSE ctx
CounterWith(ta) == IF ta \in SimsTas THEN [counter EXCEPT ![TargetOf(ta)] = @ + 1] ELSE counter

CounterFits(ta) == ta \in SimsTas /\ InstancesOf(ta) # {} => counter[TargetOf(ta)] < MaxCounter

\* Mutant: the nested session is left to itself.
HeldByContextNone(s) == {}

\* sims_close_session: what the close entry point of a session closes.
HeldByContext(s) == IF s \in DOMAIN ctx THEN {ctx[s]} \ {NoSession} ELSE {}

\* The contexts of closed sessions and the variables of destroyed instances are gone.
SimsForget(closed, gone) ==
    /\ counter' = [i \in InstIds |-> IF i \in gone THEN 0 ELSE counter[i]]
    /\ lost' = [i \in InstIds |-> IF i \in gone THEN 0 ELSE lost[i]]
    /\ ctx' = Without(ctx, closed)

-----------------------------------------------------------------------------
\* The session s runs in an instance that is not dead.
Runs(s, tas) ==
    /\ s \in DOMAIN sess
    /\ inst[sess[s].inst].ta \in tas
    /\ ~inst[sess[s].inst].dead

\* What sims_open_ta_session, when it succeeds, makes of the contexts and counters: the
\* handle of an earlier nested session is overwritten.
NestedCtx(s, ta) == [CtxWith(ta) EXCEPT ![s] = NewHandle]
NestedLost(s) == [lost EXCEPT ![sess[s].inst] = @ + IF ctx[s] = NoSession THEN 0 ELSE 1]

CanNest(s, ta) == Runs(s, SimsTas) /\ CanOpen(ta, {sess[s].inst}) /\ CounterFits(ta)

sims_open_ta_session(s, ta) ==
    /\ CanNest(s, ta)
    /\ inst' = InstWith(ta) /\ sess' = SessWith(ta, sess[s].inst)
    /\ counter' = CounterWith(ta)
    /\ ctx' = NestedCtx(s, ta)
    /\ lost' = NestedLost(s)

\* The memory of a dead instance, which nothing reads again.
DeadMemory(f, i) == [f EXCEPT ![i] = 0]
DeadContexts(c, i) == [s \in DOMAIN c |-> IF s \in SessionsOn(i) THEN NoSession ELSE c[s]]

\* sims_entry_panic without a TA to open.
PanicHere(s) ==
    LET i == sess[s].inst IN
    /\ Runs(s, SimsTas)
    /\ Kill(i)
    /\ counter' = DeadMemory(counter, i)
    /\ lost' = DeadMemory(lost, i)
    /\ ctx' = DeadContexts(ctx, i)

\* sims_entry_panic with a TA: it is opened as above and told to panic, and the
\* result of that is ignored.
PanicThere(s, ta) ==
    LET i == TargetOf(ta) IN
    /\ CanNest(s, ta)
    /\ inst' = [InstWith(ta) EXCEPT ![i].dead = TRUE] /\ sess' = SessWith(ta, sess[s].inst)
    /\ counter' = DeadMemory(CounterWith(ta), i)
    /\ ctx' = DeadContexts(NestedCtx(s, ta), i)
    /\ lost' = DeadMemory(NestedLost(s), i)
=============================================================================
