---------------------------- MODULE TeeSessions ----------------------------
(***************************************************************************)
(* Sessions and instances of TAs, as the TEE manages them for TAs that     *)
(* open sessions with other TAs.  Instance 0 stands for the host.  A       *)
(* single-instance TA runs one thread at a time, and the TEE lets one      *)
(* thread at a time run in all of them: a call into such a TA and what it  *)
(* calls is one step.                                                      *)
(***************************************************************************)
EXTENDS Naturals, FiniteSets

CONSTANTS
    InstIds,            \* instances that fit into secure memory
    SessIds             \* session handles

ASSUME TeeSessionsAssumption ==
    /\ InstIds \subseteq Nat \ {0} /\ SessIds \subseteq Nat \ {0}
    /\ IsFiniteSet(InstIds) /\ IsFiniteSet(SessIds)

VARIABLES
    inst,               \* live instance -> [ta, dead]
    sess                \* open session -> [inst, by]: its instance and who opened it

teeVars == <<inst, sess>>

NoSession == 0
Host == 0

TAs == {"sims", "sims_keepalive", "miss", "rpc_test", "sdp_basic", "key", "crypt", "storage", "pta"}

\* TA_FLAG_SINGLE_INSTANCE and TA_FLAG_INSTANCE_KEEP_ALIVE.
SingleInstance == {"sims", "sims_keepalive"}

\* Mutant: the flag is missing.
KeepAliveNone == {}

KeepAlive == {"sims_keepalive"}

TeeInit == inst = << >> /\ sess = << >>

With(f, x, v) == [y \in DOMAIN f \cup {x} |-> IF y = x THEN v ELSE f[y]]
Without(f, S) == [y \in DOMAIN f \ S |-> f[y]]

First(S) == CHOOSE x \in S : \A y \in S : x <= y

SessionsOn(i) == {s \in DOMAIN sess : sess[s].inst = i}
OpenedBy(i) == {s \in DOMAIN sess : sess[s].by = i}
InstancesOf(ta) == {i \in DOMAIN inst : inst[i].ta = ta}

\* The instance that a new session of the TA gets, and its handle.
Shared(ta) == ta \in SingleInstance /\ InstancesOf(ta) # {}
TargetOf(ta) == IF Shared(ta) THEN CHOOSE i \in InstancesOf(ta) : TRUE
                              ELSE First(InstIds \ DOMAIN inst)
NewHandle == First(SessIds \ DOMAIN sess)

\* There is room for a session.  A dead instance is not opened, and one that runs
\* the caller cannot be waited for.
CanOpen(ta, callers) ==
    /\ SessIds \ DOMAIN sess # {}
    /\ IF Shared(ta) THEN ~inst[TargetOf(ta)].dead /\ TargetOf(ta) \notin callers
                     ELSE InstIds \ DOMAIN inst # {}

\* The instances and the sessions once by has opened a session of the TA.
InstWith(ta) == IF Shared(ta) THEN inst ELSE With(inst, TargetOf(ta), [ta |-> ta, dead |-> FALSE])
SessWith(ta, by) == With(sess, NewHandle, [inst |-> TargetOf(ta), by |-> by])

\* The instances that go when the sessions in closed do.
Gone(closed) ==
    {i \in DOMAIN inst : /\ SessionsOn(i) \subseteq closed
                         /\ inst[i].dead \/ inst[i].ta \notin KeepAlive}

\* Closing the sessions in S also closes those that the close entry point of a live
\* instance closes, which held names, and all that a destroyed instance has opened.
Complete(closed, held) ==
    /\ \A s \in closed : ~inst[sess[s].inst].dead => held[s] \subseteq closed
    /\ \A i \in Gone(closed) : OpenedBy(i) \subseteq closed

\* The least such set.
Closing(S, held) ==
    LET complete == {C \in SUBSET DOMAIN sess : S \subseteq C /\ Complete(C, held)}
    IN  {s \in DOMAIN sess : \A C \in complete : s \in C}

Close(closed, gone) == inst' = Without(inst, gone) /\ sess' = Without(sess, closed)

\* TEE_Panic: the instance stays until its sessions are closed.
Kill(i) == inst' = [inst EXCEPT ![i].dead = TRUE] /\ UNCHANGED sess
=============================================================================
