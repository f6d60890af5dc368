----------------------------- MODULE NestedTas -----------------------------
(***************************************************************************)
(* Threads of clients that open sessions with TAs that open sessions: sims *)
(* and its variants, the RPC test TA, the secure data path TA and the key  *)
(* TA.  A thread has one session at a time.                                *)
(***************************************************************************)
EXTENDS RpcTa, SdpTa

CONSTANTS
    Uses,               \* thread -> the TAs it opens
    Targets             \* the TAs that sims is told to open

VARIABLES
    stor_session,       \* instance of the key TA -> its session with the storage TA
    overwrote           \* history: some context has lost a nested session

vars == <<teeVars, simsVars, rpcVars, hostSess, cached, stor_session, overwrote>>

ASSUME NestedTasAssumption ==
    /\ Uses \in [Hosts -> SUBSET {"sims", "sims_keepalive", "miss", "rpc_test", "sdp_basic", "key"}]
    /\ Targets \subseteq SimsTas

Init ==
    /\ TeeInit /\ SimsInit /\ RpcInit /\ SdpInit
    /\ hostSess = [h \in Hosts |-> NoSession]
    /\ stor_session = [i \in InstIds |-> NoSession]
    /\ overwrote = FALSE

\* What the close entry points close: TA_CloseSessionEntryPoint of the key TA is the
\* other one that closes a session.
Held(s) == HeldByContext(s) \cup ({stor_session[sess[s].inst]} \ {NoSession})

-----------------------------------------------------------------------------
OpenSession(h, ta) ==
    /\ hostSess[h] = NoSession
    /\ CanOpen(ta, {}) /\ CounterFits(ta)
    /\ hostSess' = [hostSess EXCEPT ![h] = NewHandle]
    /\ inst' = InstWith(ta) /\ sess' = SessWith(ta, Host)
    /\ ctx' = CtxWith(ta) /\ counter' = CounterWith(ta)
    /\ UNCHANGED <<lost, rpcVars, cached, stor_session, overwrote>>

\* TA_OpenSessionEntryPoint of the key TA: the result of opening the nested session is
\* ignored.  OpenSession is what happens when it fails.
OpenKeySession(h) ==
    LET i == TargetOf("key")
        j == First(InstIds \ (DOMAIN inst \cup {i}))
        n == First(SessIds \ (DOMAIN sess \cup {NewHandle}))
    IN
    /\ "key" \in Uses[h] /\ hostSess[h] = NoSession
    /\ Cardinality(InstIds \ DOMAIN inst) >= 2 /\ Cardinality(SessIds \ DOMAIN sess) >= 2
    /\ hostSess' = [hostSess EXCEPT ![h] = NewHandle]
    /\ inst' = With(InstWith("key"), j, [ta |-> "storage", dead |-> FALSE])
    /\ sess' = With(SessWith("key", Host), n, [inst |-> j, by |-> i])
    /\ stor_session' = [stor_session EXCEPT ![i] = n]
    /\ UNCHANGED <<simsVars, rpcVars, cached, overwrote>>

\* The thread closes its session when no command of it runs.
CloseSession(h) ==
    /\ hostSess[h] # NoSession /\ call[h].pc = "idle"
    /\ hostSess' = [hostSess EXCEPT ![h] = NoSession]
    /\ \E closed \in {Closing({hostSess[h]}, [s \in DOMAIN sess |-> Held(s)])} :
       \E gone \in {Gone(closed)} :
        /\ Close(closed, gone) /\ SimsForget(closed, gone)
        /\ buffers' = [i \in InstIds |-> buffers[i] /\ i \notin gone]
        /\ cached' = [i \in InstIds |-> IF i \in gone THEN NothingCached ELSE cached[i]]
        /\ stor_session' = [i \in InstIds |-> IF i \in gone THEN NoSession ELSE stor_session[i]]
    /\ UNCHANGED <<call, overwrote>>

SimsCommand(h) ==
    /\ \/ \E ta \in Targets : sims_open_ta_session(hostSess[h], ta)
       \/ PanicHere(hostSess[h])
       \/ \E ta \in Targets : PanicThere(hostSess[h], ta)
    /\ overwrote' = (overwrote \/ \E i \in InstIds : lost'[i] > lost[i])
    /\ UNCHANGED <<hostSess, rpcVars, cached, stor_session>>

RpcCommand(h) ==
    /\ \/ \E sec \in BOOLEAN : RpcOpen(h, "crypt", sec)
       \/ RpcOpen(h, "sims", FALSE)
    /\ UNCHANGED <<hostSess, cached, stor_session, overwrote>>

RpcGoesOn(h) == RpcStep(h) /\ UNCHANGED <<hostSess, cached, stor_session, overwrote>>

SdpCommand(h) ==
    /\ \E t \in SdpTargets : cmd_invoke(hostSess[h], t)
    /\ UNCHANGED <<hostSess, rpcVars, stor_session, overwrote>>

Next ==
    \E h \in Hosts :
        \/ \E ta \in Uses[h] : OpenSession(h, ta)
        \/ OpenKeySession(h)
        \/ CloseSession(h)
        \/ SimsCommand(h)
        \/ RpcCommand(h)
        \/ RpcGoesOn(h)
        \/ SdpCommand(h)

\* A thread in a TA is scheduled: a command that was started goes on.
Spec == Init /\ [][Next]_vars /\ \A h \in Hosts : WF_vars(RpcGoesOn(h))

-----------------------------------------------------------------------------
Alive(i) == i \in DOMAIN inst /\ ~inst[i].dead

\* The handles of nested sessions that the code of an instance keeps.
HandlesOf(i) ==
    ({ctx[s] : s \in DOMAIN ctx \cap SessionsOn(i)}
        \cup {cached[i][t] : t \in SdpTargets}
        \cup {stor_session[i]}
        \cup {call[h].sess : h \in {g \in Hosts : hostSess[g] \in SessionsOn(i)}}) \ {NoSession}

\* The handles of nested sessions that the code of a live instance keeps, in contexts,
\* static variables and running commands, name open sessions of that instance, whatever
\* other threads closed or made panic meanwhile; it has no other sessions, but those
\* of which sims_open_ta_session overwrote the handle; and it has copies of parameters
\* only while a command runs that needs them (ta_sims.c:48-108, ta_rpc.c:37-185,
\* ta_sdp_basic.c:267-329, key/ta_entry.c:48-59).
NestedSessionsAccounted ==
    \A i \in DOMAIN inst : Alive(i) =>
        /\ HandlesOf(i) \subseteq OpenedBy(i)
        /\ Cardinality(OpenedBy(i)) = Cardinality(HandlesOf(i)) + lost[i]
        /\ buffers[i] => \E h \in Hosts : /\ hostSess[h] \in SessionsOn(i)
                                          /\ call[h].sec /\ call[h].pc \in {"invoke", "close"}

\* Without a session of a client nothing is left but the instance that is kept alive,
\* whatever panicked on the way.  There are two exceptions: the handle of a nested
\* session was overwritten, or two single instances had sessions with each other and
\* both panicked, so that neither closes its own; what is then left was opened by one of
\* them, and only a miss that they opened can still be alive (ta_sims.c:77,
\* ta_sims.c:100-108, ta_sims.c:210, ta_rpc.c:73-74).
AllReleased ==
    (\A h \in Hosts : hostSess[h] = NoSession) /\ ~overwrote =>
        \A i \in DOMAIN inst :
            \/ Alive(i) /\ inst[i].ta = "sims_keepalive" /\ SessionsOn(i) = {}
            \/ /\ SessionsOn(i) # {}
               /\ \A s \in SessionsOn(i) : /\ sess[s].by \in DOMAIN inst /\ ~Alive(sess[s].by)
                                           /\ inst[sess[s].by].ta \in SingleInstance
               /\ Alive(i) => inst[i].ta = "miss" /\ OpenedBy(i) = {}

\* sims_keepalive goes on counting sessions when nobody has one, as long as nobody
\* makes it panic (sims_keepalive/include/user_ta_header_defines.h:15-17, ta_sims.c:83-98).
KeepAliveCounts ==
    [][\A i \in DOMAIN inst :
        inst[i].ta = "sims_keepalive" /\ Alive(i) =>
            i \in DOMAIN inst' /\ (inst'[i].dead \/ counter'[i] >= counter[i])]_vars

\* Every command of the RPC test TA returns, also when the TA it calls dies.
CallsReturn == \A h \in Hosts : call[h].pc # "idle" ~> call[h].pc = "idle"
=============================================================================
