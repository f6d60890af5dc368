------------------------------- MODULE RpcTa -------------------------------
(***************************************************************************)
(* The RPC test TA, ta/rpc_test/ta_rpc.c: a command opens a session with   *)
(* the crypt TA or the sims TA, calls it and closes the session.  The      *)
(* steps are the calls of the TEE, between which other threads may run in  *)
(* the sims TA.  sims_read, sims_get_counter and what the crypt TA         *)
(* computes change nothing here.                                           *)
(***************************************************************************)
EXTENDS SimsTa

CONSTANT Hosts          \* threads of clients

VARIABLES
    hostSess,           \* thread -> the session it has, or NoSession
    call,               \* thread -> [pc, to, sec, sess]: the RPC command it runs
    buffers             \* instance -> whether copies of the parameters are allocated

rpcVars == <<call, buffers>>

NoCall == [pc |-> "idle", to |-> "crypt", sec |-> FALSE, sess |-> NoSession]

RpcInit ==
    /\ call = [h \in Hosts |-> NoCall]
    /\ buffers = [i \in InstIds |-> FALSE]

InstOf(h) == sess[hostSess[h]].inst

\* rpc_call_cryp and rpc_open up to TEE_OpenTASession.
RpcOpen(h, to, sec) ==
    /\ Runs(hostSess[h], {"rpc_test"}) /\ call[h].pc = "idle"
    /\ CanOpen(to, {InstOf(h)}) /\ CounterFits(to)
    /\ call' = [call EXCEPT ![h] = [pc |-> IF sec THEN "copy" ELSE "invoke", to |-> to,
                                    sec |-> sec, sess |-> NewHandle]]
    /\ inst' = InstWith(to) /\ sess' = SessWith(to, InstOf(h))
    /\ ctx' = CtxWith(to) /\ counter' = CounterWith(to)
    /\ UNCHANGED <<lost, buffers>>

\* The parameters are copied to memory of the TA; when an allocation fails it panics,
\* and its copies and its session stay until the instance is destroyed.
RpcCopy(h) ==
    /\ call[h].pc = "copy"
    /\ \/ /\ buffers' = [buffers EXCEPT ![InstOf(h)] = TRUE]
          /\ call' = [call EXCEPT ![h].pc = "invoke"]
          /\ UNCHANGED teeVars
       \/ /\ Kill(InstOf(h))
          /\ UNCHANGED buffers
          /\ call' = [call EXCEPT ![h] = NoCall]
    /\ UNCHANGED simsVars

\* Mutant: a call that fails is tried again with new copies.
RpcInvokeAgain(h) ==
    /\ call[h].pc = "invoke"
    /\ \E next \in {"copy", "close"} : call' = [call EXCEPT ![h].pc = next]
    /\ UNCHANGED <<teeVars, simsVars, buffers>>

\* TEE_InvokeTACommand: whatever its result is, also of a TA that died.
RpcInvoke(h) ==
    /\ call[h].pc = "invoke"
    /\ call' = [call EXCEPT ![h].pc = "close"]
    /\ UNCHANGED <<teeVars, simsVars, buffers>>

\* Results are copied back and the copies freed.
CopiesLeft(h) == IF call[h].sec THEN [buffers EXCEPT ![InstOf(h)] = FALSE] ELSE buffers

RpcClose(h) ==
    /\ call[h].pc = "close"
    /\ \E closed \in {Closing({call[h].sess}, [s \in DOMAIN sess |-> HeldByContext(s)])} :
       \E gone \in {Gone(closed)} : Close(closed, gone) /\ SimsForget(closed, gone)
    /\ buffers' = CopiesLeft(h)
    /\ call' = [call EXCEPT ![h] = NoCall]

RpcStep(h) == RpcCopy(h) \/ RpcInvoke(h) \/ RpcClose(h)
=============================================================================
