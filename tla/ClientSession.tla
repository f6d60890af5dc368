---------------------------- MODULE ClientSession ----------------------------
(***************************************************************************)
(* One client that opens a session with the crypt TA, the AES or the SHA   *)
(* performance TA or the socket TA and calls its commands in any order.    *)
(* Each of these TAs has an instance per session: its variables start      *)
(* afresh with a session and end with it.                                  *)
(***************************************************************************)
EXTENDS LibCrypt, AesPerfTa, ShaPerfTa, LibSocket

VARIABLE session        \* the TA the client has a session with

vars == <<session, cryptoVars, reply, strayed, clientVars, aesVars, shaVars, socketVars>>

TAs == {"crypt", "aes_perf", "sha_perf", "socket"}

\* A new instance: all static variables as the TA's image has them.
Fresh ==
    /\ ops' = << >> /\ objs' = << >> /\ alive' = TRUE /\ ret' = "SUCCESS" /\ reply' = NoReply
    /\ strayed' = {}
    /\ knownOps' = << >> /\ knownObjs' = << >>
    /\ crypto_op' = TEE_HANDLE_NULL /\ algo' = "ECB"
    /\ heldBack' = FALSE /\ prepared' = FALSE /\ failed' = FALSE /\ abused' = FALSE
    /\ digest_op' = TEE_HANDLE_NULL
    /\ digestPrepared' = FALSE /\ digestFailed' = FALSE /\ digestAbused' = FALSE
    /\ sockets' = << >> /\ sock_size' = BufSize
    /\ handles' = [v \in SockHandles |-> Unused] /\ inUse' = [v \in SockHandles |-> "none"]
    /\ closedUsed' = FALSE /\ failedUsed' = FALSE

Init ==
    /\ session = "none"
    /\ CryptoInit /\ CryptTaInit /\ ClientInit /\ AesInit /\ ShaInit /\ SocketInit

\* The socket TA runs in one of its builds.
OpenSession(ta) ==
    /\ session = "none"
    /\ session' = ta
    /\ sock_size' \in IF ta = "socket" THEN SockSizes ELSE {sock_size}
    /\ UNCHANGED <<cryptoVars, reply, strayed, clientVars, aesVars, shaVars, sockets, libSocketVars>>

\* TA_CloseSessionEntryPoint frees the operation of a performance TA, which panics
\* when the handle is stale; either way nothing of the instance is left.
CloseSession == session # "none" /\ session' = "none" /\ Fresh

\* A dead TA runs no more commands.
Invoke ==
    /\ session # "none" /\ alive
    /\ \/ session = "crypt" /\ CryptCommand /\ UNCHANGED <<aesVars, shaVars, socketVars>>
       \/ session = "aes_perf" /\ AesCommand /\ UNCHANGED <<strayed, clientVars, shaVars, socketVars>>
       \/ session = "sha_perf" /\ ShaCommand /\ UNCHANGED <<strayed, clientVars, aesVars, socketVars>>
       \/ session = "socket" /\ SocketCommand /\ UNCHANGED <<strayed, clientVars, aesVars, shaVars>>
    /\ UNCHANGED session

Next == (\E ta \in TAs : OpenSession(ta)) \/ CloseSession \/ Invoke

Spec == Init /\ [][Next]_vars

-----------------------------------------------------------------------------
\* What a client works out from results alone is the state of the TA: every live
\* operation and object is known by its handle value, with its state and the very
\* attributes that were passed, whatever failed on the way (helpers.c:76-98,
\* cryp_taf.c:37-57, cryp_taf.c:336-417).
ClientKnowsState == session = "crypt" =>
    /\ Cardinality(DOMAIN ops) = Cardinality(DOMAIN knownOps)
    /\ \A v \in DOMAIN knownOps :
        /\ VAL2HANDLE(v) \in DOMAIN ops
        /\ ops[VAL2HANDLE(v)] = knownOps[v]
    /\ Cardinality(DOMAIN objs) = Cardinality(DOMAIN knownObjs)
    /\ \A v \in DOMAIN knownObjs :
        /\ VAL2HANDLE(v) \in DOMAIN objs
        /\ objs[VAL2HANDLE(v)] = knownObjs[v]

\* The TA reads nothing outside a buffer of attributes it accepts, also when the
\* buffer is not the work of pack_attrs (cryp_taf.c:349-382).
AttributesInBuffer ==
    strayed = {}

\* Whatever pack_attrs makes, unpack_attrs takes and restores: the padding of one and
\* the checks of the other agree.  The lists are constant, so that the state without
\* a session is enough to compare them in (helpers.c:25-71, cryp_taf.c:349-382).
PackedIsAccepted == session = "none" =>
    \A attrs \in PackLists :
        LET buf == pack_attrs(attrs) IN
        /\ "SUCCESS" \in UnpackResults(buf)
        /\ unpack_attrs(buf) = attrs

\* The static handle of a performance TA can be relied on: after a prepare that
\* succeeded it names an operation that is ready for data, the only one of the session;
\* it names a freed one, and key objects are left behind, only when a prepare failed
\* (ta_aes_perf.c:254-312, ta_sha_perf.c:108-114).
PerfHandlesReliable ==
    /\ session = "aes_perf" /\ alive =>
        /\ prepared => InState(crypto_op, ClassOf(algo), {"active"})
        /\ Stale(crypto_op) \/ objs # << >> => failed
        /\ DOMAIN ops \subseteq {crypto_op}
    /\ session = "sha_perf" /\ alive =>
        /\ digestPrepared => InState(digest_op, "digest", {"ready", "active"})
        /\ FreedDigest => digestFailed
        /\ DOMAIN ops \subseteq {digest_op}

\* While a client passes no handle it has closed, its open handles and the open sockets
\* are the same, each with the protocol it was opened for: failed opens leave no socket
\* behind, and only a closed handle can reach another socket (socket/ta_entry.c:64-161).
SocketsAccounted == session = "socket" /\ alive /\ ~closedUsed =>
    /\ Cardinality({v \in SockHandles : inUse[v] # "none"}) = Cardinality(DOMAIN sockets)
    /\ \A v \in SockHandles : inUse[v] # "none" =>
        /\ handles[v].h.ctx \in DOMAIN sockets
        /\ sockets[handles[v].h.ctx] = inUse[v]

\* A TA dies only of what its code leaves open.  The performance TAs: a prepare that
\* failed, data that comes without a prepare, several rounds of AES or several pieces that
\* are not whole blocks or do not fit the output unit by unit, or an offset behind
\* the input of SHA.  The socket TA: a handle that was closed or, in the build whose
\* sock_handle fills the client's buffer, one that no open filled, since the size of an
\* empty handle is there the one the TA expects (ta_aes_perf.c:154-180,
\* ta_sha_perf.c:62-72, libsocket/socket.c:29, socket/ta_entry.c:158-162).
DeathExplained == ~alive =>
    /\ session = "aes_perf" => failed \/ abused
    /\ session = "sha_perf" => digestFailed \/ digestAbused
    /\ session = "socket" => closedUsed \/ (failedUsed /\ sock_size = BufSize)
=============================================================================
