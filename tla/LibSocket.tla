----------------------------- MODULE LibSocket -----------------------------
(***************************************************************************)
(* The client library of the socket TA, host/libsocket/socket.c, with a    *)
(* client that opens and closes sockets and may use a handle that is not   *)
(* open.  A call of the library is one step: the client waits for it.      *)
(***************************************************************************)
EXTENDS SocketTa

CONSTANTS
    SockHandles,        \* the client's variables of type struct socket_handle
    BufSize             \* sizeof(handle->buf)

ASSUME LibSocketAssumption ==
    /\ IsFiniteSet(SockHandles)
    \* A struct sock_handle of either kit fits into the buffer of the client.
    /\ BufSize \in Nat /\ SockSizes \subseteq 1..BufSize

VARIABLES
    handles,            \* variable -> [h, blen]
    inUse,              \* variable -> the protocol the client opened, or "none"
    closedUsed,         \* history: a handle was passed after it was closed
    failedUsed          \* history: a handle was passed that no open filled

libSocketVars == <<handles, inUse, closedUsed, failedUsed>>
socketVars == <<sockets, sock_size, libSocketVars>>

Unused == [h |-> NoSocket, blen |-> 0]

SocketInit ==
    /\ sockets = << >>
    /\ sock_size = BufSize
    /\ handles = [v \in SockHandles |-> Unused]
    /\ inUse = [v \in SockHandles |-> "none"]
    /\ closedUsed = FALSE /\ failedUsed = FALSE

\* The buffer is zeroed first; its length is what the TA says, or the one passed when
\* the TA says nothing.
Opened(v, protocol, ctx) ==
    /\ handles' = [handles EXCEPT ![v] =
            IF ctx = 0
            THEN [h |-> NoSocket, blen |-> IF ret' = "SHORT_BUFFER" THEN sock_size ELSE BufSize]
            ELSE [h |-> [ctx |-> ctx, socket |-> sockets'[ctx]], blen |-> sock_size]]
    /\ inUse' = [inUse EXCEPT ![v] = IF ret' = "SUCCESS" THEN protocol ELSE "none"]
    /\ UNCHANGED <<sock_size, closedUsed, failedUsed>>

\* A client opens a socket in a variable that holds none.
socket_tcp_open(v) ==
    inUse[v] = "none" /\ \E ctx \in SockIds \cup {0} :
        ta_entry_tcp_open(BufSize, ctx) /\ Opened(v, "tcp", ctx)

socket_udp_open(v) ==
    inUse[v] = "none" /\ \E ctx \in SockIds \cup {0} :
        ta_entry_udp_open(BufSize, ctx) /\ Opened(v, "udp", ctx)

\* Which handles were passed that are not open.
Passes(v) ==
    /\ closedUsed' = (closedUsed \/ (inUse[v] = "none" /\ handles[v].h # NoSocket))
    /\ failedUsed' = (failedUsed \/ handles[v].h = NoSocket)
    /\ UNCHANGED <<handles, sock_size>>

socket_send(v) == ta_entry_send(handles[v].h, handles[v].blen) /\ Passes(v) /\ UNCHANGED inUse
socket_recv(v) == ta_entry_recv(handles[v].h, handles[v].blen) /\ Passes(v) /\ UNCHANGED inUse
socket_get_error(v) == ta_entry_error(handles[v].h, handles[v].blen) /\ Passes(v) /\ UNCHANGED inUse
socket_ioctl(v) == ta_entry_ioctl(handles[v].h, handles[v].blen) /\ Passes(v) /\ UNCHANGED inUse

\* The library leaves the handle as it is; the client no longer uses it.
socket_close(v) ==
    /\ ta_entry_close(handles[v].h, handles[v].blen)
    /\ Passes(v)
    /\ inUse' = [inUse EXCEPT ![v] = "none"]

SocketCommand ==
    \/ UnknownSocketCommand /\ UNCHANGED <<sock_size, libSocketVars>>
    \/ \E v \in SockHandles :
        \/ socket_tcp_open(v) \/ socket_udp_open(v) \/ socket_close(v)
        \/ socket_send(v) \/ socket_recv(v) \/ socket_get_error(v) \/ socket_ioctl(v)
=============================================================================
