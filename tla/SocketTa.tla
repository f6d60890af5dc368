------------------------------ MODULE SocketTa ------------------------------
(***************************************************************************)
(* The socket TA, ta/socket/ta_entry.c.  It keeps no state: what it knows  *)
(* of a socket, a context and the functions of its protocol (struct        *)
(* sock_handle), is stored by the client, which passes it back with every  *)
(* command.  The TA compares the size of what it gets and nothing else.    *)
(***************************************************************************)
EXTENDS TeeCrypto

CONSTANTS
    SockIds,            \* addresses of socket contexts
    SockSizes           \* sizeof(struct sock_handle): it has two pointers, so that TAs built
                        \* with the 32-bit and with the 64-bit kit differ

ASSUME SocketAssumption == SockIds \subseteq Nat \ {0} /\ SockSizes \subseteq Nat

VARIABLES
    sockets,            \* open context -> its protocol
    sock_size           \* sizeof(struct sock_handle) in the TA that runs

\* A struct sock_handle: context and functions, zero when nothing was stored.
NoSocket == [ctx |-> 0, socket |-> "none"]

NetworkErrors == {"COMMUNICATION", "TIMEOUT"}

\* The functions of the protocols (external: libutee).
SocketOpen(protocol, ctx) ==
    /\ ctx \in SockIds \ DOMAIN sockets
    /\ sockets' = With(sockets, ctx, protocol)
    /\ ret' = "SUCCESS"

SocketClose(ctx) ==
    /\ sockets' = Without(sockets, {ctx})
    /\ ret' \in {"SUCCESS"} \cup NetworkErrors

\* Reply to the client with what the last call returned.
Replies == Answer(ret', 0)

-----------------------------------------------------------------------------
\* ctx is what the TA stores in the client's buffer, 0 when it leaves it alone.
OpenWith(protocol, size, ctx) ==
    /\ \/ size >= sock_size /\ SocketOpen(protocol, ctx)
       \/ /\ ctx = 0
          /\ ret' \in IF size < sock_size THEN {"SHORT_BUFFER"} ELSE {"OUT_OF_MEMORY"} \cup NetworkErrors
          /\ UNCHANGED sockets
    /\ Replies
    /\ UNCHANGED <<ops, objs, alive>>

ta_entry_tcp_open(size, ctx) == OpenWith("tcp", size, ctx)

\* Mutant: the functions of the other protocol, in a copy of its handler.
UdpOpenAsTcp(size, ctx) == OpenWith("tcp", size, ctx)
ta_entry_udp_open(size, ctx) == OpenWith("udp", size, ctx)

SizeMatches(size) == size = sock_size

\* A command on handle h of the given size: nothing was stored in it, its context was
\* freed, or effect happens.
OnSocket(h, size, effect) ==
    /\ \/ ~SizeMatches(size) /\ ret' = "BAD_PARAMETERS" /\ UNCHANGED <<ops, objs, alive, sockets>>
       \/ /\ SizeMatches(size)
          /\ h = NoSocket
          /\ TEE_Panic /\ sockets' = << >>
       \/ /\ SizeMatches(size)
          /\ h.ctx \in SockIds \ DOMAIN sockets
          /\ \/ TEE_Panic /\ sockets' = << >>
             \/ ret' = "BAD_PARAMETERS" /\ UNCHANGED <<ops, objs, alive, sockets>>
       \/ /\ SizeMatches(size)
          /\ h.ctx \in DOMAIN sockets
          /\ effect
          /\ UNCHANGED <<ops, objs, alive>>
    /\ Replies

Transfers == UNCHANGED sockets /\ ret' \in {"SUCCESS"} \cup NetworkErrors

ta_entry_close(h, size) == OnSocket(h, size, SocketClose(h.ctx))
ta_entry_send(h, size) == OnSocket(h, size, Transfers)
ta_entry_recv(h, size) == OnSocket(h, size, Transfers)
ta_entry_error(h, size) == OnSocket(h, size, UNCHANGED sockets /\ ret' = "SUCCESS")
ta_entry_ioctl(h, size) == OnSocket(h, size, Transfers)

UnknownSocketCommand ==
    /\ Answer("BAD_PARAMETERS", 0)
    /\ UNCHANGED <<ops, objs, alive, ret, sockets>>
=============================================================================
