------------------------------- MODULE SdpTa -------------------------------
(***************************************************************************)
(* The nested sessions of the secure data path TA,                         *)
(* ta/sdp_basic/ta_sdp_basic.c: cmd_invoke and cmd_invoke_pta each cache   *)
(* one in a static variable across commands.  Its own instance is the only *)
(* one that uses them, so a command is one step.                           *)
(***************************************************************************)
EXTENDS SimsTa

VARIABLE cached         \* instance -> target -> cached session, or NoSession

SdpTargets == {"sdp_basic", "pta"}
NothingCached == [t \in SdpTargets |-> NoSession]

SdpInit == cached = [i \in InstIds |-> NothingCached]

\* The session is opened, or was, and the command succeeds.
SdpCall(i, t) ==
    \/ /\ cached[i][t] # NoSession
       /\ UNCHANGED <<teeVars, cached>>
    \/ /\ cached[i][t] = NoSession
       /\ CanOpen(t, {i})
       /\ cached' = [cached EXCEPT ![i][t] = NewHandle]
       /\ inst' = InstWith(t) /\ sess' = SessWith(t, i)

\* Mutant: the handle is reset and the session not closed.
SdpDropOpen(i, t) ==
    /\ cached[i][t] # NoSession
    /\ cached' = [cached EXCEPT ![i][t] = NoSession]
    /\ UNCHANGED teeVars

\* The command fails, of the TEE or of the TA: the session is closed.  One that could
\* not be opened, or that this command opened, leaves nothing behind either.
SdpDrop(i, t) ==
    /\ cached[i][t] # NoSession
    /\ Close({cached[i][t]}, {sess[cached[i][t]].inst})
    /\ cached' = [cached EXCEPT ![i][t] = NoSession]

cmd_invoke(s, t) ==
    /\ Runs(s, {"sdp_basic"})
    /\ SdpCall(sess[s].inst, t) \/ SdpDrop(sess[s].inst, t)
    /\ UNCHANGED simsVars
=============================================================================
