----------------------------- MODULE TaInstance -----------------------------
(***************************************************************************)
(* What the command handlers of the TAs have in common: where an instance  *)
(* is in its command, the parameters of the command, and the flow of       *)
(* control after a call of the TEE API.                                    *)
(***************************************************************************)
EXTENDS TeeStorage

VARIABLES
    pc,                 \* where the command of an instance is
    arg                 \* [cmd, obj, flags, size, h, data]: its parameters; size is
                        \* whether the sizes among them are acceptable

callVars == <<pc, arg>>

NoArg == [cmd |-> "none", obj |-> NULL, flags |-> {}, size |-> TRUE, h |-> NULL, data |-> NULL]

InstanceInit ==
    /\ StorageInit
    /\ pc = [i \in Instances |-> "idle"]
    /\ arg = [i \in Instances |-> NoArg]

Goto(i, label) == pc' = [pc EXCEPT ![i] = label]

\* Where a command goes after an API call: on to next, to its exit when the call
\* failed, out of the TA when the call panicked.
After(i, next, exit) ==
    Goto(i, CASE ret'[i].res = "SUCCESS" -> next
              [] ret'[i].res = "TARGET_DEAD" -> "panic"
              [] OTHER -> exit)

\* TEE_Malloc, TEE_AllocateTransientObject, TEE_GenerateKey and other calls that
\* only touch the instance itself.
LocalCall(i, error, next, exit) ==
    \/ ret' = [ret EXCEPT ![i] = Success] /\ Goto(i, next)
    \/ Returns(i, error, NULL) /\ Goto(i, exit)

\* Dispatch: the instance starts at the handler of the command.
TA_InvokeCommandEntryPoint(i, params) ==
    /\ arg' = [arg EXCEPT ![i] = params]
    /\ Goto(i, params.cmd)
=============================================================================
