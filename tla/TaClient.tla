------------------------------ MODULE TaClient ------------------------------
(***************************************************************************)
(* The client side of a session: host/libsess/session.c, and what every    *)
(* function of the client libraries does, send a command and wait for it.  *)
(***************************************************************************)
EXTENDS TaInstance

VARIABLES
    sess,               \* "closed", "open", or "dead" once the TA panicked
    hpc,                \* which library function a client is in
    held,               \* handle -> NULL or [obj, flags] the client asked for
    eheld               \* the enumerators the client was given

clientVars == <<sess, hpc, held, eheld>>

NothingHeld == [h \in HandleIds |-> NULL]

ClientInit ==
    /\ sess = [i \in Instances |-> "closed"]
    /\ hpc = [i \in Instances |-> "idle"]
    /\ held = [i \in Instances |-> NothingHeld]
    /\ eheld = [i \in Instances |-> {}]

HGoto(i, label) == hpc' = [hpc EXCEPT ![i] = label]
Idle(i) == hpc[i] = "idle" /\ sess[i] # "closed"

openSession(i) ==
    /\ sess[i] = "closed"
    /\ sess' = [sess EXCEPT ![i] = "open"]
    /\ UNCHANGED <<teeVars, callVars, hpc, held, eheld>>

\* The instance goes with its only session, and its handles with the instance.
closeSession(i) ==
    /\ Idle(i)
    /\ sess' = [sess EXCEPT ![i] = "closed"]
    /\ handles' = [handles EXCEPT ![i] = [h \in HandleIds |-> NULL]]
    /\ enums' = [enums EXCEPT ![i] = [e \in EnumIds |-> NULL]]
    /\ held' = [held EXCEPT ![i] = NothingHeld]
    /\ eheld' = [eheld EXCEPT ![i] = {}]
    /\ UNCHANGED <<store, ret, callVars, hpc>>

\* The framework answers for an instance that panicked.
TEEC_InvokeCommand(i, params) ==
    /\ UNCHANGED <<store, handles, enums>>
    /\ IF sess[i] = "open"
       THEN /\ TA_InvokeCommandEntryPoint(i, params)
            /\ ret' = [ret EXCEPT ![i] = Success]
       ELSE /\ Goto(i, "return")
            /\ arg' = [arg EXCEPT ![i] = params]
            /\ Returns(i, "TARGET_DEAD", NULL)

Params(cmd) == [NoArg EXCEPT !.cmd = cmd]

Call(i, params) ==
    /\ Idle(i)
    /\ TEEC_InvokeCommand(i, params)
    /\ HGoto(i, "call")
    /\ UNCHANGED <<sess, held, eheld>>

\* The command is answered.
Answered(i, label) == hpc[i] = label /\ pc[i] \in {"return", "panic"}

Back(i, label) ==
    /\ HGoto(i, label)
    /\ Goto(i, "idle")
    /\ arg' = [arg EXCEPT ![i] = NoArg]
    /\ ret' = [ret EXCEPT ![i] = Success]
    /\ UNCHANGED <<store, handles, enums>>

\* What the client knows after a command: the handles it got, changed or gave back.
\* A panic took all it had.
Learn(i) ==
    LET a == arg[i]
        r == ret[i]
        ok(cmds) == r.res = "SUCCESS" /\ a.cmd \in cmds IN
    /\ held' = [held EXCEPT ![i] =
          CASE pc[i] = "panic" -> NothingHeld
            [] ok({"generate", "open", "create", "alloc_obj"}) ->
                   [@ EXCEPT ![r.val] = [obj |-> a.obj, flags |-> a.flags]]
            [] ok({"close", "close_and_delete", "unlink", "free_obj"}) -> [@ EXCEPT ![a.h] = NULL]
            [] ok({"rename"}) /\ @[a.h] # NULL -> [@ EXCEPT ![a.h].obj[2] = a.obj[2]]
            [] OTHER -> @]
    /\ eheld' = [eheld EXCEPT ![i] =
          CASE pc[i] = "panic" -> {}
            [] ok({"alloc_enum"}) -> @ \cup {r.val}
            [] ok({"free_enum"}) -> @ \ {a.h}
            [] OTHER -> @]
    /\ sess' = [sess EXCEPT ![i] = IF pc[i] = "panic" THEN "dead" ELSE @]

CallReturns(i) ==
    /\ Answered(i, "call")
    /\ Learn(i)
    /\ Back(i, "idle")
=============================================================================
