-------------------------------- MODULE LibFs --------------------------------
(***************************************************************************)
(* Clients of the storage TA: host/libfs/fs.c, and the same functions in   *)
(* host/storageTest/common/helper.c.  Each client has one session and      *)
(* sends one command at a time.                                            *)
(***************************************************************************)
EXTENDS StorageTa, TaClient

CONSTANTS
    FlagChoices,        \* the access flags clients pass
    Uses,               \* client -> the commands it sends
    Misusers            \* clients that also pass handles they do not hold

Library == {"open", "create", "create_overwrite", "rename", "close", "data", "unlink",
            "enumerator", "transient", "info", "key_in_persistent", "loop"}

ASSUME ClientAssumption ==
    /\ FlagChoices \subseteq SUBSET StorageFlags
    /\ Uses \in [Instances -> SUBSET Library]
    /\ Misusers \subseteq Instances

vars == <<teeVars, callVars, locals, clientVars>>

Init == TaInit /\ ClientInit

Open(i) == openSession(i) /\ UNCHANGED locals

Close(i) ==
    /\ closeSession(i)
    /\ stranded' = [stranded EXCEPT ![i] = {}]
    /\ UNCHANGED kept

Send(i, params) == Call(i, params) /\ UNCHANGED locals

-----------------------------------------------------------------------------
(***************************************************************************)
(* The functions of the library.                                           *)
(***************************************************************************)

\* The handles a client passes where a right is needed, and its transient objects.
Holding(i) == {h \in HandleIds : held[i][h] # NULL}
Transient(i) == IF i \in Misusers THEN HandleIds ELSE {h \in Holding(i) : held[i][h].obj = NULL}
Persistent(i) == IF i \in Misusers THEN HandleIds ELSE {h \in Holding(i) : held[i][h].obj # NULL}
With(i, right) == IF i \in Misusers THEN HandleIds ELSE {h \in Persistent(i) : right \in held[i][h].flags}
PassedEnums(i) == IF i \in Misusers THEN EnumIds ELSE eheld[i]

OnHandle(i, cmd, hs) == \E h \in hs : Send(i, [Params(cmd) EXCEPT !.h = h])

fs_open(i) ==
    \E obj \in Objects, flags \in FlagChoices :
        Send(i, [Params("open") EXCEPT !.obj = obj, !.flags = flags])

\* attr is 0 or the handle of an object whose attributes are copied.
fs_create(i) ==
    \E obj \in Objects, flags \in FlagChoices, attr \in Persistent(i) \cup {NULL}, data \in Data :
        Send(i, [Params("create") EXCEPT !.obj = obj, !.flags = flags, !.h = attr, !.data = data])

fs_create_overwrite(i) ==
    \E obj \in Objects : Send(i, [Params("create_overwrite") EXCEPT !.obj = obj])

fs_rename(i) ==
    \E h \in With(i, "META"), name \in Names :
        Send(i, [Params("rename") EXCEPT !.h = h, !.obj = <<NULL, name>>])

fs_write(i) ==
    \E h \in With(i, "WRITE"), data \in Data :
        Send(i, [Params("write") EXCEPT !.h = h, !.data = data])

fs_close(i) == OnHandle(i, "close", Persistent(i))
fs_read(i) == OnHandle(i, "read", With(i, "READ"))
fs_seek(i) == OnHandle(i, "seek", Persistent(i))
fs_trunc(i) == OnHandle(i, "trunc", With(i, "WRITE"))
fs_unlink(i) == OnHandle(i, "unlink", With(i, "META"))
fs_restrict_usage(i) == OnHandle(i, "restrict_usage", Persistent(i) \cup Transient(i))
fs_get_obj_info(i) == OnHandle(i, "get_obj_info", Persistent(i) \cup Transient(i))
fs_alloc_obj(i) == Send(i, Params("alloc_obj"))
fs_free_obj(i) == OnHandle(i, "free_obj", Transient(i))
fs_reset_obj(i) == OnHandle(i, "reset_obj", Transient(i))
fs_alloc_enum(i) == Send(i, Params("alloc_enum"))
fs_free_enum(i) == OnHandle(i, "free_enum", PassedEnums(i))
fs_reset_enum(i) == OnHandle(i, "reset_enum", PassedEnums(i))

\* The buffer for the identifier may be too small.
fs_next_enum(i) ==
    \E e \in PassedEnums(i), size \in BOOLEAN :
        Send(i, [Params("next_enum") EXCEPT !.h = e, !.size = size])

OnStorage(i, cmd, es) ==
    \E e \in es, s \in Storages : Send(i, [Params(cmd) EXCEPT !.h = e, !.obj = <<s, NULL>>])

fs_start_enum(i) == OnStorage(i, "start_enum", PassedEnums(i))

\* The library has no function for these two commands.
InvokeKeyInPersistent(i) == OnStorage(i, "key_in_persistent", {NULL})
InvokeLoop(i) == OnStorage(i, "loop", {NULL})

\* A stranded handle can only be closed by guessing it.
Returned(i) ==
    /\ CallReturns(i)
    /\ stranded' = [stranded EXCEPT ![i] =
           IF pc[i] = "panic" THEN {}
           ELSE IF arg[i].cmd \in {"close", "unlink"} THEN @ \ {arg[i].h}
           ELSE @]
    /\ UNCHANGED kept

-----------------------------------------------------------------------------
\* What a client decides to do next.
Calls(i) ==
    \/ Open(i)
    \/ Close(i)
    \/ "open" \in Uses[i] /\ fs_open(i)
    \/ "create" \in Uses[i] /\ fs_create(i)
    \/ "create_overwrite" \in Uses[i] /\ fs_create_overwrite(i)
    \/ "rename" \in Uses[i] /\ fs_rename(i)
    \/ "close" \in Uses[i] /\ fs_close(i)
    \/ "data" \in Uses[i] /\ (fs_read(i) \/ fs_write(i) \/ fs_seek(i) \/ fs_trunc(i))
    \/ "unlink" \in Uses[i] /\ fs_unlink(i)
    \/ "enumerator" \in Uses[i] /\ (fs_alloc_enum(i) \/ fs_free_enum(i) \/ fs_reset_enum(i)
                                      \/ fs_start_enum(i) \/ fs_next_enum(i))
    \/ "transient" \in Uses[i] /\ (fs_alloc_obj(i) \/ fs_free_obj(i) \/ fs_reset_obj(i))
    \/ "info" \in Uses[i] /\ (fs_restrict_usage(i) \/ fs_get_obj_info(i))
    \/ "key_in_persistent" \in Uses[i] /\ InvokeKeyInPersistent(i)
    \/ "loop" \in Uses[i] /\ InvokeLoop(i)

\* The steps of a call, in the TA and in the library.
Progress(i) ==
    \/ TaStep(i) /\ UNCHANGED clientVars
    \/ Returned(i)

Next == \E i \in Instances : Calls(i) \/ Progress(i)

Spec == Init /\ [][Next]_vars

\* Client threads are scheduled and the commands of the TA run to their end.
FairSpec == Spec /\ \A i \in Instances : WF_vars(Progress(i))

-----------------------------------------------------------------------------
(***************************************************************************)
(* Properties.                                                             *)
(***************************************************************************)

\* Whatever call of the TEE failed, a command that leaves the TA has freed its copy of
\* the identifier, its transient key and its operation (the cleanup labels of
\* ta_storage_cmd_key_in_persistent, the frees after the calls elsewhere).
TemporariesFreed ==
    \A i \in Instances : pc[i] \in {"idle", "return"} =>
        ~object_id[i] /\ transient_key[i] = NULL /\ ~encrypt_op[i]

\* Between its calls the handles and enumerators an instance has open are those its
\* client knows, on the object and with the flags it asked for, and the handles that
\* key_in_persistent left open because a check of the object information failed; no
\* other failure path of any command leaves one behind, and neither does loop.
HandlesAccounted ==
    \A i \in Instances : hpc[i] = "idle" =>
        /\ OpenEnums(i) = eheld[i]
        /\ OpenHandles(i) = Holding(i) \cup stranded[i]
        /\ \A h \in Holding(i) : /\ handles[i][h].obj = held[i][h].obj
                                 /\ handles[i][h].flags = held[i][h].flags

\* As long as no session renames, deletes or replaces objects itself, the key that
\* key_in_persistent deletes in the end is the one it generated, although the object
\* is closed in between and other sessions open it or run the same command.
OwnKeyDeleted ==
    \A i \in Instances : pc[i] \in {"allocate_op", "set_key", "cleanup4", "cleanup3"} =>
        handles[i][key[i]].key.attr = transient_key[i]

\* An object that a client opened or created with meta access exists, and only
\* changes by steps of that client: no command of another session, rename and the
\* replacing ones included, touches it.
ExclusiveObjectsStable ==
    [][\A i \in Instances : \A h \in Holding(i) \cap OpenHandles(i) :
        "META" \in held[i][h].flags /\ pc'[i] = pc[i] /\ sess'[i] = sess[i] =>
            store'[handles[i][h].obj] = store[handles[i][h].obj]]_vars

\* A client that gives back each handle once and uses only the access it asked for
\* never makes the TA panic, whatever handles the clients of other sessions pass.
DisciplineNeverPanics ==
    \A i \in Instances \ Misusers : sess[i] # "dead" /\ pc[i] # "panic"

\* With a single session, a loop command that succeeds leaves none of its objects in
\* the storage, whatever was there before.
LoopLeavesNothing ==
    Cardinality(Instances) = 1 =>
        \A i \in Instances :
            pc[i] = "return" /\ arg[i].cmd = "loop" /\ ret[i].res = "SUCCESS" =>
                \A m \in 0..(LoopCount - 1) : <<arg[i].obj[1], m>> \notin Present

\* Every command returns, whatever the storage refuses.
CallsReturn == \A i \in Instances : hpc[i] # "idle" ~> hpc[i] = "idle"
=============================================================================
