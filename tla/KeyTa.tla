-------------------------------- MODULE KeyTa --------------------------------
(***************************************************************************)
(* The key TA, ta/key/*.c.  Its flags lack TA_FLAG_SINGLE_INSTANCE, so     *)
(* every session has an instance of its own; the instances run in parallel *)
(* on the same objects.  A step is one call of the TEE API, so commands of *)
(* different sessions interleave between any two calls.                    *)
(***************************************************************************)
EXTENDS TaInstance

CONSTANTS
    NoKey               \* a transient object that holds no key yet

\* What an open handle records.
KeyHandles == [obj : Objects, flags : SUBSET StorageFlags, key : Keys]

ASSUME KeyAssumption ==
    /\ NoKey \notin Keys \cup {NULL}
    /\ NULL \notin KeyHandles

VARIABLES
    transient_key,      \* NULL, NoKey or the key in the transient object
    keyFileName,        \* whether the copy of the name is allocated
    oe                  \* the enumerator of ta_key_cmd_list, or NULL

locals == <<transient_key, keyFileName, oe>>

TaInit ==
    /\ InstanceInit
    /\ transient_key = [i \in Instances |-> NULL]
    /\ keyFileName = [i \in Instances |-> FALSE]
    /\ oe = [i \in Instances |-> NULL]

FreeName(i) == keyFileName' = [keyFileName EXCEPT ![i] = FALSE]
FreeTransient(i) == transient_key' = [transient_key EXCEPT ![i] = NULL]

-----------------------------------------------------------------------------
(***************************************************************************)
(* ta_key_cmd_generate.                                                    *)
(***************************************************************************)

\* Only 128, 192 and 256 bits are supported.
CheckSize(i) ==
    /\ pc[i] = "generate"
    /\ IF arg[i].size
       THEN Goto(i, "allocate") /\ UNCHANGED ret
       ELSE Returns(i, "NOT_SUPPORTED", NULL) /\ Goto(i, "return")
    /\ UNCHANGED <<store, handles, enums, arg, locals>>

AllocateTransient(i) ==
    /\ pc[i] = "allocate"
    /\ LocalCall(i, "OUT_OF_MEMORY", "genkey", "return")
    /\ transient_key' = [transient_key EXCEPT ![i] = IF pc'[i] = "genkey" THEN NoKey ELSE NULL]
    /\ UNCHANGED <<store, handles, enums, arg, keyFileName, oe>>

\* Mutant: a failed TEE_GenerateKey or TEE_GetObjectInfo1 returns directly.
GenerateKeyReturning(i) ==
    /\ pc[i] = "genkey"
    /\ LocalCall(i, "GENERIC", "name", "return")
    /\ \E k \in Keys :
        transient_key' = [transient_key EXCEPT ![i] = IF pc'[i] = "name" THEN k ELSE NoKey]
    /\ UNCHANGED <<store, handles, enums, arg, keyFileName, oe>>

\* TEE_GenerateKey and TEE_GetObjectInfo1.
GenerateKey(i) ==
    /\ pc[i] = "genkey"
    /\ LocalCall(i, "GENERIC", "name", "out2")
    /\ \E k \in Keys :
        transient_key' = [transient_key EXCEPT ![i] = IF pc'[i] = "name" THEN k ELSE NoKey]
    /\ UNCHANGED <<store, handles, enums, arg, keyFileName, oe>>

\* The copy of the name; an empty name, NULL here, is refused after the allocation.
CopyName(i) ==
    /\ pc[i] = "name"
    /\ \/ /\ Returns(i, "OUT_OF_MEMORY", NULL)
          /\ Goto(i, "out2")
          /\ UNCHANGED keyFileName
       \/ /\ keyFileName' = [keyFileName EXCEPT ![i] = TRUE]
          /\ IF arg[i].obj[2] = NULL
             THEN Returns(i, "BAD_PARAMETERS", NULL) /\ Goto(i, "out3")
             ELSE ret' = [ret EXCEPT ![i] = Success] /\ Goto(i, "create")
    /\ UNCHANGED <<store, handles, enums, arg, transient_key, oe>>

\* Mutant: only the access and sharing flags are passed on.
CreateKeyUnshared(i) ==
    /\ pc[i] = "create"
    /\ TEE_CreatePersistentObject(i, arg[i].obj, arg[i].flags \ {"META"}, transient_key[i])
    /\ After(i, "out3", "out3")
    /\ UNCHANGED <<arg, locals>>

CreateKey(i) ==
    /\ pc[i] = "create"
    /\ TEE_CreatePersistentObject(i, arg[i].obj, arg[i].flags, transient_key[i])
    /\ After(i, "out3", "out3")
    /\ UNCHANGED <<arg, locals>>

Out3(i) ==
    /\ pc[i] = "out3"
    /\ FreeName(i)
    /\ Goto(i, "out2")
    /\ UNCHANGED <<teeVars, arg, transient_key, oe>>

Out2(i) ==
    /\ pc[i] = "out2"
    /\ FreeTransient(i)
    /\ Goto(i, "return")
    /\ UNCHANGED <<teeVars, arg, keyFileName, oe>>

ta_key_cmd_generate(i) ==
    \/ CheckSize(i)
    \/ AllocateTransient(i)
    \/ GenerateKey(i)
    \/ CopyName(i)
    \/ CreateKey(i)
    \/ Out3(i)
    \/ Out2(i)

-----------------------------------------------------------------------------
(***************************************************************************)
(* ta_key_cmd_list: an enumeration inside one command.  The result of the  *)
(* command is that of TEE_StartPersistentObjectEnumerator; the end of the  *)
(* loop, whatever the reason, does not change it.                          *)
(***************************************************************************)
ListAllocate(i) ==
    /\ pc[i] = "list"
    /\ TEE_AllocatePersistentObjectEnumerator(i)
    /\ oe' = [oe EXCEPT ![i] = ret'[i].val]
    /\ After(i, "list_start", "return")
    /\ UNCHANGED <<arg, transient_key, keyFileName>>

ListStart(i) ==
    /\ pc[i] = "list_start"
    /\ TEE_StartPersistentObjectEnumerator(i, oe[i], arg[i].obj[1])
    /\ After(i, "list_next", "list_free")
    /\ UNCHANGED <<arg, locals>>

ListNext(i) ==
    /\ pc[i] = "list_next"
    /\ TEE_GetNextPersistentObject(i, oe[i])
    /\ After(i, "list_next", "list_done")
    /\ UNCHANGED <<arg, locals>>

\* Mutant: the enumerator is freed only when the enumeration could be started.
ListFreeSuccessOnly(i) ==
    /\ pc[i] \in {"list_done", "list_free"}
    /\ IF pc[i] = "list_done"
       THEN /\ enums' = [enums EXCEPT ![i][oe[i]] = NULL]
            /\ ret' = [ret EXCEPT ![i] = Success]
       ELSE UNCHANGED <<enums, ret>>
    /\ oe' = [oe EXCEPT ![i] = NULL]
    /\ Goto(i, "return")
    /\ UNCHANGED <<store, handles, arg, transient_key, keyFileName>>

\* Label out2.  After the loop res is still TEE_SUCCESS.
ListFree(i) ==
    /\ pc[i] \in {"list_done", "list_free"}
    /\ enums' = [enums EXCEPT ![i][oe[i]] = NULL]
    /\ ret' = IF pc[i] = "list_done" THEN [ret EXCEPT ![i] = Success] ELSE ret
    /\ oe' = [oe EXCEPT ![i] = NULL]
    /\ Goto(i, "return")
    /\ UNCHANGED <<store, handles, arg, transient_key, keyFileName>>

ta_key_cmd_list(i) == ListAllocate(i) \/ ListStart(i) \/ ListNext(i) \/ ListFree(i)

-----------------------------------------------------------------------------
(***************************************************************************)
(* The commands on one key.                                                *)
(***************************************************************************)
OpenCopyName(i) ==
    /\ pc[i] = "open"
    /\ LocalCall(i, "OUT_OF_MEMORY", "open_object", "return")
    /\ keyFileName' = [keyFileName EXCEPT ![i] = pc'[i] = "open_object"]
    /\ UNCHANGED <<store, handles, enums, arg, transient_key, oe>>

\* An empty name is passed on; no object has it.
OpenKey(i) ==
    /\ pc[i] = "open_object"
    /\ TEE_OpenPersistentObject(i, arg[i].obj, arg[i].flags)
    /\ After(i, "open_free", "open_free")
    /\ UNCHANGED <<arg, locals>>

OpenFreeName(i) ==
    /\ pc[i] = "open_free"
    /\ FreeName(i)
    /\ Goto(i, "return")
    /\ UNCHANGED <<teeVars, arg, transient_key, oe>>

ta_key_cmd_open(i) == OpenCopyName(i) \/ OpenKey(i) \/ OpenFreeName(i)

ta_key_cmd_close(i) ==
    /\ pc[i] = "close"
    /\ TEE_CloseObject(i, arg[i].h)
    /\ After(i, "return", "return")
    /\ UNCHANGED <<arg, locals>>

\* Mutant: when the object could not be deleted its handle is closed as well.
CloseAndDeleteClosing(i) ==
    /\ pc[i] = "close_and_delete"
    /\ TEE_CloseAndDeletePersistentObject1(i, arg[i].h)
    /\ After(i, "return", "close")
    /\ UNCHANGED <<arg, locals>>

\* The result of the deletion is dropped: the command returns TEE_SUCCESS.
ta_key_cmd_close_and_delete(i) ==
    \/ /\ pc[i] = "close_and_delete"
       /\ TEE_CloseAndDeletePersistentObject1(i, arg[i].h)
       /\ After(i, "return", "ignore")
       /\ UNCHANGED <<arg, locals>>
    \/ /\ pc[i] = "ignore"
       /\ ret' = [ret EXCEPT ![i] = Success]
       /\ Goto(i, "return")
       /\ UNCHANGED <<store, handles, enums, arg, locals>>

\* TEE_GetObjectInfo1, whose result is overwritten, then the attribute.
ta_key_cmd_get_object_buffer_attribute(i) ==
    /\ pc[i] = "buffer_attribute"
    /\ ReadObject(i, arg[i].h)
    /\ After(i, "return", "return")
    /\ UNCHANGED <<arg, locals>>

\* A key has no attribute that is a value.
ta_key_cmd_get_object_value_attribute(i) ==
    /\ pc[i] = "value_attribute"
    /\ IF arg[i].h \in OpenHandles(i) THEN Fails(i, "ITEM_NOT_FOUND") ELSE Panics(i)
    /\ After(i, "return", "return")
    /\ UNCHANGED <<arg, locals>>

-----------------------------------------------------------------------------
(***************************************************************************)
(* The enumerator commands, one API call each.                             *)
(***************************************************************************)
Done(i) == After(i, "return", "return") /\ UNCHANGED <<arg, locals>>

ta_key_cmd_alloc_enum(i) ==
    /\ pc[i] = "alloc_enum"
    /\ TEE_AllocatePersistentObjectEnumerator(i)
    /\ Done(i)

ta_key_cmd_free_enum(i) ==
    /\ pc[i] = "free_enum"
    /\ TEE_FreePersistentObjectEnumerator(i, arg[i].h)
    /\ Done(i)

ta_key_cmd_reset_enum(i) ==
    /\ pc[i] = "reset_enum"
    /\ TEE_ResetPersistentObjectEnumerator(i, arg[i].h)
    /\ Done(i)

ta_key_cmd_start_enum(i) ==
    /\ pc[i] = "start_enum"
    /\ TEE_StartPersistentObjectEnumerator(i, arg[i].h, arg[i].obj[1])
    /\ Done(i)

ta_key_cmd_next_enum(i) ==
    /\ pc[i] = "next_enum"
    /\ IF arg[i].size
       THEN TEE_GetNextPersistentObject(i, arg[i].h)
       ELSE Fails(i, "SHORT_BUFFER")
    /\ Done(i)

\* The steps of the command an instance runs.
TaStep(i) ==
    \/ ta_key_cmd_generate(i)
    \/ ta_key_cmd_list(i)
    \/ ta_key_cmd_open(i)
    \/ ta_key_cmd_close(i)
    \/ ta_key_cmd_close_and_delete(i)
    \/ ta_key_cmd_get_object_buffer_attribute(i)
    \/ ta_key_cmd_get_object_value_attribute(i)
    \/ ta_key_cmd_alloc_enum(i)
    \/ ta_key_cmd_free_enum(i)
    \/ ta_key_cmd_reset_enum(i)
    \/ ta_key_cmd_start_enum(i)
    \/ ta_key_cmd_next_enum(i)
=============================================================================
