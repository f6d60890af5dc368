------------------------------ MODULE StorageTa ------------------------------
(***************************************************************************)
(* The storage TA, ta/storage/*.c.  As in the key TA every session has an  *)
(* instance of its own and a step is one call of the TEE API.  The         *)
(* contents of an object are its key, NULL for a pure data object, and its *)
(* data.  The *_ID_IN_SHM commands, which no client here sends, differ in  *)
(* passing the identifier without a copy.                                  *)
(***************************************************************************)
EXTENDS TaInstance, Integers

CONSTANTS
    NoKey,              \* a transient object that holds no key yet
    Data,               \* what the data stream of an object can be
    LoopCount           \* iterations of ta_storage_cmd_loop, 20 in the code

\* The contents of an object, an open handle, and what a client knows of its handle;
\* a transient object has no name.
Contents == [attr : Keys \cup {NULL}, data : Data \cup {NULL}]
ObjectHandles == [obj : Objects \cup {NULL}, flags : SUBSET StorageFlags, key : Contents \cup {NULL}]
ClientHandles == [obj : Objects \cup {NULL}, flags : SUBSET StorageFlags]

ASSUME StorageTaAssumption ==
    /\ NULL \notin Objects \cup Contents \cup ObjectHandles \cup ClientHandles
    /\ NoKey \notin Keys \cup {NULL}
    /\ LoopCount \in Nat \ {0}
    /\ {1} \cup 0..(LoopCount - 1) \subseteq Names

VARIABLES
    object_id,          \* whether the copy of an identifier is allocated
    transient_key,      \* NULL, NoKey or the key in the transient object
    encrypt_op,         \* whether the operation is allocated
    key,                \* the object key_in_persistent or loop has open, or NULL
    n,                  \* the counter of the loop
    stranded            \* history: handles key_in_persistent left open

kept == <<object_id, transient_key, encrypt_op, key, n>>
locals == <<kept, stranded>>

TaInit ==
    /\ InstanceInit
    /\ object_id = [i \in Instances |-> FALSE]
    /\ transient_key = [i \in Instances |-> NULL]
    /\ encrypt_op = [i \in Instances |-> FALSE]
    /\ key = [i \in Instances |-> NULL]
    /\ n = [i \in Instances |-> 0]
    /\ stranded = [i \in Instances |-> {}]

Content(attr, data) == [attr |-> attr, data |-> data]

\* The command is done with its API call.
Done(i) == After(i, "return", "return") /\ UNCHANGED <<arg, locals>>

\* The TA returns TEE_SUCCESS whatever the call returned.
DoneIgnoring(i) == After(i, "return", "ignore") /\ UNCHANGED <<arg, locals>>

IgnoreResult(i) ==
    /\ pc[i] = "ignore"
    /\ ret' = [ret EXCEPT ![i] = Success]
    /\ Goto(i, "return")
    /\ UNCHANGED <<store, handles, enums, arg, locals>>

-----------------------------------------------------------------------------
(***************************************************************************)
(* The commands with an identifier copy it out of the client's memory, use *)
(* it in one API call and free the copy.                                   *)
(***************************************************************************)
CopyId(i) ==
    /\ pc[i] \in {"open", "create", "create_overwrite", "rename"}
    /\ LocalCall(i, "OUT_OF_MEMORY", "with_id", "return")
    /\ object_id' = [object_id EXCEPT ![i] = pc'[i] = "with_id"]
    /\ UNCHANGED <<store, handles, enums, arg, transient_key, encrypt_op, key, n, stranded>>

\* Mutant: a failed call returns without freeing the copy.
IdUsedReturning(i) ==
    /\ After(i, "free_id", "return")
    /\ object_id' = [object_id EXCEPT ![i] = pc'[i] # "panic"]
    /\ UNCHANGED <<arg, transient_key, encrypt_op, key, n, stranded>>

\* A panic takes the copy with it.
IdUsed(i) ==
    /\ After(i, "free_id", "free_id")
    /\ object_id' = [object_id EXCEPT ![i] = pc'[i] # "panic"]
    /\ UNCHANGED <<arg, transient_key, encrypt_op, key, n, stranded>>

FreeId(i) ==
    /\ pc[i] = "free_id"
    /\ object_id' = [object_id EXCEPT ![i] = FALSE]
    /\ Goto(i, "return")
    /\ UNCHANGED <<teeVars, arg, transient_key, encrypt_op, key, n, stranded>>

Using(i, cmd) == pc[i] = "with_id" /\ arg[i].cmd = cmd

\* Mutant: only the flags for the data stream are passed on.
OpenDataOnly(i) ==
    /\ Using(i, "open")
    /\ TEE_OpenPersistentObject(i, arg[i].obj, arg[i].flags \ {"META"})
    /\ IdUsed(i)

ta_storage_cmd_open(i) ==
    /\ Using(i, "open")
    /\ TEE_OpenPersistentObject(i, arg[i].obj, arg[i].flags)
    /\ IdUsed(i)

\* The attributes are those of the object h; a transient object without a key, or
\* a handle that is not open, makes the API panic.
ta_storage_cmd_create(i) ==
    LET ref == arg[i].h
        bad == ref \notin {NULL} \cup {h \in OpenHandles(i) : handles[i][h].obj # NULL}
        attr == IF ref = NULL THEN NULL ELSE handles[i][ref].key.attr IN
    /\ Using(i, "create")
    /\ \/ bad /\ Panics(i)
       \/ ~bad /\ TEE_CreatePersistentObject(i, arg[i].obj, arg[i].flags, Content(attr, arg[i].data))
    /\ IdUsed(i)

ta_storage_cmd_create_overwrite(i) ==
    /\ Using(i, "create_overwrite")
    /\ CreateClosed(i, arg[i].obj, {"OVERWRITE"}, Content(NULL, NULL))
    /\ IdUsed(i)

ta_storage_cmd_rename(i) ==
    /\ Using(i, "rename")
    /\ TEE_RenamePersistentObject(i, arg[i].h, arg[i].obj[2])
    /\ IdUsed(i)

WithId(i) ==
    \/ CopyId(i)
    \/ ta_storage_cmd_open(i)
    \/ ta_storage_cmd_create(i)
    \/ ta_storage_cmd_create_overwrite(i)
    \/ ta_storage_cmd_rename(i)
    \/ FreeId(i)

-----------------------------------------------------------------------------
(***************************************************************************)
(* The commands on an open object, a transient object or an enumerator.    *)
(***************************************************************************)
ta_storage_cmd_close(i) == pc[i] = "close" /\ TEE_CloseObject(i, arg[i].h) /\ Done(i)

ta_storage_cmd_read(i) == pc[i] = "read" /\ TEE_ReadObjectData(i, arg[i].h) /\ Done(i)

ta_storage_cmd_write(i) == pc[i] = "write" /\ ChangeData(i, arg[i].h, arg[i].data) /\ Done(i)

ta_storage_cmd_trunc(i) ==
    pc[i] = "trunc" /\ (\E d \in Data : ChangeData(i, arg[i].h, d)) /\ Done(i)

\* The position is only fetched after a seek that succeeded.
ta_storage_cmd_seek(i) ==
    \/ /\ pc[i] = "seek"
       /\ TEE_SeekObjectData(i, arg[i].h)
       /\ After(i, "seek_info", "return")
       /\ UNCHANGED <<arg, locals>>
    \/ pc[i] = "seek_info" /\ ReadObject(i, arg[i].h) /\ Done(i)

\* The client cannot tell whether the object is really gone.
ta_storage_cmd_unlink(i) ==
    pc[i] = "unlink" /\ TEE_CloseAndDeletePersistentObject1(i, arg[i].h) /\ DoneIgnoring(i)

ta_storage_cmd_alloc_enum(i) ==
    pc[i] = "alloc_enum" /\ TEE_AllocatePersistentObjectEnumerator(i) /\ Done(i)

ta_storage_cmd_free_enum(i) ==
    pc[i] = "free_enum" /\ TEE_FreePersistentObjectEnumerator(i, arg[i].h) /\ Done(i)

ta_storage_cmd_reset_enum(i) ==
    pc[i] = "reset_enum" /\ TEE_ResetPersistentObjectEnumerator(i, arg[i].h) /\ Done(i)

ta_storage_cmd_start_enum(i) ==
    /\ pc[i] = "start_enum"
    /\ TEE_StartPersistentObjectEnumerator(i, arg[i].h, arg[i].obj[1])
    /\ Done(i)

ta_storage_cmd_next_enum(i) ==
    /\ pc[i] = "next_enum"
    /\ IF arg[i].size
       THEN TEE_GetNextPersistentObject(i, arg[i].h)
       ELSE Fails(i, "SHORT_BUFFER")
    /\ Done(i)

\* Only the copy of the usage in the open object changes.
ta_storage_cmd_restrict_usage(i) ==
    pc[i] = "restrict_usage" /\ ReadObject(i, arg[i].h) /\ DoneIgnoring(i)

ta_storage_cmd_alloc_obj(i) == pc[i] = "alloc_obj" /\ TEE_AllocateTransientObject(i) /\ Done(i)

ta_storage_cmd_free_obj(i) == pc[i] = "free_obj" /\ OnTransient(i, arg[i].h, TRUE) /\ Done(i)

ta_storage_cmd_reset_obj(i) == pc[i] = "reset_obj" /\ OnTransient(i, arg[i].h, FALSE) /\ Done(i)

ta_storage_cmd_get_obj_info(i) == pc[i] = "get_obj_info" /\ ReadObject(i, arg[i].h) /\ Done(i)

OneCall(i) ==
    \/ ta_storage_cmd_close(i)
    \/ ta_storage_cmd_read(i)
    \/ ta_storage_cmd_write(i)
    \/ ta_storage_cmd_trunc(i)
    \/ ta_storage_cmd_seek(i)
    \/ ta_storage_cmd_unlink(i)
    \/ ta_storage_cmd_alloc_enum(i)
    \/ ta_storage_cmd_free_enum(i)
    \/ ta_storage_cmd_reset_enum(i)
    \/ ta_storage_cmd_start_enum(i)
    \/ ta_storage_cmd_next_enum(i)
    \/ ta_storage_cmd_restrict_usage(i)
    \/ ta_storage_cmd_alloc_obj(i)
    \/ ta_storage_cmd_free_obj(i)
    \/ ta_storage_cmd_reset_obj(i)
    \/ ta_storage_cmd_get_obj_info(i)
    \/ IgnoreResult(i)

-----------------------------------------------------------------------------
(***************************************************************************)
(* ta_storage_cmd_key_in_persistent: a generated key is stored, closed,    *)
(* opened again, used and deleted.                                         *)
(***************************************************************************)
KeyFlags == {"READ", "WRITE", "META", "SHARE_READ", "SHARE_WRITE"}
KeyObject(i) == <<arg[i].obj[1], 1>>

KeyAllocate(i) ==
    /\ pc[i] = "key_in_persistent"
    /\ LocalCall(i, "OUT_OF_MEMORY", "generate_key", "return")
    /\ transient_key' = [transient_key EXCEPT ![i] = IF pc'[i] = "return" THEN NULL ELSE NoKey]
    /\ UNCHANGED <<store, handles, enums, arg, object_id, encrypt_op, key, n, stranded>>

KeyGenerate(i) ==
    /\ pc[i] = "generate_key"
    /\ LocalCall(i, "GENERIC", "create_key", "cleanup2")
    /\ \E k \in Keys :
        transient_key' = [transient_key EXCEPT ![i] = IF pc'[i] = "create_key" THEN k ELSE NoKey]
    /\ UNCHANGED <<store, handles, enums, arg, object_id, encrypt_op, key, n, stranded>>

\* Mutant: an object of this name is replaced.
KeyCreateReplacing(i) ==
    /\ pc[i] = "create_key"
    /\ TEE_CreatePersistentObject(i, KeyObject(i), KeyFlags \cup {"OVERWRITE"},
                                  Content(transient_key[i], NULL))
    /\ key' = [key EXCEPT ![i] = ret'[i].val]
    /\ After(i, "check_created", "cleanup2")
    /\ UNCHANGED <<arg, object_id, transient_key, encrypt_op, n, stranded>>

KeyCreate(i) ==
    /\ pc[i] = "create_key"
    /\ TEE_CreatePersistentObject(i, KeyObject(i), KeyFlags, Content(transient_key[i], NULL))
    /\ key' = [key EXCEPT ![i] = ret'[i].val]
    /\ After(i, "check_created", "cleanup2")
    /\ UNCHANGED <<arg, object_id, transient_key, encrypt_op, n, stranded>>

\* TEE_GetObjectInfo1 and check_obj.  The information of an object that is not a
\* key differs, and so does what a failed TEE_GetObjectInfo1 leaves in the record.
\* The exit is cleanup2, which closes no persistent object.
check_obj(i, at, next) ==
    /\ pc[i] = at
    /\ \/ /\ handles[i][key[i]].key.attr # NULL
          /\ ret' = [ret EXCEPT ![i] = Success]
          /\ Goto(i, next)
          /\ UNCHANGED <<key, stranded>>
       \/ /\ Returns(i, "GENERIC", NULL)
          /\ Goto(i, "cleanup2")
          /\ stranded' = [stranded EXCEPT ![i] = @ \cup {key[i]}]
          /\ key' = [key EXCEPT ![i] = NULL]
    /\ UNCHANGED <<store, handles, enums, arg, object_id, transient_key, encrypt_op, n>>

KeyClose(i) ==
    /\ pc[i] = "close_created"
    /\ TEE_CloseObject(i, key[i])
    /\ key' = [key EXCEPT ![i] = NULL]
    /\ Goto(i, "open_key")
    /\ UNCHANGED <<arg, object_id, transient_key, encrypt_op, n, stranded>>

\* Other sessions can open, rename or delete the object before it is opened again.
KeyOpen(i) ==
    /\ pc[i] = "open_key"
    /\ TEE_OpenPersistentObject(i, KeyObject(i), KeyFlags)
    /\ key' = [key EXCEPT ![i] = ret'[i].val]
    /\ After(i, "check_opened", "cleanup2")
    /\ UNCHANGED <<arg, object_id, transient_key, encrypt_op, n, stranded>>

\* Mutant: no operation, no clean-up of the object.
AllocateOperationReturning(i) ==
    /\ pc[i] = "allocate_op"
    /\ LocalCall(i, "OUT_OF_MEMORY", "set_key", "cleanup2")
    /\ encrypt_op' = [encrypt_op EXCEPT ![i] = pc'[i] = "set_key"]
    /\ UNCHANGED <<store, handles, enums, arg, object_id, transient_key, key, n, stranded>>

AllocateOperation(i) ==
    /\ pc[i] = "allocate_op"
    /\ LocalCall(i, "OUT_OF_MEMORY", "set_key", "cleanup3")
    /\ encrypt_op' = [encrypt_op EXCEPT ![i] = pc'[i] = "set_key"]
    /\ UNCHANGED <<store, handles, enums, arg, object_id, transient_key, key, n, stranded>>

\* TEE_SetOperationKey, then the initialisation vector, which is freed at once.
SetOperationKey(i) ==
    /\ pc[i] = "set_key"
    /\ \E error \in {"GENERIC", "OUT_OF_MEMORY"} : LocalCall(i, error, "cleanup4", "cleanup4")
    /\ UNCHANGED <<store, handles, enums, arg, locals>>

Cleanup4(i) ==
    /\ pc[i] = "cleanup4"
    /\ encrypt_op' = [encrypt_op EXCEPT ![i] = FALSE]
    /\ Goto(i, "cleanup3")
    /\ UNCHANGED <<teeVars, arg, object_id, transient_key, key, n, stranded>>

\* The result of the deletion is dropped.
Cleanup3(i) ==
    /\ pc[i] = "cleanup3"
    /\ Removes(i, key[i]) \/ RemovesNot(i, key[i])
    /\ key' = [key EXCEPT ![i] = NULL]
    /\ Goto(i, "cleanup2")
    /\ UNCHANGED <<ret, arg, object_id, transient_key, encrypt_op, n, stranded>>

Cleanup2(i) ==
    /\ pc[i] = "cleanup2"
    /\ transient_key' = [transient_key EXCEPT ![i] = NULL]
    /\ Goto(i, "return")
    /\ UNCHANGED <<teeVars, arg, object_id, encrypt_op, key, n, stranded>>

ta_storage_cmd_key_in_persistent(i) ==
    \/ KeyAllocate(i)
    \/ KeyGenerate(i)
    \/ KeyCreate(i)
    \/ check_obj(i, "check_created", "close_created")
    \/ KeyClose(i)
    \/ KeyOpen(i)
    \/ check_obj(i, "check_opened", "allocate_op")
    \/ AllocateOperation(i)
    \/ SetOperationKey(i)
    \/ Cleanup4(i)
    \/ Cleanup3(i)
    \/ Cleanup2(i)

-----------------------------------------------------------------------------
(***************************************************************************)
(* ta_storage_cmd_loop.                                                    *)
(***************************************************************************)
LoopFlags == {"OVERWRITE", "META"}

\* Mutant: object_id keeps the value it is declared with.
LoopCreateSame(i) ==
    /\ pc[i] = "loop"
    /\ n[i] < LoopCount
    /\ TEE_CreatePersistentObject(i, <<arg[i].obj[1], 0>>, LoopFlags, Content(NULL, NULL))
    /\ key' = [key EXCEPT ![i] = ret'[i].val]
    /\ n' = [n EXCEPT ![i] = IF ret'[i].res = "SUCCESS" THEN @ ELSE 0]
    /\ After(i, "loop_delete", "return")
    /\ UNCHANGED <<arg, object_id, transient_key, encrypt_op, stranded>>

LoopCreate(i) ==
    /\ pc[i] = "loop"
    /\ n[i] < LoopCount
    /\ TEE_CreatePersistentObject(i, <<arg[i].obj[1], n[i]>>, LoopFlags, Content(NULL, NULL))
    /\ key' = [key EXCEPT ![i] = ret'[i].val]
    /\ n' = [n EXCEPT ![i] = IF ret'[i].res = "SUCCESS" THEN @ ELSE 0]
    /\ After(i, "loop_delete", "return")
    /\ UNCHANGED <<arg, object_id, transient_key, encrypt_op, stranded>>

\* Mutant: an object that cannot be deleted is tried again.
LoopDeleteRetrying(i) ==
    /\ pc[i] = "loop_delete"
    /\ TEE_CloseAndDeletePersistentObject1(i, key[i])
    /\ key' = [key EXCEPT ![i] = NULL]
    /\ n' = [n EXCEPT ![i] = IF ret'[i].res = "SUCCESS" THEN @ + 1 ELSE @]
    /\ Goto(i, "loop")
    /\ UNCHANGED <<arg, object_id, transient_key, encrypt_op, stranded>>

LoopDelete(i) ==
    /\ pc[i] = "loop_delete"
    /\ TEE_CloseAndDeletePersistentObject1(i, key[i])
    /\ key' = [key EXCEPT ![i] = NULL]
    /\ n' = [n EXCEPT ![i] = IF ret'[i].res = "SUCCESS" THEN @ + 1 ELSE 0]
    /\ After(i, "loop", "return")
    /\ UNCHANGED <<arg, object_id, transient_key, encrypt_op, stranded>>

LoopEnd(i) ==
    /\ pc[i] = "loop"
    /\ n[i] = LoopCount
    /\ n' = [n EXCEPT ![i] = 0]
    /\ ret' = [ret EXCEPT ![i] = Success]
    /\ Goto(i, "return")
    /\ UNCHANGED <<store, handles, enums, arg, object_id, transient_key, encrypt_op, key, stranded>>

ta_storage_cmd_loop(i) == LoopCreate(i) \/ LoopDelete(i) \/ LoopEnd(i)

\* The steps of the command an instance runs.
TaStep(i) ==
    \/ WithId(i)
    \/ OneCall(i)
    \/ ta_storage_cmd_key_in_persistent(i)
    \/ ta_storage_cmd_loop(i)
=============================================================================
