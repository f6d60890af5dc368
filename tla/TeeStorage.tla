----------------------------- MODULE TeeStorage -----------------------------
(***************************************************************************)
(* The persistent object API of the TEE (external: tee_internal_api.h), as *)
(* the TAs of this repository use it.  Objects are shared by all instances *)
(* of a TA; object handles and enumerators belong to one instance.  An API *)
(* call is one step and leaves its result in ret.                          *)
(***************************************************************************)
EXTENDS Naturals, FiniteSets

CONSTANTS
    Instances,          \* TA instances, one per session
    Storages,           \* storage identifiers
    Names,              \* object identifiers, not empty
    Keys,               \* keys
    HandleIds,          \* values of object handles
    EnumIds,            \* values of enumerator handles
    NULL

Objects == Storages \X Names
StorageFlags == {"READ", "WRITE", "META", "SHARE_READ", "SHARE_WRITE", "OVERWRITE"}

\* What an open enumerator records, and what a client knows of a handle it holds.
EnumRecords == [sid : Storages \cup {NULL}, base : SUBSET Objects, done : SUBSET Objects]
HeldRecords == [obj : Objects, flags : SUBSET StorageFlags]

\* NULL is no other value.
ASSUME StorageAssumption ==
    /\ NULL \notin Keys \cup HandleIds \cup EnumIds \cup Storages \cup Names
    /\ NULL \notin EnumRecords \cup HeldRecords

VARIABLES
    store,              \* object -> its contents, NULL when it does not exist: a key,
                        \* or [attr, data] for a TA that uses the data stream
    handles,            \* instance -> handle -> NULL or [obj, flags, key], key the
                        \* contents found at opening, obj NULL if it is transient
    enums,              \* instance -> enumerator -> NULL or [sid, base, done]
    ret                 \* instance -> [res, val] of its last call

teeVars == <<store, handles, enums, ret>>

Success == [res |-> "SUCCESS", val |-> NULL]

StorageInit ==
    /\ store = [o \in Objects |-> NULL]
    /\ handles = [i \in Instances |-> [h \in HandleIds |-> NULL]]
    /\ enums = [i \in Instances |-> [e \in EnumIds |-> NULL]]
    /\ ret = [i \in Instances |-> Success]

OpenHandles(i) == {h \in HandleIds : handles[i][h] # NULL}
OpenEnums(i) == {e \in EnumIds : enums[i][e] # NULL}
Present == {o \in Objects : store[o] # NULL}
InStorage(s) == {o \in Present : o[1] = s}

Returns(i, r, v) == ret' = [ret EXCEPT ![i] = [res |-> r, val |-> v]]
Fails(i, r) == Returns(i, r, NULL) /\ UNCHANGED <<store, handles, enums>>

\* TEE_Panic: the instance is gone, and with it all it had opened.
Panics(i) ==
    /\ Returns(i, "TARGET_DEAD", NULL)
    /\ handles' = [handles EXCEPT ![i] = [h \in HandleIds |-> NULL]]
    /\ enums' = [enums EXCEPT ![i] = [e \in EnumIds |-> NULL]]
    /\ UNCHANGED store

-----------------------------------------------------------------------------
(***************************************************************************)
(* Objects.                                                                *)
(***************************************************************************)

\* Access to meta data is exclusive; otherwise both sides must agree on what
\* they share, and what is not shared is not granted a second time.
Excludes(old, new) ==
    \/ "META" \in old \cup new
    \/ old \cap {"SHARE_READ", "SHARE_WRITE"} # new \cap {"SHARE_READ", "SHARE_WRITE"}
    \/ "READ" \in new /\ "SHARE_READ" \notin old
    \/ "WRITE" \in new /\ "SHARE_WRITE" \notin old

AccessConflict(obj, flags) ==
    \E i \in Instances : \E h \in OpenHandles(i) :
        handles[i][h].obj = obj /\ Excludes(handles[i][h].flags, flags)

\* An enumeration that runs while an object is replaced or removed may return the
\* new object once more, or not at all.
Disturb(obj) ==
    enums' = [i \in Instances |-> [e \in EnumIds |->
                IF enums[i][e] = NULL THEN NULL
                ELSE [enums[i][e] EXCEPT !.base = @ \ {obj}, !.done = @ \ {obj}]]]

NewHandle(i, obj, flags, key) ==
    \E h \in HandleIds \ OpenHandles(i) :
        /\ handles' = [handles EXCEPT ![i][h] = [obj |-> obj, flags |-> flags, key |-> key]]
        /\ Returns(i, "SUCCESS", h)

Refuses(obj, flags) ==
    AccessConflict(obj, flags) \/ (obj \in Present /\ "OVERWRITE" \notin flags)

CannotCreate(i, obj, flags) ==
    \/ Fails(i, "STORAGE_NO_SPACE")
    \/ Refuses(obj, flags) /\ Fails(i, "ACCESS_CONFLICT")

TEE_CreatePersistentObject(i, obj, flags, key) ==
    \/ CannotCreate(i, obj, flags)
    \/ /\ ~Refuses(obj, flags)
       /\ NewHandle(i, obj, flags, key)
       /\ store' = [store EXCEPT ![obj] = key]
       /\ Disturb(obj)

\* The same without a place for the handle: the new object is closed at once.
CreateClosed(i, obj, flags, key) ==
    \/ CannotCreate(i, obj, flags)
    \/ /\ ~Refuses(obj, flags)
       /\ store' = [store EXCEPT ![obj] = key]
       /\ Disturb(obj)
       /\ Returns(i, "SUCCESS", NULL)
       /\ UNCHANGED handles

\* The attributes are read when the object is opened.
TEE_OpenPersistentObject(i, obj, flags) ==
    LET missing == obj \notin Present IN
    \/ Fails(i, "OUT_OF_MEMORY")
    \/ missing /\ Fails(i, "ITEM_NOT_FOUND")
    \/ AccessConflict(obj, flags) /\ Fails(i, "ACCESS_CONFLICT")
    \/ /\ ~missing
       /\ ~AccessConflict(obj, flags)
       /\ NewHandle(i, obj, flags, store[obj])
       /\ UNCHANGED <<store, enums>>

CloseHandle(i, h) == handles' = [handles EXCEPT ![i][h] = NULL]

TEE_CloseObject(i, h) ==
    \/ h \notin OpenHandles(i) /\ Panics(i)
    \/ /\ h \in OpenHandles(i)
       /\ CloseHandle(i, h)
       /\ Returns(i, "SUCCESS", NULL)
       /\ UNCHANGED <<store, enums>>

\* The handle is closed whether or not the storage could remove the object.
Removes(i, h) ==
    /\ CloseHandle(i, h)
    /\ store' = [store EXCEPT ![handles[i][h].obj] = NULL]
    /\ Disturb(handles[i][h].obj)

RemovesNot(i, h) == CloseHandle(i, h) /\ UNCHANGED <<store, enums>>

TEE_CloseAndDeletePersistentObject1(i, h) ==
    LET allowed == h \in OpenHandles(i) /\ "META" \in handles[i][h].flags IN
    \/ ~allowed /\ Panics(i)
    \/ allowed /\ Removes(i, h) /\ Returns(i, "SUCCESS", NULL)
    \/ allowed /\ RemovesNot(i, h) /\ Returns(i, "STORAGE_NOT_AVAILABLE", NULL)

\* Persistent handles of an instance that were opened with a right.
Granted(i, right) ==
    {h \in OpenHandles(i) : handles[i][h].obj # NULL /\ right \in handles[i][h].flags}

\* The data stream of an object.
TEE_ReadObjectData(i, h) ==
    \/ h \notin Granted(i, "READ") /\ Panics(i)
    \/ /\ h \in Granted(i, "READ")
       /\ Returns(i, "SUCCESS", store[handles[i][h].obj].data)
       /\ UNCHANGED <<store, handles, enums>>

\* TEE_WriteObjectData and TEE_TruncateObjectData.
ChangeData(i, h, data) ==
    \/ h \notin Granted(i, "WRITE") /\ Panics(i)
    \/ /\ h \in Granted(i, "WRITE")
       /\ \/ Fails(i, "STORAGE_NO_SPACE")
          \/ /\ store' = [store EXCEPT ![handles[i][h].obj].data = data]
             /\ Returns(i, "SUCCESS", NULL)
             /\ UNCHANGED <<handles, enums>>

\* The position of a stream is not represented: a seek succeeds or overflows.
TEE_SeekObjectData(i, h) ==
    LET persistent == h \in OpenHandles(i) /\ handles[i][h].obj # NULL IN
    \/ ~persistent /\ Panics(i)
    \/ persistent /\ \E r \in {"SUCCESS", "OVERFLOW"} : Fails(i, r)

\* Needs meta access, so no other handle is open on the object.
TEE_RenamePersistentObject(i, h, name) ==
    LET old == handles[i][h].obj
        new == <<old[1], name>>
        taken == store[new] # NULL \/ AccessConflict(new, handles[i][h].flags) IN
    \/ h \notin Granted(i, "META") /\ Panics(i)
    \/ h \in Granted(i, "META") /\ taken /\ Fails(i, "ACCESS_CONFLICT")
    \/ /\ h \in Granted(i, "META")
       /\ ~taken
       /\ store' = [store EXCEPT ![new] = store[old], ![old] = NULL]
       /\ handles' = [handles EXCEPT ![i][h].obj = new]
       /\ Disturb(old)
       /\ Returns(i, "SUCCESS", NULL)

TEE_AllocateTransientObject(i) ==
    \/ Fails(i, "OUT_OF_MEMORY")
    \/ NewHandle(i, NULL, {}, NULL) /\ UNCHANGED <<store, enums>>

\* TEE_FreeTransientObject and TEE_ResetTransientObject take transient objects only.
OnTransient(i, h, free) ==
    LET transient == h \in OpenHandles(i) /\ handles[i][h].obj = NULL IN
    \/ ~transient /\ Panics(i)
    \/ /\ transient
       /\ IF free THEN CloseHandle(i, h) ELSE UNCHANGED handles
       /\ Returns(i, "SUCCESS", NULL)
       /\ UNCHANGED <<store, enums>>

\* Reading an attribute or the information of an object.
ReadObject(i, h) ==
    \/ h \notin OpenHandles(i) /\ Panics(i)
    \/ /\ h \in OpenHandles(i)
       /\ \/ Fails(i, "SHORT_BUFFER")
          \/ Returns(i, "SUCCESS", handles[i][h].key) /\ UNCHANGED <<store, handles, enums>>

-----------------------------------------------------------------------------
(***************************************************************************)
(* Enumerators.  base: the objects that were present when the enumeration  *)
(* started and were not touched since; done: those it returned.            *)
(***************************************************************************)
Stopped == [sid |-> NULL, base |-> {}, done |-> {}]

SetEnum(i, e, value) ==
    /\ enums' = [enums EXCEPT ![i][e] = value]
    /\ UNCHANGED <<store, handles>>

TEE_AllocatePersistentObjectEnumerator(i) ==
    \/ Fails(i, "OUT_OF_MEMORY")
    \/ \E e \in EnumIds \ OpenEnums(i) :
           SetEnum(i, e, Stopped) /\ Returns(i, "SUCCESS", e)

TEE_FreePersistentObjectEnumerator(i, e) ==
    \/ e \notin OpenEnums(i) /\ Panics(i)
    \/ e \in OpenEnums(i) /\ SetEnum(i, e, NULL) /\ Returns(i, "SUCCESS", NULL)

TEE_ResetPersistentObjectEnumerator(i, e) ==
    \/ e \notin OpenEnums(i) /\ Panics(i)
    \/ e \in OpenEnums(i) /\ SetEnum(i, e, Stopped) /\ Returns(i, "SUCCESS", NULL)

\* A storage without objects cannot be enumerated.
TEE_StartPersistentObjectEnumerator(i, e, sid) ==
    \/ e \notin OpenEnums(i) /\ Panics(i)
    \/ /\ e \in OpenEnums(i)
       /\ IF InStorage(sid) = {}
          THEN SetEnum(i, e, Stopped) /\ Returns(i, "ITEM_NOT_FOUND", NULL)
          ELSE /\ SetEnum(i, e, [sid |-> sid, base |-> InStorage(sid), done |-> {}])
               /\ Returns(i, "SUCCESS", NULL)

TEE_GetNextPersistentObject(i, e) ==
    LET en == enums[i][e] IN
    \/ e \notin OpenEnums(i) /\ Panics(i)
    \/ /\ e \in OpenEnums(i)
       /\ \/ en.base \subseteq en.done /\ Fails(i, "ITEM_NOT_FOUND")
          \/ en.sid # NULL /\ Fails(i, "CORRUPT_OBJECT")
          \/ /\ en.sid # NULL
             /\ \E o \in InStorage(en.sid) \ en.done :
                    /\ SetEnum(i, e, [en EXCEPT !.done = @ \cup {o}])
                    /\ Returns(i, "SUCCESS", o)
=============================================================================
