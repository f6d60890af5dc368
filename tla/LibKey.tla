------------------------------- MODULE LibKey -------------------------------
(***************************************************************************)
(* Clients of the key TA: host/libkey/key.c on host/libsess/session.c.     *)
(* Each client is a process with one session; a function of the library    *)
(* sends a command and waits for it, keyEnumObjectList sends several.      *)
(***************************************************************************)
EXTENDS KeyTa, TaClient, Sequences

CONSTANTS
    FlagChoices,        \* the access flags clients pass
    Uses,               \* client -> the functions of the library it calls
    Misusers,           \* clients that also pass handles they do not hold
    MaxGenerates        \* bound on the calls of keyGenerate

Library == {"generate", "list", "open", "close", "delete", "attribute", "enumerator",
            "object_list"}

ASSUME ClientAssumption ==
    /\ FlagChoices \subseteq SUBSET StorageFlags
    /\ Uses \in [Instances -> SUBSET Library]
    /\ Misusers \subseteq Instances
    /\ MaxGenerates \in Nat

VARIABLES
    lost,               \* history: enumerators keyEnumObjectList did not free
    enumHandle,         \* the enumerator of keyEnumObjectList, or NULL
    list,               \* its list
    ended,              \* what keyNextEnum returned at the end of its loop
    generates           \* calls of keyGenerate so far

listVars == <<lost, enumHandle, list, ended>>
vars == <<teeVars, callVars, locals, clientVars, listVars, generates>>

Init ==
    /\ TaInit
    /\ ClientInit
    /\ lost = [i \in Instances |-> {}]
    /\ enumHandle = [i \in Instances |-> NULL]
    /\ list = [i \in Instances |-> << >>]
    /\ ended = [i \in Instances |-> NULL]
    /\ generates = 0

\* The key TA also opens a session with the storage TA, whose failure it ignores
\* and which it never uses.
Open(i) == openSession(i) /\ UNCHANGED <<locals, listVars, generates>>

Close(i) ==
    /\ closeSession(i)
    /\ lost' = [lost EXCEPT ![i] = {}]
    /\ UNCHANGED <<locals, enumHandle, list, ended, generates>>

-----------------------------------------------------------------------------
(***************************************************************************)
(* The functions that send one command.                                    *)
(***************************************************************************)
Named == Storages \X (Names \cup {NULL})

Send(i, params) == Call(i, params) /\ UNCHANGED <<locals, listVars>>

keyGenerate(i) ==
    /\ generates < MaxGenerates
    /\ generates' = generates + 1
    /\ \E obj \in Named, flags \in FlagChoices, size \in BOOLEAN :
        Send(i, [Params("generate") EXCEPT !.obj = obj, !.flags = flags, !.size = size])

keyOpen(i) ==
    /\ \E obj \in Named, flags \in FlagChoices :
        Send(i, [Params("open") EXCEPT !.obj = obj, !.flags = flags])
    /\ UNCHANGED generates

keyList(i) ==
    /\ \E s \in Storages : Send(i, [Params("list") EXCEPT !.obj = <<s, NULL>>])
    /\ UNCHANGED generates

\* The handles a client passes, and those it may delete the object of.
Passed(i) == IF i \in Misusers THEN HandleIds ELSE {h \in HandleIds : held[i][h] # NULL}
Deletable(i) == IF i \in Misusers THEN HandleIds ELSE {h \in Passed(i) : "META" \in held[i][h].flags}
PassedEnums(i) == IF i \in Misusers THEN EnumIds ELSE eheld[i]

OnHandle(i, cmd, hs) ==
    /\ \E h \in hs : Send(i, [Params(cmd) EXCEPT !.h = h])
    /\ UNCHANGED generates

keyClose(i) == OnHandle(i, "close", Passed(i))
keyCloseAndDelete(i) == OnHandle(i, "close_and_delete", Deletable(i))
keyGetObjectBufferAttribute(i) == OnHandle(i, "buffer_attribute", Passed(i))
keyGetObjectValueAttribute(i) == OnHandle(i, "value_attribute", Passed(i))
keyFreeEnum(i) == OnHandle(i, "free_enum", PassedEnums(i))
keyResetEnum(i) == OnHandle(i, "reset_enum", PassedEnums(i))

\* The buffers may be too small.
keyNextEnum(i) ==
    /\ \E e \in PassedEnums(i), size \in BOOLEAN :
        Send(i, [Params("next_enum") EXCEPT !.h = e, !.size = size])
    /\ UNCHANGED generates

keyAllocEnum(i) == Send(i, Params("alloc_enum")) /\ UNCHANGED generates

keyStartEnum(i) ==
    /\ \E e \in PassedEnums(i), s \in Storages :
        Send(i, [Params("start_enum") EXCEPT !.h = e, !.obj = <<s, NULL>>])
    /\ UNCHANGED generates

\* A lost enumerator can only be freed by guessing its handle.
Returned(i) ==
    /\ CallReturns(i)
    /\ lost' = [lost EXCEPT ![i] =
                    IF pc[i] = "panic" THEN {}
                    ELSE IF arg[i].cmd = "free_enum" THEN @ \ {arg[i].h} ELSE @]
    /\ UNCHANGED <<locals, enumHandle, list, ended, generates>>

-----------------------------------------------------------------------------
(***************************************************************************)
(* keyEnumObjectList, and keyFreeEnumObjectList for its list.              *)
(***************************************************************************)
keyEnumObjectList(i) ==
    /\ Idle(i)
    /\ \E s \in Storages :
        TEEC_InvokeCommand(i, [Params("alloc_enum") EXCEPT !.obj = <<s, NULL>>])
    /\ HGoto(i, "enum_alloc")
    /\ UNCHANGED <<locals, sess, held, eheld, listVars, generates>>

\* The parameters of the following commands; obj keeps the storage.
EnumParams(i, cmd, e) == [Params(cmd) EXCEPT !.h = e, !.obj = arg[i].obj]

EnumAllocated(i) ==
    /\ Answered(i, "enum_alloc")
    /\ IF ret[i].res = "SUCCESS"
       THEN /\ enumHandle' = [enumHandle EXCEPT ![i] = ret[i].val]
            /\ TEEC_InvokeCommand(i, EnumParams(i, "start_enum", ret[i].val))
            /\ HGoto(i, "enum_start")
       ELSE /\ UNCHANGED enumHandle
            /\ Back(i, "idle")
    /\ UNCHANGED <<locals, sess, held, eheld, lost, list, ended, generates>>

\* A failed start, of an empty storage for instance, returns at once: the
\* enumerator stays allocated and its handle is forgotten.
EnumStarted(i) ==
    /\ Answered(i, "enum_start")
    /\ IF ret[i].res = "SUCCESS"
       THEN /\ TEEC_InvokeCommand(i, EnumParams(i, "next_enum", enumHandle[i]))
            /\ HGoto(i, "enum_next")
            /\ UNCHANGED <<lost, enumHandle>>
       ELSE /\ lost' = [lost EXCEPT ![i] = @ \cup {enumHandle[i]}]
            /\ enumHandle' = [enumHandle EXCEPT ![i] = NULL]
            /\ Back(i, "idle")
    /\ UNCHANGED <<locals, sess, held, eheld, list, ended, generates>>

\* Mutant: prev stays at the first element, so the list keeps two elements at most.
EnumNextUnlinked(i) ==
    /\ Answered(i, "enum_next")
    /\ IF ret[i].res = "SUCCESS"
       THEN /\ list' = [list EXCEPT ![i] = IF @ = << >> THEN <<ret[i].val>>
                                            ELSE <<@[1], ret[i].val>>]
            /\ TEEC_InvokeCommand(i, EnumParams(i, "next_enum", enumHandle[i]))
            /\ UNCHANGED <<hpc, ended>>
       ELSE /\ ended' = [ended EXCEPT ![i] = ret[i].res]
            /\ TEEC_InvokeCommand(i, EnumParams(i, "free_enum", enumHandle[i]))
            /\ HGoto(i, "enum_free")
            /\ UNCHANGED list
    /\ UNCHANGED <<locals, sess, held, eheld, lost, enumHandle, generates>>

\* Mutant: only TEEC_ERROR_ITEM_NOT_FOUND ends the loop.
EnumNextRetrying(i) ==
    /\ Answered(i, "enum_next")
    /\ IF ret[i].res # "ITEM_NOT_FOUND"
       THEN /\ list' = IF ret[i].res = "SUCCESS" THEN [list EXCEPT ![i] = Append(@, ret[i].val)] ELSE list
            /\ TEEC_InvokeCommand(i, EnumParams(i, "next_enum", enumHandle[i]))
            /\ UNCHANGED <<hpc, ended>>
       ELSE /\ ended' = [ended EXCEPT ![i] = ret[i].res]
            /\ TEEC_InvokeCommand(i, EnumParams(i, "free_enum", enumHandle[i]))
            /\ HGoto(i, "enum_free")
            /\ UNCHANGED list
    /\ UNCHANGED <<locals, sess, held, eheld, lost, enumHandle, generates>>

\* Any failure of keyNextEnum ends the loop.
EnumNext(i) ==
    /\ Answered(i, "enum_next")
    /\ IF ret[i].res = "SUCCESS"
       THEN /\ list' = [list EXCEPT ![i] = Append(@, ret[i].val)]
            /\ TEEC_InvokeCommand(i, EnumParams(i, "next_enum", enumHandle[i]))
            /\ UNCHANGED <<hpc, ended>>
       ELSE /\ ended' = [ended EXCEPT ![i] = ret[i].res]
            /\ TEEC_InvokeCommand(i, EnumParams(i, "free_enum", enumHandle[i]))
            /\ HGoto(i, "enum_free")
            /\ UNCHANGED list
    /\ UNCHANGED <<locals, sess, held, eheld, lost, enumHandle, generates>>

EnumFreed(i) ==
    /\ Answered(i, "enum_free")
    /\ enumHandle' = [enumHandle EXCEPT ![i] = NULL]
    /\ Back(i, "listed")
    /\ UNCHANGED <<locals, sess, held, eheld, lost, list, ended, generates>>

keyFreeEnumObjectList(i) ==
    /\ hpc[i] = "listed"
    /\ list' = [list EXCEPT ![i] = << >>]
    /\ ended' = [ended EXCEPT ![i] = NULL]
    /\ HGoto(i, "idle")
    /\ UNCHANGED <<teeVars, callVars, locals, sess, held, eheld, lost, enumHandle, generates>>

-----------------------------------------------------------------------------
\* What a client decides to do next.
Calls(i) ==
    \/ Open(i)
    \/ Close(i)
    \/ "generate" \in Uses[i] /\ keyGenerate(i)
    \/ "list" \in Uses[i] /\ keyList(i)
    \/ "open" \in Uses[i] /\ keyOpen(i)
    \/ "close" \in Uses[i] /\ keyClose(i)
    \/ "delete" \in Uses[i] /\ keyCloseAndDelete(i)
    \/ "attribute" \in Uses[i] /\ (keyGetObjectBufferAttribute(i) \/ keyGetObjectValueAttribute(i))
    \/ "enumerator" \in Uses[i] /\ (keyAllocEnum(i) \/ keyFreeEnum(i) \/ keyResetEnum(i)
                                      \/ keyStartEnum(i) \/ keyNextEnum(i))
    \/ "object_list" \in Uses[i] /\ keyEnumObjectList(i)

\* The steps of a call, in the TA and in the library.
Progress(i) ==
    \/ TaStep(i) /\ UNCHANGED <<clientVars, listVars, generates>>
    \/ Returned(i)
    \/ EnumAllocated(i)
    \/ EnumStarted(i)
    \/ EnumNext(i)
    \/ EnumFreed(i)
    \/ keyFreeEnumObjectList(i)

Next == \E i \in Instances : Calls(i) \/ Progress(i)

Spec == Init /\ [][Next]_vars

\* Client threads are scheduled and the commands of the TA run to their end.
FairSpec == Spec /\ \A i \in Instances : WF_vars(Progress(i))

-----------------------------------------------------------------------------
(***************************************************************************)
(* Properties.                                                             *)
(***************************************************************************)

\* Whatever call of the TEE failed, a command that leaves the TA has freed its
\* transient object, its copy of the name and its enumerator (labels out1 to out3
\* of key.c), so a session can go on for ever.
TemporariesFreed ==
    \A i \in Instances : pc[i] \in {"idle", "return", "panic"} =>
        /\ transient_key[i] = NULL
        /\ ~keyFileName[i]
        /\ oe[i] = NULL

\* Between its calls a client knows every object handle its instance has open, and
\* each is open on the object and with the flags the client asked for: no failure
\* path of generate, open or close_and_delete leaves a handle behind.
HandlesAccounted ==
    \A i \in Instances : hpc[i] = "idle" =>
        \A h \in HandleIds :
            /\ handles[i][h] = NULL <=> held[i][h] = NULL
            /\ held[i][h] # NULL => /\ handles[i][h].obj = held[i][h].obj
                                    /\ handles[i][h].flags = held[i][h].flags

\* The enumerators an instance has open between calls are those the client was given
\* and those keyEnumObjectList forgot because the enumeration could not be started;
\* keyList and a keyEnumObjectList that was started leave none.
EnumeratorsAccounted ==
    \A i \in Instances : hpc[i] \in {"idle", "listed"} => OpenEnums(i) = eheld[i] \cup lost[i]

\* A client with meta access has the key to itself: what it read is what is stored,
\* although other sessions generate, open and delete keys of the same name.
ExclusiveKeyIntact ==
    \A i \in Instances : \A h \in OpenHandles(i) :
        held[i][h] # NULL /\ "META" \in held[i][h].flags =>
            store[held[i][h].obj] = handles[i][h].key

\* A client that gives back each handle once and deletes only through handles with
\* meta access never makes the TA panic, also when the storage refuses to delete and whatever
\* handles the clients of other sessions pass.
DisciplineNeverPanics ==
    \A i \in Instances \ Misusers : sess[i] # "dead" /\ pc[i] # "panic"

\* When the loop of keyEnumObjectList ends because there is no further object, the
\* list has exactly once each object that was there from the start and that no other
\* session replaced or deleted in the meantime.
ListExact ==
    \A i \in Instances :
        hpc[i] = "enum_free" /\ pc[i] = "free_enum" /\ ended[i] = "ITEM_NOT_FOUND" =>
            \A o \in enums[i][enumHandle[i]].base :
                Cardinality({n \in DOMAIN list[i] : list[i][n] = o}) = 1

\* Every call of a client returns, the enumeration included: only a finite number of
\* keys is generated while it runs.
CallsReturn == \A i \in Instances : hpc[i] # "idle" ~> hpc[i] = "idle"
=============================================================================
