---------------------------- MODULE LibKeyProofs ----------------------------
(***************************************************************************)
(* Proofs about the key TA and the clients of its library, for any number  *)
(* of sessions, keys, handles and enumerators.                             *)
(***************************************************************************)
EXTENDS LibKey, FiniteSetTheorems, TLAPS

-----------------------------------------------------------------------------
(***************************************************************************)
(* The inductive invariant.                                                *)
(***************************************************************************)
GenerateLabels == {"generate", "allocate", "genkey", "name", "create", "out3", "out2"}
ListLabels == {"list", "list_start", "list_next", "list_done", "list_free"}
OpenLabels == {"open", "open_object", "open_free"}
OnHandleLabels == {"close", "close_and_delete", "buffer_attribute", "value_attribute"}
OnEnumLabels == {"free_enum", "reset_enum", "start_enum", "next_enum"}
CmdLabels == GenerateLabels \cup ListLabels \cup OpenLabels \cup OnHandleLabels
                 \cup OnEnumLabels \cup {"alloc_enum", "ignore"}
Labels == CmdLabels \cup {"idle", "return", "panic"}
HLabels == {"idle", "call", "enum_alloc", "enum_start", "enum_next", "enum_free", "listed"}

Commands == {"none", "generate", "list", "open", "alloc_enum"} \cup OnHandleLabels \cup OnEnumLabels

Results == {"SUCCESS", "TARGET_DEAD", "NOT_SUPPORTED", "OUT_OF_MEMORY", "GENERIC",
            "BAD_PARAMETERS", "STORAGE_NO_SPACE", "ACCESS_CONFLICT", "ITEM_NOT_FOUND",
            "STORAGE_NOT_AVAILABLE", "SHORT_BUFFER", "CORRUPT_OBJECT"}

Args == [cmd : Commands, obj : Named \cup {NULL}, flags : SUBSET StorageFlags,
         size : BOOLEAN, h : HandleIds \cup EnumIds \cup {NULL}, data : {NULL}]

Values == HandleIds \cup EnumIds \cup Keys \cup Objects \cup {NULL}

\* The types of the variables.
TypeInv ==
    /\ store \in [Objects -> Keys \cup {NULL}]
    /\ handles \in [Instances -> [HandleIds -> KeyHandles \cup {NULL}]]
    /\ enums \in [Instances -> [EnumIds -> EnumRecords \cup {NULL}]]
    /\ ret \in [Instances -> [res : Results, val : Values]]
    /\ pc \in [Instances -> Labels]
    /\ arg \in [Instances -> Args]
    /\ transient_key \in [Instances -> Keys \cup {NoKey, NULL}]
    /\ keyFileName \in [Instances -> BOOLEAN]
    /\ oe \in [Instances -> EnumIds \cup {NULL}]
    /\ sess \in [Instances -> {"closed", "open", "dead"}]
    /\ hpc \in [Instances -> HLabels]
    /\ held \in [Instances -> [HandleIds -> HeldRecords \cup {NULL}]]
    /\ eheld \in [Instances -> SUBSET EnumIds]
    /\ lost \in [Instances -> SUBSET EnumIds]
    /\ enumHandle \in [Instances -> EnumIds \cup {NULL}]
    /\ list \in [Instances -> Seq(Values)]
    /\ ended \in [Instances -> Results \cup {NULL}]
    /\ generates \in Nat

\* Which command an instance runs, and which function of the library waits for it.
Control(i) ==
    /\ pc[i] = "idle" <=> hpc[i] \in {"idle", "listed"}
    /\ pc[i] \in GenerateLabels => arg[i].cmd = "generate" /\ arg[i].obj \in Named
    /\ pc[i] \in ListLabels => arg[i].cmd = "list" /\ arg[i].obj \in Named
    /\ pc[i] \in OpenLabels => arg[i].cmd = "open" /\ arg[i].obj \in Named
    /\ pc[i] \in OnHandleLabels => arg[i].cmd = pc[i] /\ arg[i].h \in HandleIds
    /\ pc[i] = "ignore" => arg[i].cmd = "close_and_delete" /\ arg[i].h \in HandleIds
    /\ pc[i] \in OnEnumLabels => arg[i].cmd = pc[i] /\ arg[i].h \in EnumIds
    /\ pc[i] = "alloc_enum" => arg[i].cmd = "alloc_enum"
    /\ pc[i] = "start_enum" => arg[i].obj \in Named
    /\ hpc[i] \in {"enum_alloc", "enum_start", "enum_next", "enum_free"} => arg[i].obj \in Named
    /\ hpc[i] = "enum_alloc" => arg[i].cmd = "alloc_enum"
    /\ hpc[i] = "enum_start" => arg[i].cmd = "start_enum"
    /\ hpc[i] = "enum_next" => arg[i].cmd = "next_enum"
    /\ hpc[i] = "enum_free" => arg[i].cmd = "free_enum"
    /\ pc[i] = "panic" => ret[i].res = "TARGET_DEAD" /\ hpc[i] = "call"
    /\ sess[i] = "closed" => hpc[i] = "idle"
    /\ sess[i] = "dead" => /\ hpc[i] \in {"idle", "call", "enum_alloc"}
                           /\ pc[i] \in {"idle", "return"}
                           /\ pc[i] = "return" => ret[i].res = "TARGET_DEAD"

\* Where a command has something allocated in the TA.
Temporaries(i) ==
    /\ transient_key[i] # NULL => pc[i] \in {"genkey", "name", "create", "out3", "out2"}
    /\ pc[i] \in {"name", "create"} => transient_key[i] \in Keys
    /\ pc[i] = "create" => arg[i].obj \in Objects
    /\ keyFileName[i] => pc[i] \in {"create", "out3", "open_object", "open_free"}
    /\ oe[i] # NULL <=> pc[i] \in {"list_start", "list_next", "list_done", "list_free"}

\* The enumerator an instance has in hand: that of ta_key_cmd_list, that of
\* keyEnumObjectList, or one just allocated that the client was not told of yet.
JustAllocated(i) == arg[i].cmd = "alloc_enum" /\ pc[i] = "return" /\ ret[i].res = "SUCCESS"
JustFreed(i) == arg[i].cmd = "free_enum" /\ pc[i] = "return" /\ ret[i].res = "SUCCESS"

InHand(i) ==
    ({oe[i], enumHandle[i]} \ {NULL}) \cup {e \in EnumIds : JustAllocated(i) /\ e = ret[i].val}

\* Every open enumerator is known: to the client, as lost, or in hand.
Enumerators(i) ==
    /\ enumHandle[i] # NULL <=> hpc[i] \in {"enum_start", "enum_next", "enum_free"}
    /\ enumHandle[i] # NULL => arg[i].h = enumHandle[i]
    /\ hpc[i] = "enum_free" /\ pc[i] = "return" => ret[i].res = "SUCCESS"
    /\ arg[i].cmd = "free_enum" /\ pc[i] = "return" /\ ret[i].res # "SUCCESS" => sess[i] = "dead"
    /\ JustAllocated(i) => ret[i].val \in EnumIds
    /\ InHand(i) \cap (eheld[i] \cup lost[i]) = {}
    /\ sess[i] # "open" => eheld[i] = {} /\ lost[i] = {}
    /\ pc[i] = "panic" => OpenEnums(i) = {}
    /\ pc[i] # "panic" =>
        OpenEnums(i) = (eheld[i] \cup lost[i] \cup InHand(i)) \ {e \in EnumIds : JustFreed(i) /\ e = arg[i].h}

\* What the client knows of a handle is what the instance has.
Agree(i, h) ==
    /\ handles[i][h] = NULL <=> held[i][h] = NULL
    /\ held[i][h] # NULL => /\ handles[i][h].obj = held[i][h].obj
                            /\ handles[i][h].flags = held[i][h].flags

\* A handle was opened, or given up, that the client was not told of yet.
Opened(i) ==
    /\ arg[i].cmd \in {"generate", "open"}
    /\ pc[i] \in {"out3", "out2", "open_free", "return"}
    /\ ret[i].res = "SUCCESS"

GivenUp(i) ==
    /\ arg[i].cmd \in {"close", "close_and_delete"}
    /\ pc[i] = "ignore" \/ (pc[i] = "return" /\ ret[i].res = "SUCCESS")

\* The client's handles and the instance's agree, but for the one in hand.
HandlesKnown(i) ==
    /\ Opened(i) => /\ ret[i].val \in HandleIds
                    /\ held[i][ret[i].val] = NULL
                    /\ handles[i][ret[i].val] # NULL
                    /\ handles[i][ret[i].val].obj = arg[i].obj
                    /\ handles[i][ret[i].val].flags = arg[i].flags
    /\ GivenUp(i) => arg[i].h \in HandleIds /\ handles[i][arg[i].h] = NULL
    /\ sess[i] # "open" => \A h \in HandleIds : held[i][h] = NULL
    /\ pc[i] = "panic" => \A h \in HandleIds : handles[i][h] = NULL
    /\ pc[i] # "panic" =>
        \A h \in HandleIds :
            \/ Agree(i, h)
            \/ Opened(i) /\ h = ret[i].val
            \/ GivenUp(i) /\ h = arg[i].h

\* A client that passes only handles it holds never gets its instance to panic.
Disciplined(i) ==
    /\ sess[i] # "dead" /\ pc[i] # "panic"
    /\ pc[i] \in OnHandleLabels => arg[i].h \in OpenHandles(i)
    /\ pc[i] = "close_and_delete" => "META" \in handles[i][arg[i].h].flags
    /\ pc[i] \in OnEnumLabels => arg[i].h \in OpenEnums(i)

\* An instance by itself.
Local(i) ==
    /\ Control(i)
    /\ Temporaries(i)
    /\ Enumerators(i)
    /\ HandlesKnown(i)
    /\ i \in Instances \ Misusers => Disciplined(i)

\* A handle with meta access is the only one on its object, and the key read when
\* it was opened is the key that is stored.
Exclusive ==
    \A i, j \in Instances : \A h \in OpenHandles(i), g \in OpenHandles(j) :
        "META" \in handles[i][h].flags /\ handles[i][h].obj = handles[j][g].obj => i = j /\ h = g

Intact ==
    \A i \in Instances : \A h \in OpenHandles(i) :
        "META" \in handles[i][h].flags => store[handles[i][h].obj] = handles[i][h].key

\* The run of keyEnumObjectList: where it may be ended, and how often the list has
\* each object of base.
Times(i, o) == Cardinality({n \in DOMAIN list[i] : list[i][n] = o})

InReturn(i, o) ==
    hpc[i] = "enum_next" /\ pc[i] = "return" /\ ret[i].res = "SUCCESS" /\ ret[i].val = o

Listing(i) ==
    /\ hpc[i] \in {"idle", "call", "enum_alloc", "enum_start"} => list[i] = << >>
    /\ hpc[i] = "enum_start" /\ pc[i] = "return" /\ ret[i].res = "SUCCESS" =>
            enums[i][enumHandle[i]].done = {}
    /\ hpc[i] = "enum_next" /\ pc[i] = "return" /\ ret[i].res = "SUCCESS"
            /\ ret[i].val \in enums[i][enumHandle[i]].base =>
            ret[i].val \in enums[i][enumHandle[i]].done
    /\ hpc[i] \in {"enum_next", "enum_free"} /\ ~JustFreed(i) =>
        \A o \in enums[i][enumHandle[i]].base :
            IF o \in enums[i][enumHandle[i]].done /\ ~InReturn(i, o)
            THEN Times(i, o) = 1
            ELSE {n \in DOMAIN list[i] : list[i][n] = o} = {}
    /\ hpc[i] = "enum_next" /\ pc[i] = "return" /\ ret[i].res = "ITEM_NOT_FOUND" =>
            enums[i][enumHandle[i]].base \subseteq enums[i][enumHandle[i]].done
    /\ hpc[i] = "enum_free" /\ pc[i] = "free_enum" /\ ended[i] = "ITEM_NOT_FOUND" =>
            enums[i][enumHandle[i]].base \subseteq enums[i][enumHandle[i]].done

KInv == TypeInv /\ (\A i \in Instances : Local(i)) /\ Exclusive /\ Intact
LInv == \A i \in Instances : Listing(i)

-----------------------------------------------------------------------------
(***************************************************************************)
(* What the calls of the TEE do.                                           *)
(***************************************************************************)

\* Everything of an instance and its client that Local is about.
Mine(i) == <<pc[i], arg[i], ret[i], transient_key[i], keyFileName[i], oe[i],
             sess[i], hpc[i], held[i], eheld[i], lost[i], enumHandle[i],
             handles[i], OpenEnums(i)>>

\* What leaves Mine alone keeps Local.
LEMMA LocalFrame ==
    ASSUME NEW i \in Instances, Local(i), Mine(i)' = Mine(i)
    PROVE  Local(i)'
<1>1. /\ pc'[i] = pc[i] /\ arg'[i] = arg[i] /\ ret'[i] = ret[i]
      /\ transient_key'[i] = transient_key[i] /\ keyFileName'[i] = keyFileName[i]
      /\ oe'[i] = oe[i] /\ sess'[i] = sess[i] /\ hpc'[i] = hpc[i]
      /\ held'[i] = held[i] /\ eheld'[i] = eheld[i] /\ lost'[i] = lost[i]
      /\ enumHandle'[i] = enumHandle[i] /\ handles'[i] = handles[i]
      /\ OpenEnums(i)' = OpenEnums(i)
  BY DEF Mine
<1>2. Control(i)' /\ Temporaries(i)'
  BY <1>1 DEF Local, Control, Temporaries
<1>3. Enumerators(i)'
  BY <1>1 DEF Local, Enumerators, InHand, JustAllocated, JustFreed
<1>4. HandlesKnown(i)'
  BY <1>1 DEF Local, HandlesKnown, Agree, Opened, GivenUp
<1>5. i \in Instances \ Misusers => Disciplined(i)'
  BY <1>1 DEF Local, Disciplined, OpenHandles
<1>6. QED
  BY <1>2, <1>3, <1>4, <1>5 DEF Local

\* A running enumeration that is disturbed stays open.
LEMMA DisturbKeeps ==
    ASSUME TypeInv, NEW obj, Disturb(obj)
    PROVE  /\ enums' \in [Instances -> [EnumIds -> EnumRecords \cup {NULL}]]
           /\ \A j \in Instances : OpenEnums(j)' = OpenEnums(j)
<1> USE StorageAssumption DEF TypeInv, EnumRecords
<1>1. ASSUME NEW j \in Instances, NEW e \in EnumIds
      PROVE  /\ enums'[j][e] \in EnumRecords \cup {NULL}
             /\ enums'[j][e] = NULL <=> enums[j][e] = NULL
  <2>1. CASE enums[j][e] = NULL
    BY <2>1 DEF Disturb
  <2>2. CASE enums[j][e] # NULL
    <3>1. enums[j][e] \in EnumRecords
      BY <2>2
    <3>2. enums'[j][e] = [enums[j][e] EXCEPT !.base = @ \ {obj}, !.done = @ \ {obj}]
      BY <2>2 DEF Disturb
    <3>3. enums'[j][e] \in EnumRecords
      BY <3>1, <3>2
    <3>4. QED
      BY <2>2, <3>3
  <2>3. QED
    BY <2>1, <2>2
<1>2. \A j \in Instances : OpenEnums(j)' = OpenEnums(j)
  BY <1>1 DEF OpenEnums
<1> HIDE DEF EnumRecords
<1>3. enums' = [j \in Instances |-> [e \in EnumIds |-> enums'[j][e]]]
  BY DEF Disturb
<1>4. QED
  BY <1>1, <1>2, <1>3

\* A call of instance i keeps the types and touches nothing of the other instances,
\* except that an enumeration of theirs may be disturbed.
ApiFrame(i) ==
    /\ store' \in [Objects -> Keys \cup {NULL}]
    /\ handles' \in [Instances -> [HandleIds -> KeyHandles \cup {NULL}]]
    /\ enums' \in [Instances -> [EnumIds -> EnumRecords \cup {NULL}]]
    /\ ret' \in [Instances -> [res : Results, val : Values]]
    /\ \A j \in Instances \ {i} : /\ handles'[j] = handles[j]
                                  /\ ret'[j] = ret[j]
                                  /\ OpenEnums(j)' = OpenEnums(j)

\* A call that changes nothing but its result.
Same(i) == handles'[i] = handles[i] /\ OpenEnums(i)' = OpenEnums(i)

Dies(i) ==
    /\ ret'[i].res = "TARGET_DEAD"
    /\ \A h \in HandleIds : handles'[i][h] = NULL
    /\ OpenEnums(i)' = {}

\* A result is recorded for its instance only.
LEMMA ReturnsFrame ==
    ASSUME TypeInv, NEW i \in Instances, NEW r \in Results, NEW v \in Values, Returns(i, r, v)
    PROVE  /\ ret' \in [Instances -> [res : Results, val : Values]]
           /\ ret'[i].res = r /\ ret'[i].val = v
           /\ \A j \in Instances \ {i} : ret'[j] = ret[j]
BY DEF TypeInv, Returns

\* A call that fails changes nothing.
LEMMA FailsApi ==
    ASSUME TypeInv, NEW i \in Instances, NEW r \in Results, Fails(i, r)
    PROVE  ApiFrame(i) /\ Same(i) /\ ret'[i].res = r
<1>1. NULL \in Values /\ Returns(i, r, NULL) /\ UNCHANGED <<store, handles, enums>>
  BY DEF Values, Fails
<1>2. QED
  BY <1>1, ReturnsFrame DEF ApiFrame, Same, OpenEnums, TypeInv

\* A panic takes all an instance has, and nothing of the others.
LEMMA PanicsApi ==
    ASSUME TypeInv, NEW i \in Instances, Panics(i)
    PROVE  ApiFrame(i) /\ Dies(i) /\ UNCHANGED store
<1>1. NULL \in Values /\ Returns(i, "TARGET_DEAD", NULL)
  BY DEF Values, Panics
<1>2. /\ ret' \in [Instances -> [res : Results, val : Values]]
      /\ ret'[i].res = "TARGET_DEAD"
      /\ \A j \in Instances \ {i} : ret'[j] = ret[j]
  BY <1>1, ReturnsFrame DEF Results
<1>3. handles' \in [Instances -> [HandleIds -> KeyHandles \cup {NULL}]]
      /\ \A h \in HandleIds : handles'[i][h] = NULL
      /\ \A j \in Instances \ {i} : handles'[j] = handles[j]
  BY DEF Panics, TypeInv
<1>4. enums' \in [Instances -> [EnumIds -> EnumRecords \cup {NULL}]]
      /\ \A e \in EnumIds : enums'[i][e] = NULL
      /\ \A j \in Instances \ {i} : enums'[j] = enums[j]
  BY DEF Panics, TypeInv
<1>5. QED
  BY <1>2, <1>3, <1>4 DEF ApiFrame, Dies, OpenEnums, Panics, TypeInv

\* What a new handle is.
Gets(i, obj, flags, key) ==
    \E h \in HandleIds :
        /\ handles[i][h] = NULL
        /\ handles'[i] = [handles[i] EXCEPT ![h] = [obj |-> obj, flags |-> flags, key |-> key]]
        /\ ret'[i].res = "SUCCESS" /\ ret'[i].val = h

\* A new handle is one that was not in use, and belongs to its instance only.
LEMMA NewHandleApi ==
    ASSUME TypeInv, NEW i \in Instances, NEW obj \in Objects, NEW flags \in SUBSET StorageFlags,
           NEW key \in Keys, NewHandle(i, obj, flags, key)
    PROVE  /\ Gets(i, obj, flags, key)
           /\ handles' \in [Instances -> [HandleIds -> KeyHandles \cup {NULL}]]
           /\ ret' \in [Instances -> [res : Results, val : Values]]
           /\ \A j \in Instances \ {i} : handles'[j] = handles[j] /\ ret'[j] = ret[j]
<1>1. PICK h \in HandleIds \ OpenHandles(i) :
        /\ handles' = [handles EXCEPT ![i][h] = [obj |-> obj, flags |-> flags, key |-> key]]
        /\ Returns(i, "SUCCESS", h)
  BY DEF NewHandle
<1>2. [obj |-> obj, flags |-> flags, key |-> key] \in KeyHandles
  BY DEF KeyHandles
<1>3. h \in Values
  BY DEF Values
<1>4. /\ ret' \in [Instances -> [res : Results, val : Values]]
      /\ ret'[i].res = "SUCCESS" /\ ret'[i].val = h
      /\ \A j \in Instances \ {i} : ret'[j] = ret[j]
  BY <1>1, <1>3 DEF Returns, Results, TypeInv
<1>5. handles[i][h] = NULL
  BY <1>1 DEF OpenHandles
<1>6. /\ handles' \in [Instances -> [HandleIds -> KeyHandles \cup {NULL}]]
      /\ handles'[i] = [handles[i] EXCEPT ![h] = [obj |-> obj, flags |-> flags, key |-> key]]
      /\ \A j \in Instances \ {i} : handles'[j] = handles[j]
  BY <1>1, <1>2 DEF TypeInv
<1>7. QED
  BY <1>4, <1>5, <1>6 DEF Gets

\* TEE_CreatePersistentObject fails and changes nothing, or opens one new handle.
LEMMA CreateApi ==
    ASSUME TypeInv, NEW i \in Instances, NEW obj \in Objects, NEW flags \in SUBSET StorageFlags,
           NEW key \in Keys, TEE_CreatePersistentObject(i, obj, flags, key)
    PROVE  /\ ApiFrame(i)
           /\ \/ ret'[i].res \notin {"SUCCESS", "TARGET_DEAD"} /\ Same(i)
                   /\ UNCHANGED <<store, handles>>
              \/ /\ Gets(i, obj, flags, key) /\ OpenEnums(i)' = OpenEnums(i)
                 /\ ~AccessConflict(obj, flags)
                 /\ store' = [store EXCEPT ![obj] = key]
<1>1. CASE Fails(i, "STORAGE_NO_SPACE") \/ Fails(i, "ACCESS_CONFLICT")
  BY <1>1, FailsApi DEF Fails, Results
<1>2. CASE /\ ~Refuses(obj, flags) /\ NewHandle(i, obj, flags, key)
           /\ store' = [store EXCEPT ![obj] = key] /\ Disturb(obj)
  <2>1. store' \in [Objects -> Keys \cup {NULL}]
    BY <1>2 DEF TypeInv
  <2>2. QED
    BY <1>2, <2>1, NewHandleApi, DisturbKeeps DEF ApiFrame, Refuses
<1>3. QED
  BY <1>1, <1>2 DEF TEE_CreatePersistentObject, CannotCreate

\* TEE_OpenPersistentObject fails and changes nothing, or opens one new handle on an
\* object that exists.
LEMMA OpenApi ==
    ASSUME TypeInv, NEW i \in Instances, NEW obj, NEW flags \in SUBSET StorageFlags,
           TEE_OpenPersistentObject(i, obj, flags)
    PROVE  /\ ApiFrame(i)
           /\ UNCHANGED store
           /\ \/ ret'[i].res \notin {"SUCCESS", "TARGET_DEAD"} /\ Same(i) /\ UNCHANGED handles
              \/ /\ Gets(i, obj, flags, store[obj]) /\ OpenEnums(i)' = OpenEnums(i)
                 /\ ~AccessConflict(obj, flags)
                 /\ obj \in Objects /\ store[obj] \in Keys
<1>1. CASE Fails(i, "OUT_OF_MEMORY") \/ Fails(i, "ITEM_NOT_FOUND") \/ Fails(i, "ACCESS_CONFLICT")
  BY <1>1, FailsApi DEF Fails, Results
<1>2. CASE /\ obj \in Present /\ ~AccessConflict(obj, flags)
           /\ NewHandle(i, obj, flags, store[obj]) /\ UNCHANGED <<store, enums>>
  <2>1. obj \in Objects /\ store[obj] \in Keys
    BY <1>2 DEF Present, TypeInv
  <2>2. QED
    BY <1>2, <2>1, NewHandleApi DEF ApiFrame, OpenEnums, TypeInv
<1>3. QED
  BY <1>1, <1>2 DEF TEE_OpenPersistentObject

\* A handle that is closed; the others of the instance stay.
GivesUp(i, h) == handles'[i] = [handles[i] EXCEPT ![h] = NULL] /\ OpenEnums(i)' = OpenEnums(i)

\* A closed handle concerns its instance only.
LEMMA CloseHandleFrame ==
    ASSUME TypeInv, NEW i \in Instances, NEW h \in HandleIds, CloseHandle(i, h)
    PROVE  /\ handles' \in [Instances -> [HandleIds -> KeyHandles \cup {NULL}]]
           /\ handles'[i] = [handles[i] EXCEPT ![h] = NULL]
           /\ \A j \in Instances \ {i} : handles'[j] = handles[j]
BY DEF CloseHandle, TypeInv

\* TEE_CloseObject panics unless the handle is open, and then closes it.
LEMMA CloseApi ==
    ASSUME TypeInv, NEW i \in Instances, NEW h \in HandleIds, TEE_CloseObject(i, h)
    PROVE  /\ ApiFrame(i) /\ UNCHANGED store
           /\ \/ h \notin OpenHandles(i) /\ Dies(i)
              \/ GivesUp(i, h) /\ ret'[i].res = "SUCCESS"
<1>1. CASE h \notin OpenHandles(i) /\ Panics(i)
  BY <1>1, PanicsApi
<1>2. CASE CloseHandle(i, h) /\ Returns(i, "SUCCESS", NULL) /\ UNCHANGED <<store, enums>>
  BY <1>2, CloseHandleFrame, ReturnsFrame
     DEF ApiFrame, GivesUp, OpenEnums, TypeInv, Values, Results
<1>3. QED
  BY <1>1, <1>2 DEF TEE_CloseObject

\* TEE_CloseAndDeletePersistentObject1 panics without meta access; otherwise the
\* handle is gone, whether or not the object is.
LEMMA DeleteApi ==
    ASSUME TypeInv, NEW i \in Instances, NEW h \in HandleIds,
           TEE_CloseAndDeletePersistentObject1(i, h)
    PROVE  /\ ApiFrame(i)
           /\ \/ /\ ~(h \in OpenHandles(i) /\ "META" \in handles[i][h].flags)
                 /\ Dies(i) /\ UNCHANGED store
              \/ /\ h \in OpenHandles(i) /\ "META" \in handles[i][h].flags
                 /\ GivesUp(i, h)
                 /\ ret'[i].res \in {"SUCCESS", "STORAGE_NOT_AVAILABLE"}
                 /\ \/ UNCHANGED store
                    \/ store' = [store EXCEPT ![handles[i][h].obj] = NULL]
<1> DEFINE allowed == h \in OpenHandles(i) /\ "META" \in handles[i][h].flags
<1>1. CASE ~allowed /\ Panics(i)
  BY <1>1, PanicsApi
<1>2. CASE allowed /\ Removes(i, h) /\ Returns(i, "SUCCESS", NULL)
  <2>1. handles[i][h].obj \in Objects
    BY <1>2 DEF OpenHandles, TypeInv, KeyHandles
  <2>2. store' = [store EXCEPT ![handles[i][h].obj] = NULL]
        /\ store' \in [Objects -> Keys \cup {NULL}]
    BY <1>2, <2>1 DEF Removes, TypeInv
  <2>3. QED
    BY <1>2, <2>2, CloseHandleFrame, ReturnsFrame, DisturbKeeps
       DEF Removes, ApiFrame, GivesUp, Values, Results
<1>3. CASE allowed /\ RemovesNot(i, h) /\ Returns(i, "STORAGE_NOT_AVAILABLE", NULL)
  BY <1>3, CloseHandleFrame, ReturnsFrame
     DEF RemovesNot, ApiFrame, GivesUp, OpenEnums, TypeInv, Values, Results
<1>4. QED
  BY <1>1, <1>2, <1>3 DEF TEE_CloseAndDeletePersistentObject1

\* Reading an object changes nothing, or panics when the handle is not open.
LEMMA ReadApi ==
    ASSUME TypeInv, NEW i \in Instances, NEW h \in HandleIds,
           \/ ReadObject(i, h)
           \/ IF h \in OpenHandles(i) THEN Fails(i, "ITEM_NOT_FOUND") ELSE Panics(i)
    PROVE  /\ ApiFrame(i) /\ UNCHANGED store
           /\ \/ h \notin OpenHandles(i) /\ Dies(i)
              \/ Same(i) /\ ret'[i].res # "TARGET_DEAD"
<1>1. CASE h \notin OpenHandles(i) /\ Panics(i)
  BY <1>1, PanicsApi
<1>2. CASE Fails(i, "SHORT_BUFFER") \/ Fails(i, "ITEM_NOT_FOUND")
  BY <1>2, FailsApi DEF Fails, Results
<1>3. CASE /\ h \in OpenHandles(i)
           /\ Returns(i, "SUCCESS", handles[i][h].key) /\ UNCHANGED <<store, handles, enums>>
  <2>1. handles[i][h].key \in Values
    BY <1>3 DEF OpenHandles, TypeInv, KeyHandles, Values
  <2>2. QED
    BY <1>3, <2>1, ReturnsFrame DEF ApiFrame, Same, OpenEnums, TypeInv, Results
<1>4. QED
  BY <1>1, <1>2, <1>3 DEF ReadObject

\* Setting an enumerator opens or closes that one only.
LEMMA SetEnumFrame ==
    ASSUME TypeInv, NEW i \in Instances, NEW e \in EnumIds,
           NEW value \in EnumRecords \cup {NULL}, SetEnum(i, e, value)
    PROVE  /\ enums' \in [Instances -> [EnumIds -> EnumRecords \cup {NULL}]]
           /\ \A j \in Instances \ {i} : enums'[j] = enums[j]
           /\ enums'[i] = [enums[i] EXCEPT ![e] = value]
           /\ \A j \in Instances \ {i} : OpenEnums(j)' = OpenEnums(j)
           /\ value = NULL => OpenEnums(i)' = OpenEnums(i) \ {e}
           /\ value # NULL => OpenEnums(i)' = OpenEnums(i) \cup {e}
           /\ UNCHANGED <<store, handles>>
<1>1. /\ enums' \in [Instances -> [EnumIds -> EnumRecords \cup {NULL}]]
      /\ \A j \in Instances \ {i} : enums'[j] = enums[j]
      /\ enums'[i] = [enums[i] EXCEPT ![e] = value]
  BY DEF SetEnum, TypeInv
<1>2. QED
  BY <1>1 DEF SetEnum, OpenEnums, TypeInv

\* TEE_AllocatePersistentObjectEnumerator fails, or opens an enumerator not in use.
LEMMA AllocEnumApi ==
    ASSUME TypeInv, NEW i \in Instances, TEE_AllocatePersistentObjectEnumerator(i)
    PROVE  /\ ApiFrame(i) /\ UNCHANGED <<store, handles>>
           /\ \/ ret'[i].res = "OUT_OF_MEMORY" /\ ret'[i].val = NULL /\ Same(i)
              \/ \E e \in EnumIds \ OpenEnums(i) :
                    /\ ret'[i].res = "SUCCESS" /\ ret'[i].val = e
                    /\ OpenEnums(i)' = OpenEnums(i) \cup {e}
<1>1. CASE Fails(i, "OUT_OF_MEMORY")
  <2>1. Returns(i, "OUT_OF_MEMORY", NULL) /\ UNCHANGED <<store, handles>>
    BY <1>1 DEF Fails
  <2>2. QED
    BY <1>1, <2>1, FailsApi, ReturnsFrame DEF Results, Values
<1>2. CASE \E e \in EnumIds \ OpenEnums(i) : SetEnum(i, e, Stopped) /\ Returns(i, "SUCCESS", e)
  <2>1. PICK e \in EnumIds \ OpenEnums(i) : SetEnum(i, e, Stopped) /\ Returns(i, "SUCCESS", e)
    BY <1>2
  <2>2. Stopped \in EnumRecords /\ Stopped # NULL
    BY StorageAssumption DEF Stopped, EnumRecords
  <2>3. OpenEnums(i)' = OpenEnums(i) \cup {e} /\ UNCHANGED <<store, handles>>
    BY <2>1, <2>2, SetEnumFrame
  <2>4. ret'[i].res = "SUCCESS" /\ ret'[i].val = e
    BY <2>1, ReturnsFrame DEF Results, Values
  <2>5. ApiFrame(i)
    BY <2>1, <2>2, SetEnumFrame, ReturnsFrame DEF ApiFrame, TypeInv, Results, Values
  <2>6. QED
    BY <2>3, <2>4, <2>5
<1>3. QED
  BY <1>1, <1>2 DEF TEE_AllocatePersistentObjectEnumerator

\* TEE_FreePersistentObjectEnumerator closes an open enumerator.
LEMMA FreeEnumApi ==
    ASSUME TypeInv, NEW i \in Instances, NEW e \in EnumIds,
           TEE_FreePersistentObjectEnumerator(i, e)
    PROVE  /\ ApiFrame(i) /\ UNCHANGED store
           /\ \/ e \notin OpenEnums(i) /\ Dies(i)
              \/ /\ OpenEnums(i)' = OpenEnums(i) \ {e}
                 /\ handles'[i] = handles[i] /\ ret'[i].res = "SUCCESS"
<1>1. CASE e \notin OpenEnums(i) /\ Panics(i)
  BY <1>1, PanicsApi
<1>2. CASE SetEnum(i, e, NULL) /\ Returns(i, "SUCCESS", NULL)
  BY <1>2, SetEnumFrame, ReturnsFrame DEF ApiFrame, TypeInv, Results, Values
<1>3. QED
  BY <1>1, <1>2 DEF TEE_FreePersistentObjectEnumerator

\* Resetting, starting and advancing an open enumerator keep it open.
LEMMA UseEnumApi ==
    ASSUME TypeInv, NEW i \in Instances, NEW e \in EnumIds,
           \/ TEE_ResetPersistentObjectEnumerator(i, e)
           \/ \E sid \in Storages : TEE_StartPersistentObjectEnumerator(i, e, sid)
           \/ TEE_GetNextPersistentObject(i, e)
    PROVE  /\ ApiFrame(i) /\ UNCHANGED store
           /\ \/ e \notin OpenEnums(i) /\ Dies(i)
              \/ e \in OpenEnums(i) /\ Same(i) /\ ret'[i].res # "TARGET_DEAD"
<1>1. CASE e \notin OpenEnums(i) /\ Panics(i)
  BY <1>1, PanicsApi
<1>2. CASE e \in OpenEnums(i) /\ (Fails(i, "ITEM_NOT_FOUND") \/ Fails(i, "CORRUPT_OBJECT"))
  BY <1>2, FailsApi DEF Fails, Results
<1>3. ASSUME e \in OpenEnums(i),
             NEW value \in EnumRecords, NEW r \in Results, NEW v \in Values,
             SetEnum(i, e, value), Returns(i, r, v), r # "TARGET_DEAD"
      PROVE  ApiFrame(i) /\ Same(i) /\ ret'[i].res # "TARGET_DEAD" /\ UNCHANGED store
  <2>1. value # NULL
    BY StorageAssumption
  <2>2. /\ enums' \in [Instances -> [EnumIds -> EnumRecords \cup {NULL}]]
        /\ \A j \in Instances \ {i} : OpenEnums(j)' = OpenEnums(j)
        /\ OpenEnums(i)' = OpenEnums(i) \cup {e}
        /\ UNCHANGED <<store, handles>>
    BY <1>3, <2>1, SetEnumFrame
  <2>3. /\ ret' \in [Instances -> [res : Results, val : Values]]
        /\ ret'[i].res = r
        /\ \A j \in Instances \ {i} : ret'[j] = ret[j]
    BY <1>3, ReturnsFrame
  <2>4. QED
    BY <1>3, <2>2, <2>3 DEF ApiFrame, Same, TypeInv
<1>4. Stopped \in EnumRecords /\ NULL \in Values
  BY DEF Stopped, EnumRecords, Values
<1>5. CASE TEE_ResetPersistentObjectEnumerator(i, e)
  BY <1>1, <1>3, <1>4, <1>5 DEF TEE_ResetPersistentObjectEnumerator, Results
<1>6. ASSUME NEW sid \in Storages, TEE_StartPersistentObjectEnumerator(i, e, sid)
      PROVE  /\ ApiFrame(i) /\ UNCHANGED store
             /\ \/ e \notin OpenEnums(i) /\ Dies(i)
                \/ e \in OpenEnums(i) /\ Same(i) /\ ret'[i].res # "TARGET_DEAD"
  <2>1. [sid |-> sid, base |-> InStorage(sid), done |-> {}] \in EnumRecords
    BY DEF EnumRecords, InStorage, Present
  <2>2. QED
    BY <1>1, <1>3, <1>4, <1>6, <2>1 DEF TEE_StartPersistentObjectEnumerator, Results
<1>7. CASE TEE_GetNextPersistentObject(i, e)
  <2> DEFINE en == enums[i][e]
  <2>1. CASE \/ e \notin OpenEnums(i) /\ Panics(i)
             \/ e \in OpenEnums(i) /\ (Fails(i, "ITEM_NOT_FOUND") \/ Fails(i, "CORRUPT_OBJECT"))
    BY <1>1, <1>2, <2>1
  <2>2. ASSUME e \in OpenEnums(i), NEW o \in InStorage(en.sid) \ en.done,
               SetEnum(i, e, [en EXCEPT !.done = @ \cup {o}]), Returns(i, "SUCCESS", o)
        PROVE  ApiFrame(i) /\ Same(i) /\ ret'[i].res # "TARGET_DEAD" /\ UNCHANGED store
    <3>1. o \in Objects /\ o \in Values /\ en \in EnumRecords
      BY <2>2 DEF InStorage, Present, Values, OpenEnums, TypeInv
    <3>2. [en EXCEPT !.done = @ \cup {o}] \in EnumRecords
      BY <3>1 DEF EnumRecords
    <3>3. QED
      BY <1>3, <2>2, <3>1, <3>2 DEF Results
  <2>3. QED
    BY <1>7, <2>1, <2>2 DEF TEE_GetNextPersistentObject
<1>8. QED
  BY <1>5, <1>6, <1>7

-----------------------------------------------------------------------------
(***************************************************************************)
(* The steps of a command in the TA.                                       *)
(***************************************************************************)

\* What a step of instance i leaves alone, with the types of what it changes.
StepFrame(i) ==
    /\ ApiFrame(i)
    /\ pc' \in [Instances -> Labels]
    /\ transient_key' \in [Instances -> Keys \cup {NoKey, NULL}]
    /\ keyFileName' \in [Instances -> BOOLEAN]
    /\ oe' \in [Instances -> EnumIds \cup {NULL}]
    /\ \A j \in Instances \ {i} : /\ pc'[j] = pc[j]
                                  /\ transient_key'[j] = transient_key[j]
                                  /\ keyFileName'[j] = keyFileName[j]
                                  /\ oe'[j] = oe[j]
    /\ UNCHANGED <<arg, clientVars, listVars, generates>>

\* Such a step keeps the types and the other instances.
LEMMA StepFrameKeeps ==
    ASSUME TypeInv, NEW i \in Instances, StepFrame(i)
    PROVE  TypeInv' /\ \A j \in Instances \ {i} : Mine(j)' = Mine(j)
<1>1. TypeInv'
  BY DEF StepFrame, ApiFrame, TypeInv, clientVars, listVars
<1>2. QED
  BY <1>1 DEF StepFrame, ApiFrame, Mine, clientVars, listVars

\* Where a command goes after a call.
LEMMA AfterGoes ==
    ASSUME TypeInv, NEW i \in Instances, NEW next \in Labels, NEW exit \in Labels,
           After(i, next, exit)
    PROVE  /\ pc' \in [Instances -> Labels]
           /\ \A j \in Instances \ {i} : pc'[j] = pc[j]
           /\ ret'[i].res = "SUCCESS" => pc'[i] = next
           /\ ret'[i].res = "TARGET_DEAD" => pc'[i] = "panic"
           /\ ret'[i].res \notin {"SUCCESS", "TARGET_DEAD"} => pc'[i] = exit
<1>1. "panic" \in Labels
  BY DEF Labels
<1>2. pc' = [pc EXCEPT ![i] = IF ret'[i].res = "SUCCESS" THEN next
                              ELSE IF ret'[i].res = "TARGET_DEAD" THEN "panic" ELSE exit]
  BY DEF After, Goto
<1>3. QED
  BY <1>1, <1>2 DEF TypeInv

\* Calls that only touch the instance itself.
LEMMA LocalCallGoes ==
    ASSUME TypeInv, NEW i \in Instances, NEW error \in Results, NEW next \in Labels,
           NEW exit \in Labels, LocalCall(i, error, next, exit), UNCHANGED <<store, handles, enums>>
    PROVE  /\ ApiFrame(i) /\ Same(i)
           /\ pc' \in [Instances -> Labels]
           /\ \A j \in Instances \ {i} : pc'[j] = pc[j]
           /\ \/ ret'[i].res = "SUCCESS" /\ pc'[i] = next
              \/ ret'[i].res = error /\ pc'[i] = exit
<1>1. CASE Returns(i, "SUCCESS", NULL) /\ Goto(i, next)
  BY <1>1, ReturnsFrame DEF ApiFrame, Same, OpenEnums, Goto, TypeInv, Results, Values
<1>2. CASE Returns(i, error, NULL) /\ Goto(i, exit)
  BY <1>2, ReturnsFrame DEF ApiFrame, Same, OpenEnums, Goto, TypeInv, Values
<1>3. QED
  BY <1>1, <1>2 DEF LocalCall, Returns, Success

\* The client and its library do nothing while the TA works.
ClientWaits == UNCHANGED <<clientVars, listVars, generates>>

\* A step that opens and closes nothing and is told to nobody.
Quiet(i) ==
    /\ Same(i) /\ oe'[i] = oe[i]
    /\ pc[i] # "panic" /\ hpc[i] # "enum_free" /\ arg[i].cmd # "free_enum"
    /\ pc'[i] \notin OnHandleLabels \cup OnEnumLabels \cup {"idle", "panic"}
    /\ Opened(i)' <=> Opened(i)
    /\ GivenUp(i)' <=> GivenUp(i)
    /\ JustAllocated(i)' <=> JustAllocated(i)
    /\ JustFreed(i)' <=> JustFreed(i)
    /\ Opened(i) \/ JustAllocated(i) => ret'[i] = ret[i]

\* After a quiet step the handles and enumerators are known as before.
LEMMA QuietLocal ==
    ASSUME NEW i \in Instances, Local(i), StepFrame(i), Quiet(i), Control(i)', Temporaries(i)'
    PROVE  Local(i)'
<1> USE DEF StepFrame, clientVars, listVars, Local, Quiet, Same
<1>1. Enumerators(i)'
  BY DEF Enumerators, InHand, JustAllocated, JustFreed
<1>2. HandlesKnown(i)'
  BY DEF HandlesKnown, Opened, GivenUp, Agree
<1>3. i \in Instances \ Misusers => Disciplined(i)'
  BY DEF Disciplined, OnHandleLabels
<1>4. QED
  BY <1>1, <1>2, <1>3

\* A panic leaves nothing open; only a client that passes what it does not hold
\* meets one.
LEMMA DiesLocal ==
    ASSUME NEW i \in Instances, Local(i), StepFrame(i), Dies(i), UNCHANGED locals,
           pc[i] \in OnHandleLabels \cup OnEnumLabels, pc'[i] = "panic",
           hpc[i] = "call", i \in Misusers, Control(i)', Temporaries(i)'
    PROVE  Local(i)'
<1> USE DEF StepFrame, clientVars, listVars, locals, Local, Dies
<1>1. oe[i] = NULL /\ enumHandle[i] = NULL
  BY DEF Temporaries, Enumerators, OnHandleLabels, OnEnumLabels
<1>2. Enumerators(i)'
  BY <1>1 DEF Enumerators, InHand, JustAllocated, JustFreed
<1>3. HandlesKnown(i)'
  BY DEF HandlesKnown, Opened, GivenUp
<1>4. QED
  BY <1>2, <1>3

\* A handle that was opened is in hand until the client is told of it.
LEMMA GetsLocal ==
    ASSUME TypeInv, NEW i \in Instances, Local(i), StepFrame(i), NEW key \in Keys,
           Gets(i, arg[i].obj, arg[i].flags, key), OpenEnums(i)' = OpenEnums(i), UNCHANGED locals,
           arg[i].cmd \in {"generate", "open"}, arg[i].obj \in Objects,
           pc[i] \in {"create", "open_object"}, pc'[i] \in {"out3", "open_free"},
           Control(i)', Temporaries(i)'
    PROVE  Local(i)'
<1> USE DEF StepFrame, clientVars, listVars, locals, Local
<1>1. PICK h \in HandleIds :
        /\ handles[i][h] = NULL
        /\ handles'[i] = [handles[i] EXCEPT ![h] =
                            [obj |-> arg[i].obj, flags |-> arg[i].flags, key |-> key]]
        /\ ret'[i].res = "SUCCESS" /\ ret'[i].val = h
  BY DEF Gets
<1>2. /\ handles'[i][h].obj = arg[i].obj /\ handles'[i][h].flags = arg[i].flags
      /\ handles'[i][h] # NULL
      /\ \A g \in HandleIds \ {h} : handles'[i][g] = handles[i][g]
  <2>1. [obj |-> arg[i].obj, flags |-> arg[i].flags, key |-> key] \in KeyHandles
    BY DEF KeyHandles, TypeInv, Args
  <2>2. QED
    BY <1>1, <2>1, KeyAssumption DEF TypeInv
<1>3. arg[i].cmd \notin {"alloc_enum", "free_enum", "close", "close_and_delete"}
      /\ hpc[i] # "enum_free" /\ ~Opened(i) /\ ~GivenUp(i)
  BY DEF Control, Opened, GivenUp
<1>4. Enumerators(i)'
  BY <1>3 DEF Enumerators, InHand, JustAllocated, JustFreed
<1>5. HandlesKnown(i)'
  <2>1. \A g \in HandleIds : Agree(i, g)
    BY <1>3 DEF HandlesKnown
  <2>2. held[i][h] = NULL
    BY <2>1, <1>1 DEF Agree
  <2>3. \A g \in HandleIds \ {h} : Agree(i, g)'
    BY <2>1, <1>2 DEF Agree
  <2>4. sess[i] = "open"
    BY DEF Control, TypeInv
  <2>5. ret'[i].val = h /\ ~GivenUp(i)'
    BY <1>1, <1>3 DEF GivenUp
  <2>6. Opened(i)'
    BY <1>1 DEF Opened
  <2>7. QED
    BY <1>2, <1>3, <2>2, <2>3, <2>4, <2>5, <2>6 DEF HandlesKnown
<1>6. i \in Instances \ Misusers => Disciplined(i)'
  BY DEF Disciplined, OnHandleLabels, OnEnumLabels
<1>7. QED
  BY <1>4, <1>5, <1>6

\* The steps of ta_key_cmd_generate.
LEMMA GenerateStep ==
    ASSUME TypeInv, NEW i \in Instances, Local(i), ta_key_cmd_generate(i), ClientWaits
    PROVE  StepFrame(i) /\ Local(i)'
<1> USE DEF GenerateLabels, ListLabels, OpenLabels, OnHandleLabels, OnEnumLabels,
            Labels, CmdLabels, Results, Values, locals, ClientWaits
<1>q. ASSUME StepFrame(i), Same(i), oe'[i] = oe[i], Temporaries(i)',
             pc[i] \in GenerateLabels \ {"create"},
             pc'[i] \in (GenerateLabels \ {"generate"}) \cup {"return"},
             \/ ret'[i].res # "SUCCESS" /\ ~Opened(i)
             \/ pc'[i] \in GenerateLabels \ {"out3", "out2"} /\ ~Opened(i)
             \/ /\ pc[i] \in {"out3", "out2"} /\ pc'[i] \in {"out2", "return"}
                /\ ret'[i] = ret[i]
      PROVE  Local(i)'
  <2>1. arg[i].cmd = "generate" /\ hpc[i] # "enum_free" /\ arg'[i] = arg[i]
    BY <1>q DEF Local, Control, StepFrame
  <2>2. Quiet(i)
    BY <1>q, <2>1 DEF Quiet, Opened, GivenUp, JustAllocated, JustFreed
  <2>3. Control(i)'
    BY <1>q DEF Local, Control, StepFrame, clientVars, listVars
  <2>4. QED
    BY <1>q, <2>2, <2>3, QuietLocal
<1>1. CASE CheckSize(i)
  <2>1. StepFrame(i) /\ Same(i)
    <3>1. CASE Returns(i, "NOT_SUPPORTED", NULL) /\ Goto(i, "return")
      BY <1>1, <3>1, ReturnsFrame DEF CheckSize, StepFrame, ApiFrame, Same, Goto, TypeInv, OpenEnums
    <3>2. CASE UNCHANGED ret /\ Goto(i, "allocate")
      BY <1>1, <3>2 DEF CheckSize, StepFrame, ApiFrame, Same, Goto, TypeInv, OpenEnums
    <3>3. QED
      BY <1>1, <3>1, <3>2 DEF CheckSize
  <2>2. /\ pc[i] = "generate"
        /\ \/ pc'[i] = "allocate"
           \/ pc'[i] = "return" /\ ret'[i].res = "NOT_SUPPORTED"
    BY <1>1 DEF CheckSize, Goto, Returns, TypeInv
  <2>3. Temporaries(i)' /\ oe'[i] = oe[i]
    BY <1>1, <2>2 DEF CheckSize, Local, Temporaries
  <2>4. QED
    BY <1>q, <2>1, <2>2, <2>3 DEF Opened
<1>2. CASE AllocateTransient(i)
  <2>1. /\ ApiFrame(i) /\ Same(i)
        /\ pc' \in [Instances -> Labels]
        /\ \A j \in Instances \ {i} : pc'[j] = pc[j]
        /\ \/ ret'[i].res = "SUCCESS" /\ pc'[i] = "genkey"
           \/ ret'[i].res = "OUT_OF_MEMORY" /\ pc'[i] = "return"
    BY <1>2, LocalCallGoes DEF AllocateTransient
  <2>2. StepFrame(i)
    BY <1>2, <2>1 DEF AllocateTransient, StepFrame, TypeInv
  <2>3. Temporaries(i)' /\ oe'[i] = oe[i]
    BY <1>2, <2>1, KeyAssumption DEF AllocateTransient, Local, Temporaries, TypeInv
  <2>4. QED
    BY <1>2, <1>q, <2>1, <2>2, <2>3 DEF Opened, AllocateTransient
<1>3. CASE GenerateKey(i)
  <2>1. /\ ApiFrame(i) /\ Same(i)
        /\ pc' \in [Instances -> Labels]
        /\ \A j \in Instances \ {i} : pc'[j] = pc[j]
        /\ \/ ret'[i].res = "SUCCESS" /\ pc'[i] = "name"
           \/ ret'[i].res = "GENERIC" /\ pc'[i] = "out2"
    BY <1>3, LocalCallGoes DEF GenerateKey
  <2>2. StepFrame(i)
    <3>1. /\ transient_key' \in [Instances -> Keys \cup {NoKey, NULL}]
          /\ \A j \in Instances \ {i} : transient_key'[j] = transient_key[j]
      BY <1>3 DEF GenerateKey, TypeInv
    <3>2. UNCHANGED <<arg, keyFileName, oe>>
      BY <1>3 DEF GenerateKey
    <3>3. QED
      BY <2>1, <3>1, <3>2 DEF StepFrame, TypeInv
  <2>3. Temporaries(i)' /\ oe'[i] = oe[i]
    BY <1>3, <2>1, KeyAssumption DEF GenerateKey, Local, Temporaries, TypeInv
  <2>4. QED
    BY <1>3, <1>q, <2>1, <2>2, <2>3 DEF Opened, GenerateKey
<1>4. CASE CopyName(i)
  <2>1. /\ ApiFrame(i) /\ Same(i)
        /\ pc' \in [Instances -> Labels] /\ keyFileName' \in [Instances -> BOOLEAN]
        /\ \A j \in Instances \ {i} : pc'[j] = pc[j] /\ keyFileName'[j] = keyFileName[j]
        /\ \/ ret'[i].res # "SUCCESS" /\ pc'[i] = "out2" /\ keyFileName'[i] = keyFileName[i]
           \/ ret'[i].res # "SUCCESS" /\ pc'[i] = "out3"
           \/ pc'[i] = "create" /\ arg[i].obj[2] # NULL
    <3>1. ASSUME NEW r \in Results, Returns(i, r, NULL)
          PROVE  ApiFrame(i) /\ Same(i) /\ ret'[i].res = r
      BY <1>4, <3>1, ReturnsFrame DEF CopyName, ApiFrame, Same, OpenEnums, TypeInv
    <3>2. CASE Returns(i, "OUT_OF_MEMORY", NULL) /\ Goto(i, "out2") /\ UNCHANGED keyFileName
      BY <3>1, <3>2 DEF Goto, TypeInv
    <3>3. CASE /\ Returns(i, "BAD_PARAMETERS", NULL) /\ Goto(i, "out3")
               /\ keyFileName' = [keyFileName EXCEPT ![i] = TRUE]
      BY <3>1, <3>3 DEF Goto, TypeInv
    <3>4. CASE /\ Returns(i, "SUCCESS", NULL) /\ Goto(i, "create") /\ arg[i].obj[2] # NULL
               /\ keyFileName' = [keyFileName EXCEPT ![i] = TRUE]
      BY <3>1, <3>4 DEF Goto, TypeInv
    <3>5. QED
      BY <1>4, <3>2, <3>3, <3>4 DEF CopyName, Returns, Success
  <2>2. StepFrame(i)
    BY <1>4, <2>1 DEF CopyName, StepFrame, TypeInv
  <2>3. arg[i].obj \in Named /\ UNCHANGED arg
    BY <1>4 DEF CopyName, Local, Control
  <2>4. arg[i].obj[2] # NULL => arg[i].obj \in Objects
    BY <2>3 DEF Named, Objects
  <2>5. Temporaries(i)' /\ oe'[i] = oe[i]
    BY <1>4, <2>1, <2>3, <2>4 DEF CopyName, Local, Temporaries
  <2>6. QED
    BY <1>4, <1>q, <2>1, <2>2, <2>5 DEF Opened, CopyName
<1>5. CASE CreateKey(i)
  <2> DEFINE obj == arg[i].obj
             flags == arg[i].flags
             key == transient_key[i]
  <2>1. obj \in Objects /\ flags \in SUBSET StorageFlags /\ key \in Keys /\ arg[i].cmd = "generate"
    BY <1>5 DEF CreateKey, Local, Temporaries, Control, TypeInv, Args
  <2>2. /\ ApiFrame(i)
        /\ \/ ret'[i].res \notin {"SUCCESS", "TARGET_DEAD"} /\ Same(i)
           \/ Gets(i, obj, flags, key) /\ OpenEnums(i)' = OpenEnums(i)
    BY <1>5, <2>1, CreateApi DEF CreateKey
  <2>3. ret'[i].res # "TARGET_DEAD"
    <3>1. Gets(i, obj, flags, key) => ret'[i].res = "SUCCESS"
      BY DEF Gets
    <3>2. QED
      BY <2>2, <3>1
  <2>4. /\ pc[i] = "create" /\ pc'[i] = "out3" /\ pc' \in [Instances -> Labels]
        /\ \A j \in Instances \ {i} : pc'[j] = pc[j]
    BY <1>5, <2>3, AfterGoes DEF CreateKey
  <2>5. StepFrame(i)
    BY <1>5, <2>2, <2>4 DEF CreateKey, StepFrame, TypeInv
  <2>6. Control(i)' /\ Temporaries(i)'
    BY <1>5, <2>4 DEF CreateKey, Local, Control, Temporaries, clientVars, listVars
  <2>7. CASE ret'[i].res \notin {"SUCCESS", "TARGET_DEAD"} /\ Same(i)
    <3>1. oe'[i] = oe[i] /\ hpc[i] # "enum_free" /\ UNCHANGED arg
      BY <1>5, <2>1 DEF CreateKey, Local, Control
    <3>2. Quiet(i)
      BY <2>1, <2>4, <2>7, <3>1 DEF Quiet, Opened, GivenUp, JustAllocated, JustFreed
    <3>3. QED
      BY <2>5, <2>6, <3>2, QuietLocal
  <2>8. CASE Gets(i, obj, flags, key) /\ OpenEnums(i)' = OpenEnums(i)
    BY <1>5, <2>1, <2>4, <2>5, <2>6, <2>8, GetsLocal DEF CreateKey
  <2>9. QED
    BY <2>2, <2>5, <2>7, <2>8
<1>6. CASE Out3(i)
  <2>1. StepFrame(i) /\ Same(i)
    BY <1>6 DEF Out3, FreeName, Goto, StepFrame, ApiFrame, Same, OpenEnums, TypeInv, teeVars
  <2>2. pc[i] = "out3" /\ pc'[i] = "out2" /\ ret'[i] = ret[i]
    BY <1>6 DEF Out3, Goto, TypeInv, teeVars
  <2>3. Temporaries(i)' /\ oe'[i] = oe[i]
    BY <1>6, <2>2 DEF Out3, FreeName, Local, Temporaries, TypeInv
  <2>4. QED
    BY <1>q, <2>1, <2>2, <2>3
<1>7. CASE Out2(i)
  <2>1. StepFrame(i) /\ Same(i)
    BY <1>7 DEF Out2, FreeTransient, Goto, StepFrame, ApiFrame, Same, OpenEnums, TypeInv, teeVars
  <2>2. pc[i] = "out2" /\ pc'[i] = "return" /\ ret'[i] = ret[i]
    BY <1>7 DEF Out2, Goto, TypeInv, teeVars
  <2>3. Temporaries(i)' /\ oe'[i] = oe[i]
    BY <1>7, <2>2 DEF Out2, FreeTransient, Local, Temporaries, TypeInv
  <2>4. QED
    BY <1>q, <2>1, <2>2, <2>3
<1>8. QED
  BY <1>1, <1>2, <1>3, <1>4, <1>5, <1>6, <1>7 DEF ta_key_cmd_generate

\* The steps of ta_key_cmd_open.
LEMMA OpenStep ==
    ASSUME TypeInv, NEW i \in Instances, Local(i), ta_key_cmd_open(i), ClientWaits
    PROVE  StepFrame(i) /\ Local(i)'
<1> USE DEF GenerateLabels, ListLabels, OpenLabels, OnHandleLabels, OnEnumLabels,
            Labels, CmdLabels, Results, Values, locals, ClientWaits
<1>1. CASE OpenCopyName(i)
  <2>1. /\ ApiFrame(i) /\ Same(i)
        /\ pc' \in [Instances -> Labels]
        /\ \A j \in Instances \ {i} : pc'[j] = pc[j]
        /\ \/ ret'[i].res = "SUCCESS" /\ pc'[i] = "open_object"
           \/ ret'[i].res = "OUT_OF_MEMORY" /\ pc'[i] = "return"
    BY <1>1, LocalCallGoes DEF OpenCopyName
  <2>2. StepFrame(i)
    BY <1>1, <2>1 DEF OpenCopyName, StepFrame, TypeInv
  <2>3. Temporaries(i)' /\ oe'[i] = oe[i]
    BY <1>1, <2>1 DEF OpenCopyName, Local, Temporaries, TypeInv
  <2>4. Control(i)' /\ arg[i].cmd = "open" /\ hpc[i] # "enum_free"
    BY <1>1, <2>1 DEF OpenCopyName, Local, Control, clientVars, listVars
  <2>5. Quiet(i)
    BY <1>1, <2>1, <2>3, <2>4 DEF OpenCopyName, Quiet, Opened, GivenUp, JustAllocated, JustFreed
  <2>6. QED
    BY <2>2, <2>3, <2>4, <2>5, QuietLocal
<1>2. CASE OpenKey(i)
  <2> DEFINE obj == arg[i].obj
             flags == arg[i].flags
  <2>1. flags \in SUBSET StorageFlags /\ arg[i].cmd = "open"
    BY <1>2 DEF OpenKey, Local, Control, TypeInv, Args
  <2>2. /\ ApiFrame(i)
        /\ \/ ret'[i].res \notin {"SUCCESS", "TARGET_DEAD"} /\ Same(i)
           \/ /\ Gets(i, obj, flags, store[obj]) /\ OpenEnums(i)' = OpenEnums(i)
              /\ obj \in Objects /\ store[obj] \in Keys
    BY <1>2, <2>1, OpenApi DEF OpenKey
  <2>3. ret'[i].res # "TARGET_DEAD"
    <3>1. Gets(i, obj, flags, store[obj]) => ret'[i].res = "SUCCESS"
      BY DEF Gets
    <3>2. QED
      BY <2>2, <3>1
  <2>4. /\ pc[i] = "open_object" /\ pc'[i] = "open_free" /\ pc' \in [Instances -> Labels]
        /\ \A j \in Instances \ {i} : pc'[j] = pc[j]
    BY <1>2, <2>3, AfterGoes DEF OpenKey
  <2>5. StepFrame(i)
    BY <1>2, <2>2, <2>4 DEF OpenKey, StepFrame, TypeInv
  <2>6. Control(i)' /\ Temporaries(i)'
    BY <1>2, <2>4 DEF OpenKey, Local, Control, Temporaries, clientVars, listVars
  <2>7. CASE ret'[i].res \notin {"SUCCESS", "TARGET_DEAD"} /\ Same(i)
    <3>1. oe'[i] = oe[i] /\ hpc[i] # "enum_free" /\ UNCHANGED arg
      BY <1>2, <2>1 DEF OpenKey, Local, Control
    <3>2. Quiet(i)
      BY <2>1, <2>4, <2>7, <3>1 DEF Quiet, Opened, GivenUp, JustAllocated, JustFreed
    <3>3. QED
      BY <2>5, <2>6, <3>2, QuietLocal
  <2>8. CASE /\ Gets(i, obj, flags, store[obj]) /\ OpenEnums(i)' = OpenEnums(i)
             /\ obj \in Objects /\ store[obj] \in Keys
    BY <1>2, <2>1, <2>4, <2>5, <2>6, <2>8, GetsLocal DEF OpenKey
  <2>9. QED
    BY <2>2, <2>5, <2>7, <2>8
<1>3. CASE OpenFreeName(i)
  <2>1. StepFrame(i) /\ Same(i)
    BY <1>3 DEF OpenFreeName, FreeName, Goto, StepFrame, ApiFrame, Same, OpenEnums, TypeInv, teeVars
  <2>2. pc[i] = "open_free" /\ pc'[i] = "return" /\ ret'[i] = ret[i]
    BY <1>3 DEF OpenFreeName, Goto, TypeInv, teeVars
  <2>3. Temporaries(i)' /\ oe'[i] = oe[i]
    BY <1>3, <2>2 DEF OpenFreeName, FreeName, Local, Temporaries, TypeInv
  <2>4. Control(i)' /\ arg[i].cmd = "open" /\ hpc[i] # "enum_free"
    BY <1>3, <2>2 DEF OpenFreeName, Local, Control, clientVars, listVars
  <2>5. Quiet(i)
    BY <1>3, <2>1, <2>2, <2>3, <2>4
       DEF OpenFreeName, Quiet, Opened, GivenUp, JustAllocated, JustFreed
  <2>6. QED
    BY <2>1, <2>3, <2>4, <2>5, QuietLocal
<1>4. QED
  BY <1>1, <1>2, <1>3 DEF ta_key_cmd_open

\* The steps of ta_key_cmd_list.
LEMMA ListStep ==
    ASSUME TypeInv, NEW i \in Instances, Local(i), ta_key_cmd_list(i), ClientWaits
    PROVE  StepFrame(i) /\ Local(i)'
<1> USE DEF GenerateLabels, ListLabels, OpenLabels, OnHandleLabels, OnEnumLabels,
            Labels, CmdLabels, Results, Values, locals, ClientWaits
<1>1. arg[i].cmd = "list" /\ arg[i].obj[1] \in Storages
  BY DEF ta_key_cmd_list, ListAllocate, ListStart, ListNext, ListFree, Local, Control, Named
<1>2. hpc[i] \notin {"enum_alloc", "enum_start", "enum_next", "enum_free"} /\ enumHandle[i] = NULL
  BY <1>1 DEF Local, Control, Enumerators
<1>3. UNCHANGED arg
  BY DEF ta_key_cmd_list, ListAllocate, ListStart, ListNext, ListFree
<1>4. CASE ListAllocate(i)
  <2>1. PICK e \in EnumIds \cup {NULL} :
          /\ ApiFrame(i) /\ UNCHANGED handles /\ ret'[i].val = e
          /\ \/ e = NULL /\ ret'[i].res = "OUT_OF_MEMORY" /\ Same(i)
             \/ /\ e \in EnumIds \ OpenEnums(i) /\ ret'[i].res = "SUCCESS"
                /\ OpenEnums(i)' = OpenEnums(i) \cup {e}
    BY <1>4, AllocEnumApi DEF ListAllocate
  <2>2. /\ pc[i] = "list" /\ pc' \in [Instances -> Labels]
        /\ ret'[i].res = "SUCCESS" => pc'[i] = "list_start"
        /\ ret'[i].res = "OUT_OF_MEMORY" => pc'[i] = "return"
        /\ \A j \in Instances \ {i} : pc'[j] = pc[j]
    BY <1>4, <2>1, AfterGoes DEF ListAllocate
  <2>3. oe'[i] = e
    BY <1>4, <2>1 DEF ListAllocate, TypeInv
  <2>4. StepFrame(i)
    BY <1>4, <2>1, <2>2 DEF ListAllocate, StepFrame, TypeInv
  <2>5. Control(i)' /\ Temporaries(i)'
    BY <1>4, <2>1, <2>2, <2>3, StorageAssumption
       DEF ListAllocate, Local, Control, Temporaries, clientVars, listVars
  <2>6. oe[i] = NULL
    BY <2>2 DEF Local, Temporaries
  <2>7. CASE ret'[i].res = "OUT_OF_MEMORY"
    <3>1. Quiet(i)
      BY <1>1, <1>2, <1>3, <2>1, <2>2, <2>3, <2>6, <2>7
         DEF Quiet, Opened, GivenUp, JustAllocated, JustFreed
    <3>2. QED
      BY <2>4, <2>5, <3>1, QuietLocal
  <2>8. CASE e \in EnumIds \ OpenEnums(i) /\ OpenEnums(i)' = OpenEnums(i) \cup {e}
             /\ ret'[i].res = "SUCCESS"
    <3>1. InHand(i) = {} /\ InHand(i)' = {e} /\ ~JustFreed(i) /\ ~JustFreed(i)'
      BY <1>1, <1>2, <1>3, <2>3, <2>6, <2>8, StorageAssumption
         DEF InHand, JustAllocated, JustFreed, clientVars, listVars
    <3>2. OpenEnums(i) = eheld[i] \cup lost[i]
      BY <2>2, <3>1 DEF Local, Enumerators, InHand, JustFreed
    <3>3. ~JustAllocated(i)' /\ sess[i] = "open"
      BY <1>1, <1>3, <2>2 DEF JustAllocated, Local, Control, TypeInv
    <3>4. Enumerators(i)'
      BY <1>2, <2>2, <2>8, <3>1, <3>2, <3>3 DEF Enumerators, JustFreed, clientVars, listVars
    <3>5. HandlesKnown(i)'
      BY <1>1, <1>3, <2>1, <2>2, <2>8
         DEF Local, HandlesKnown, Agree, Opened, GivenUp, clientVars, listVars
    <3>6. i \in Instances \ Misusers => Disciplined(i)'
      BY <2>2, <2>8 DEF Local, Disciplined, clientVars
    <3>7. QED
      BY <2>4, <2>5, <3>4, <3>5, <3>6 DEF Local
  <2>9. QED
    BY <2>1, <2>4, <2>7, <2>8
<1>5. CASE ListStart(i) \/ ListNext(i)
  <2>1. oe[i] \in EnumIds /\ oe[i] \in OpenEnums(i)
    <3>1. oe[i] \in InHand(i) /\ ~JustFreed(i) /\ pc[i] # "panic"
      BY <1>1, <1>5 DEF Local, Temporaries, InHand, JustFreed, ListStart, ListNext
    <3>2. QED
      BY <3>1 DEF Local, Enumerators, TypeInv, OpenEnums
  <2>2. ApiFrame(i) /\ Same(i) /\ ret'[i].res # "TARGET_DEAD"
    BY <1>1, <1>5, <2>1, UseEnumApi DEF ListStart, ListNext
  <2>3. /\ pc[i] \in {"list_start", "list_next"} /\ pc' \in [Instances -> Labels]
        /\ pc'[i] \in {"list_next", "list_done", "list_free"}
        /\ \A j \in Instances \ {i} : pc'[j] = pc[j]
    BY <1>5, <2>2, AfterGoes DEF ListStart, ListNext
  <2>4. StepFrame(i)
    BY <1>5, <2>2, <2>3 DEF ListStart, ListNext, StepFrame, TypeInv
  <2>5. Control(i)' /\ Temporaries(i)'
    BY <1>5, <2>3 DEF ListStart, ListNext, Local, Control, Temporaries, clientVars, listVars
  <2>6. Quiet(i)
    BY <1>1, <1>2, <1>3, <1>5, <2>2, <2>3
       DEF ListStart, ListNext, Quiet, Opened, GivenUp, JustAllocated, JustFreed
  <2>7. QED
    BY <2>4, <2>5, <2>6, QuietLocal
<1>6. CASE ListFree(i)
  <2>1. /\ pc[i] \in {"list_done", "list_free"} /\ pc'[i] = "return"
        /\ oe[i] \in EnumIds /\ oe'[i] = NULL
    BY <1>6 DEF ListFree, Goto, Local, Temporaries, TypeInv
  <2>2. StepFrame(i)
    <3>1. SetEnum(i, oe[i], NULL)
      BY <1>6 DEF ListFree, SetEnum
    <3>2. ret' \in [Instances -> [res : Results, val : Values]]
          /\ \A j \in Instances \ {i} : ret'[j] = ret[j]
      BY <1>6 DEF ListFree, TypeInv, Success
    <3>3. ApiFrame(i)
      BY <2>1, <3>1, <3>2, SetEnumFrame DEF ApiFrame, TypeInv
    <3>4. QED
      BY <1>6, <3>3 DEF ListFree, StepFrame, Goto, TypeInv
  <2>3. OpenEnums(i)' = OpenEnums(i) \ {oe[i]} /\ UNCHANGED handles
    <3>1. SetEnum(i, oe[i], NULL)
      BY <1>6 DEF ListFree, SetEnum
    <3>2. QED
      BY <2>1, <3>1, SetEnumFrame
  <2>4. Control(i)' /\ Temporaries(i)'
    BY <1>6, <2>1 DEF ListFree, Local, Control, Temporaries, clientVars, listVars
  <2>5. InHand(i) = {oe[i]} /\ InHand(i)' = {} /\ ~JustFreed(i) /\ ~JustFreed(i)'
        /\ ~JustAllocated(i)'
    BY <1>1, <1>2, <1>3, <2>1, StorageAssumption
       DEF InHand, JustAllocated, JustFreed, clientVars, listVars
  <2>6. OpenEnums(i) = eheld[i] \cup lost[i] \cup {oe[i]} /\ oe[i] \notin eheld[i] \cup lost[i]
    <3>1. {e \in EnumIds : JustFreed(i) /\ e = arg[i].h} = {}
      BY <2>5
    <3>2. QED
      BY <2>1, <2>5, <3>1 DEF Local, Enumerators
  <2>7. Enumerators(i)'
    BY <1>1, <1>2, <1>3, <2>1, <2>3, <2>5, <2>6 DEF Local, Enumerators, clientVars, listVars
  <2>8. HandlesKnown(i)'
    BY <1>1, <1>3, <2>1, <2>3
       DEF Local, HandlesKnown, Agree, Opened, GivenUp, clientVars, listVars
  <2>9. i \in Instances \ Misusers => Disciplined(i)'
    BY <2>1 DEF Local, Disciplined, clientVars
  <2>10. QED
    BY <2>2, <2>4, <2>7, <2>8, <2>9 DEF Local
<1>7. QED
  BY <1>4, <1>5, <1>6 DEF ta_key_cmd_list

\* A command that panics; its client passed what it does not hold.
LEMMA PanicStep ==
    ASSUME TypeInv, NEW i \in Instances, Local(i), ClientWaits, ApiFrame(i), Dies(i),
           pc[i] \in OnHandleLabels \cup OnEnumLabels, pc'[i] = "panic",
           pc' \in [Instances -> Labels], \A j \in Instances \ {i} : pc'[j] = pc[j],
           UNCHANGED <<arg, locals>>,
           hpc[i] = "call", i \in Misusers
    PROVE  StepFrame(i) /\ Local(i)'
<1>1. StepFrame(i)
  BY DEF StepFrame, TypeInv, locals, ClientWaits
<1>2. Control(i)' /\ Temporaries(i)'
  BY DEF Local, Control, Temporaries, Dies, ClientWaits, clientVars, locals,
     GenerateLabels, ListLabels, OpenLabels, OnHandleLabels, OnEnumLabels, TypeInv
<1>3. QED
  BY <1>1, <1>2, DiesLocal

\* A library function that waits is the one whose command runs.
LEMMA Waiting ==
    ASSUME TypeInv, NEW i \in Instances, Control(i), pc[i] # "idle"
    PROVE  /\ hpc[i] \in {"call", "enum_alloc", "enum_start", "enum_next", "enum_free"}
           /\ arg[i].cmd \notin OnEnumLabels \cup {"alloc_enum"} => hpc[i] = "call"
           /\ arg[i].cmd \in OnEnumLabels => hpc[i] # "enum_alloc"
<1>1. hpc[i] \in HLabels
  BY DEF TypeInv
<1>2. QED
  BY <1>1 DEF HLabels, Control, OnEnumLabels

\* Object handles are passed by plain calls, a disciplined client's are open.
LEMMA HandlesHonest ==
    ASSUME TypeInv, NEW i \in Instances, Local(i), pc[i] \in OnHandleLabels
    PROVE  /\ arg[i].h \in HandleIds /\ arg[i].cmd = pc[i] /\ hpc[i] = "call" /\ sess[i] = "open"
           /\ i \in Misusers \/ arg[i].h \in OpenHandles(i)
           /\ pc[i] = "close_and_delete" =>
                i \in Misusers \/ "META" \in handles[i][arg[i].h].flags
<1>1. Control(i) /\ arg[i].h \in HandleIds /\ arg[i].cmd = pc[i] /\ pc[i] # "idle"
  BY DEF Local, Control, OnHandleLabels
<1>2. hpc[i] = "call"
  BY <1>1, Waiting DEF OnHandleLabels, OnEnumLabels
<1>3. sess[i] = "open"
  BY <1>1 DEF Control, OnHandleLabels, TypeInv
<1>4. QED
  BY <1>1, <1>2, <1>3 DEF Local, Disciplined

\* Enumerators are also passed by keyEnumObjectList, which holds what it passes.
LEMMA EnumsHonest ==
    ASSUME TypeInv, NEW i \in Instances, Local(i), pc[i] \in OnEnumLabels
    PROVE  /\ arg[i].h \in EnumIds /\ arg[i].cmd = pc[i] /\ sess[i] = "open"
           /\ arg[i].h \in OpenEnums(i) \/ (hpc[i] = "call" /\ i \in Misusers)
<1>1. arg[i].h \in EnumIds /\ arg[i].cmd = pc[i] /\ sess[i] = "open"
  BY DEF Local, Control, OnEnumLabels, TypeInv
<1>2. CASE hpc[i] = "call"
  BY <1>1, <1>2 DEF Local, Disciplined
<1>3. CASE hpc[i] # "call"
  <2>1. hpc[i] \in {"enum_start", "enum_next", "enum_free"}
    BY <1>1, <1>3, Waiting DEF Local, OnEnumLabels
  <2>2. arg[i].h \in InHand(i)
    BY <2>1 DEF Local, Enumerators, InHand
  <2>3. ~JustFreed(i) /\ pc[i] # "panic"
    BY DEF JustFreed, OnEnumLabels
  <2>4. QED
    BY <1>1, <2>2, <2>3 DEF Local, Enumerators
<1>4. QED
  BY <1>1, <1>2, <1>3

\* The commands on one key.
LEMMA KeyStep ==
    ASSUME TypeInv, NEW i \in Instances, Local(i), ClientWaits,
           \/ ta_key_cmd_close(i)
           \/ ta_key_cmd_close_and_delete(i)
           \/ ta_key_cmd_get_object_buffer_attribute(i)
           \/ ta_key_cmd_get_object_value_attribute(i)
    PROVE  StepFrame(i) /\ Local(i)'
<1> USE DEF GenerateLabels, ListLabels, OpenLabels, OnHandleLabels, OnEnumLabels,
            Labels, CmdLabels, Results, Values, locals, ClientWaits
<1> DEFINE h == arg[i].h
<1>1. CASE ta_key_cmd_get_object_buffer_attribute(i) \/ ta_key_cmd_get_object_value_attribute(i)
  <2>1. pc[i] \in {"buffer_attribute", "value_attribute"} /\ UNCHANGED <<arg, locals>>
    BY <1>1 DEF ta_key_cmd_get_object_buffer_attribute, ta_key_cmd_get_object_value_attribute
  <2>2. /\ h \in HandleIds /\ arg[i].cmd = pc[i] /\ hpc[i] = "call"
        /\ i \in Misusers \/ h \in OpenHandles(i)
    BY <2>1, HandlesHonest
  <2>3. /\ ApiFrame(i)
        /\ \/ h \notin OpenHandles(i) /\ Dies(i)
           \/ Same(i) /\ ret'[i].res # "TARGET_DEAD"
    BY <1>1, <2>2, ReadApi
       DEF ta_key_cmd_get_object_buffer_attribute, ta_key_cmd_get_object_value_attribute
  <2>4. /\ pc' \in [Instances -> Labels] /\ \A j \in Instances \ {i} : pc'[j] = pc[j]
        /\ ret'[i].res = "TARGET_DEAD" => pc'[i] = "panic"
        /\ ret'[i].res # "TARGET_DEAD" => pc'[i] = "return"
    BY <1>1, AfterGoes
       DEF ta_key_cmd_get_object_buffer_attribute, ta_key_cmd_get_object_value_attribute
  <2>5. CASE h \notin OpenHandles(i) /\ Dies(i)
    BY <2>1, <2>2, <2>3, <2>4, <2>5, PanicStep DEF Dies
  <2>6. CASE Same(i) /\ ret'[i].res # "TARGET_DEAD"
    <3>1. StepFrame(i)
      BY <2>1, <2>3, <2>4 DEF StepFrame, TypeInv
    <3>2. Control(i)' /\ Temporaries(i)'
      BY <2>1, <2>2, <2>4, <2>6 DEF Local, Control, Temporaries, clientVars
    <3>3. Quiet(i)
      BY <2>1, <2>2, <2>4, <2>6 DEF Quiet, Opened, GivenUp, JustAllocated, JustFreed
    <3>4. QED
      BY <3>1, <3>2, <3>3, QuietLocal
  <2>7. QED
    BY <2>3, <2>5, <2>6
<1>2. CASE pc[i] = "ignore" /\ ta_key_cmd_close_and_delete(i)
  <2>1. /\ pc'[i] = "return" /\ ret'[i].res = "SUCCESS"
        /\ UNCHANGED <<store, handles, enums, arg, locals>>
        /\ pc' \in [Instances -> Labels] /\ \A j \in Instances \ {i} : pc'[j] = pc[j]
        /\ ret' \in [Instances -> [res : Results, val : Values]]
        /\ \A j \in Instances \ {i} : ret'[j] = ret[j]
    <3>1. /\ Returns(i, "SUCCESS", NULL) /\ Goto(i, "return")
          /\ UNCHANGED <<store, handles, enums, arg, locals>>
      BY <1>2 DEF ta_key_cmd_close_and_delete, Returns, Success
    <3>2. QED
      BY <3>1, ReturnsFrame DEF Goto, TypeInv
  <2>2. StepFrame(i) /\ Same(i)
    BY <2>1 DEF StepFrame, ApiFrame, Same, OpenEnums, TypeInv
  <2>3. arg[i].cmd = "close_and_delete" /\ hpc[i] = "call"
    BY <1>2, Waiting DEF Local, Control
  <2>4. Control(i)' /\ Temporaries(i)'
    BY <1>2, <2>1, <2>3 DEF Local, Control, Temporaries, clientVars
  <2>5. Quiet(i)
    BY <1>2, <2>1, <2>2, <2>3 DEF Quiet, Opened, GivenUp, JustAllocated, JustFreed
  <2>6. QED
    BY <2>2, <2>4, <2>5, QuietLocal
<1>3. CASE ta_key_cmd_close(i) \/ (pc[i] # "ignore" /\ ta_key_cmd_close_and_delete(i))
  <2>1. pc[i] \in {"close", "close_and_delete"} /\ UNCHANGED <<arg, locals>>
    BY <1>3 DEF ta_key_cmd_close, ta_key_cmd_close_and_delete
  <2>2. /\ h \in HandleIds /\ arg[i].cmd = pc[i] /\ hpc[i] = "call" /\ sess[i] = "open"
        /\ i \in Misusers \/ h \in OpenHandles(i)
        /\ pc[i] = "close_and_delete" => i \in Misusers \/ "META" \in handles[i][h].flags
    BY <2>1, HandlesHonest
  <2>3. /\ ApiFrame(i)
        /\ \/ i \in Misusers /\ Dies(i)
           \/ GivesUp(i, h) /\ ret'[i].res = "SUCCESS"
           \/ GivesUp(i, h) /\ pc[i] = "close_and_delete" /\ ret'[i].res = "STORAGE_NOT_AVAILABLE"
    <3>1. CASE ta_key_cmd_close(i)
      BY <2>2, <3>1, CloseApi DEF ta_key_cmd_close
    <3>2. CASE pc[i] # "ignore" /\ ta_key_cmd_close_and_delete(i)
      BY <2>2, <3>2, DeleteApi DEF ta_key_cmd_close_and_delete
    <3>3. QED
      BY <1>3, <3>1, <3>2
  <2>4. /\ pc' \in [Instances -> Labels] /\ \A j \in Instances \ {i} : pc'[j] = pc[j]
        /\ ret'[i].res = "TARGET_DEAD" => pc'[i] = "panic"
        /\ ret'[i].res = "SUCCESS" => pc'[i] = "return"
        /\ pc[i] = "close_and_delete" /\ ret'[i].res = "STORAGE_NOT_AVAILABLE" => pc'[i] = "ignore"
    <3>1. CASE ta_key_cmd_close(i)
      BY <3>1, AfterGoes DEF ta_key_cmd_close
    <3>2. CASE pc[i] # "ignore" /\ ta_key_cmd_close_and_delete(i)
      BY <3>2, AfterGoes DEF ta_key_cmd_close_and_delete
    <3>3. QED
      BY <1>3, <3>1, <3>2
  <2>5. CASE i \in Misusers /\ Dies(i)
    BY <2>1, <2>2, <2>3, <2>4, <2>5, PanicStep DEF Dies
  <2>6. CASE GivesUp(i, h) /\ ret'[i].res \in {"SUCCESS", "STORAGE_NOT_AVAILABLE"} /\ ~Dies(i)
    <3>1. StepFrame(i)
      BY <2>1, <2>3, <2>4 DEF StepFrame, TypeInv
    <3>2. pc'[i] \in {"return", "ignore"}
          /\ (pc'[i] = "return" => ret'[i].res = "SUCCESS")
          /\ (pc'[i] = "ignore" => pc[i] = "close_and_delete")
      BY <2>3, <2>4, <2>6
    <3>3. Control(i)' /\ Temporaries(i)'
      BY <2>1, <2>2, <3>2 DEF Local, Control, Temporaries, clientVars
    <3>4. Enumerators(i)'
      BY <2>1, <2>2, <2>6, <3>2
         DEF Local, Enumerators, InHand, JustAllocated, JustFreed, GivesUp, clientVars, listVars
    <3>5. HandlesKnown(i)'
      <4>1. /\ handles'[i][h] = NULL
            /\ \A g \in HandleIds \ {h} : handles'[i][g] = handles[i][g]
        BY <2>2, <2>6 DEF GivesUp, TypeInv
      <4>2. \A g \in HandleIds : Agree(i, g)
        BY <2>1, <2>2 DEF Local, HandlesKnown, Opened, GivenUp
      <4>3. \A g \in HandleIds \ {h} : Agree(i, g)'
        BY <4>1, <4>2 DEF Agree, clientVars
      <4>4. GivenUp(i)' /\ ~Opened(i)' /\ h' = h
        BY <2>1, <2>2, <3>2 DEF GivenUp, Opened
      <4>5. QED
        BY <2>2, <3>2, <4>1, <4>3, <4>4 DEF HandlesKnown, clientVars
    <3>6. i \in Instances \ Misusers => Disciplined(i)'
      BY <3>2 DEF Local, Disciplined, clientVars
    <3>7. QED
      BY <3>1, <3>3, <3>4, <3>5, <3>6 DEF Local
  <2>7. QED
    BY <2>3, <2>5, <2>6 DEF Dies
<1>4. QED
  BY <1>1, <1>2, <1>3

\* The enumerator commands.
LEMMA EnumStep ==
    ASSUME TypeInv, NEW i \in Instances, Local(i), ClientWaits,
           \/ ta_key_cmd_alloc_enum(i)
           \/ ta_key_cmd_free_enum(i)
           \/ ta_key_cmd_reset_enum(i)
           \/ ta_key_cmd_start_enum(i)
           \/ ta_key_cmd_next_enum(i)
    PROVE  StepFrame(i) /\ Local(i)'
<1> USE DEF GenerateLabels, ListLabels, OpenLabels, OnHandleLabels, OnEnumLabels,
            Labels, CmdLabels, Results, Values, locals, ClientWaits
<1> DEFINE e == arg[i].h
<1>0. UNCHANGED <<arg, locals>> /\ After(i, "return", "return")
  BY DEF ta_key_cmd_alloc_enum, ta_key_cmd_free_enum, ta_key_cmd_reset_enum,
         ta_key_cmd_start_enum, ta_key_cmd_next_enum, Done
<1>1. /\ pc' \in [Instances -> Labels] /\ \A j \in Instances \ {i} : pc'[j] = pc[j]
      /\ ret'[i].res = "TARGET_DEAD" => pc'[i] = "panic"
      /\ ret'[i].res # "TARGET_DEAD" => pc'[i] = "return"
  BY <1>0, AfterGoes
<1>2. ASSUME ApiFrame(i) PROVE StepFrame(i)
  BY <1>0, <1>1, <1>2 DEF StepFrame, TypeInv
<1>3. oe[i] = NULL /\ oe'[i] = NULL
  BY <1>0 DEF Local, Temporaries, ta_key_cmd_alloc_enum, ta_key_cmd_free_enum,
     ta_key_cmd_reset_enum, ta_key_cmd_start_enum, ta_key_cmd_next_enum
<1>4. CASE ta_key_cmd_alloc_enum(i)
  <2>1. pc[i] = "alloc_enum" /\ arg[i].cmd = "alloc_enum"
        /\ hpc[i] \in {"call", "enum_alloc"} /\ sess[i] = "open"
    BY <1>4, Waiting DEF ta_key_cmd_alloc_enum, Local, Control, TypeInv
  <2>2. /\ ApiFrame(i) /\ UNCHANGED handles
        /\ \/ ret'[i].res = "OUT_OF_MEMORY" /\ Same(i)
           \/ \E d \in EnumIds \ OpenEnums(i) :
                /\ ret'[i].res = "SUCCESS" /\ ret'[i].val = d
                /\ OpenEnums(i)' = OpenEnums(i) \cup {d}
    BY <1>4, AllocEnumApi DEF ta_key_cmd_alloc_enum
  <2>3. pc'[i] = "return" /\ ret'[i].res # "TARGET_DEAD"
    BY <1>1, <2>2
  <2>4. Control(i)' /\ Temporaries(i)'
    BY <1>0, <2>1, <2>3 DEF Local, Control, Temporaries, clientVars
  <2>5. CASE ret'[i].res = "OUT_OF_MEMORY" /\ Same(i)
    <3>1. Quiet(i)
      BY <1>0, <1>3, <2>1, <2>3, <2>5 DEF Quiet, Opened, GivenUp, JustAllocated, JustFreed
    <3>2. QED
      BY <1>2, <2>2, <2>4, <3>1, QuietLocal
  <2>6. ASSUME NEW d \in EnumIds \ OpenEnums(i), ret'[i].res = "SUCCESS", ret'[i].val = d,
               OpenEnums(i)' = OpenEnums(i) \cup {d}
        PROVE  Local(i)'
    <3>1. enumHandle[i] = NULL /\ enumHandle'[i] = NULL
      BY <2>1 DEF Local, Enumerators, listVars
    <3>2. JustAllocated(i)' /\ ~JustAllocated(i) /\ ~JustFreed(i) /\ ~JustFreed(i)'
      BY <1>0, <2>1, <2>3, <2>6 DEF JustAllocated, JustFreed
    <3>3. InHand(i) = {} /\ InHand(i)' = {d}
      BY <1>3, <2>6, <3>1, <3>2 DEF InHand
    <3>4. OpenEnums(i) = eheld[i] \cup lost[i]
      BY <2>1, <3>2, <3>3 DEF Local, Enumerators, TypeInv
    <3>5. Enumerators(i)'
      BY <2>1, <2>3, <2>6, <3>1, <3>2, <3>3, <3>4 DEF Local, Enumerators, clientVars, listVars
    <3>6. HandlesKnown(i)'
      BY <1>0, <2>1, <2>2, <2>3 DEF Local, HandlesKnown, Agree, Opened, GivenUp, clientVars
    <3>7. i \in Instances \ Misusers => Disciplined(i)'
      BY <2>3 DEF Local, Disciplined, clientVars
    <3>8. QED
      BY <2>4, <3>5, <3>6, <3>7 DEF Local
  <2>7. QED
    BY <1>2, <2>2, <2>5, <2>6
<1>5. ASSUME pc[i] \in OnEnumLabels
      PROVE  /\ e \in EnumIds /\ arg[i].cmd = pc[i] /\ sess[i] = "open"
             /\ e \in OpenEnums(i) \/ (hpc[i] = "call" /\ i \in Misusers)
             /\ hpc[i] \in {"call", "enum_start", "enum_next", "enum_free"}
  BY <1>5, EnumsHonest, Waiting DEF Local
<1>6. CASE ta_key_cmd_free_enum(i)
  <2>1. pc[i] = "free_enum"
    BY <1>6 DEF ta_key_cmd_free_enum
  <2>2. /\ ApiFrame(i)
        /\ \/ e \notin OpenEnums(i) /\ Dies(i)
           \/ /\ OpenEnums(i)' = OpenEnums(i) \ {e}
              /\ handles'[i] = handles[i] /\ ret'[i].res = "SUCCESS"
    BY <1>5, <1>6, <2>1, FreeEnumApi DEF ta_key_cmd_free_enum
  <2>3. CASE e \notin OpenEnums(i) /\ Dies(i)
    BY <1>0, <1>1, <1>5, <2>1, <2>2, <2>3, PanicStep DEF Dies
  <2>4. CASE /\ OpenEnums(i)' = OpenEnums(i) \ {e}
             /\ handles'[i] = handles[i] /\ ret'[i].res = "SUCCESS"
    <3>1. pc'[i] = "return" /\ ret'[i].res # "TARGET_DEAD"
      BY <1>1, <2>4
    <3>2. Control(i)' /\ Temporaries(i)'
      BY <1>0, <1>5, <2>1, <3>1 DEF Local, Control, Temporaries, clientVars
    <3>3. JustFreed(i)' /\ ~JustFreed(i) /\ ~JustAllocated(i) /\ ~JustAllocated(i)'
      BY <1>0, <1>5, <2>1, <2>4, <3>1 DEF JustFreed, JustAllocated
    <3>4. InHand(i)' = InHand(i)
      BY <1>3, <3>3 DEF InHand, listVars
    <3>5. OpenEnums(i) = eheld[i] \cup lost[i] \cup InHand(i)
      BY <2>1, <3>3 DEF Local, Enumerators
    <3>6. Enumerators(i)'
      BY <1>0, <1>5, <2>1, <2>4, <3>1, <3>3, <3>4, <3>5 DEF Local, Enumerators, clientVars, listVars
    <3>7. HandlesKnown(i)'
      BY <1>0, <1>5, <2>1, <2>4, <3>1 DEF Local, HandlesKnown, Agree, Opened, GivenUp, clientVars
    <3>8. i \in Instances \ Misusers => Disciplined(i)'
      BY <3>1 DEF Local, Disciplined, clientVars
    <3>9. QED
      BY <1>2, <2>2, <3>2, <3>6, <3>7, <3>8 DEF Local
  <2>5. QED
    BY <2>2, <2>3, <2>4
<1>7. CASE ta_key_cmd_reset_enum(i) \/ ta_key_cmd_start_enum(i) \/ ta_key_cmd_next_enum(i)
  <2>1. pc[i] \in {"reset_enum", "start_enum", "next_enum"}
    BY <1>7 DEF ta_key_cmd_reset_enum, ta_key_cmd_start_enum, ta_key_cmd_next_enum
  <2>2. /\ ApiFrame(i)
        /\ \/ e \notin OpenEnums(i) /\ Dies(i)
           \/ Same(i) /\ ret'[i].res # "TARGET_DEAD"
    <3>1. CASE pc[i] = "next_enum" /\ ~arg[i].size
      BY <1>7, <3>1, FailsApi
         DEF ta_key_cmd_reset_enum, ta_key_cmd_start_enum, ta_key_cmd_next_enum
    <3>2. CASE ta_key_cmd_reset_enum(i) \/ (ta_key_cmd_next_enum(i) /\ arg[i].size)
      BY <1>5, <2>1, <3>2, UseEnumApi DEF ta_key_cmd_reset_enum, ta_key_cmd_next_enum
    <3>3. CASE ta_key_cmd_start_enum(i)
      <4>1. arg[i].obj[1] \in Storages
        BY <3>3 DEF ta_key_cmd_start_enum, Local, Control, Named
      <4>2. QED
        BY <1>5, <2>1, <3>3, <4>1, UseEnumApi DEF ta_key_cmd_start_enum
    <3>4. QED
      BY <1>7, <3>1, <3>2, <3>3 DEF ta_key_cmd_next_enum
  <2>3. CASE e \notin OpenEnums(i) /\ Dies(i)
    BY <1>0, <1>1, <1>5, <2>1, <2>2, <2>3, PanicStep DEF Dies
  <2>4. CASE Same(i) /\ ret'[i].res # "TARGET_DEAD"
    <3>1. pc'[i] = "return"
      BY <1>1, <2>4
    <3>2. Control(i)' /\ Temporaries(i)'
      BY <1>0, <1>5, <2>1, <2>4, <3>1 DEF Local, Control, Temporaries, clientVars
    <3>3. hpc[i] # "enum_free"
      BY <1>5, <2>1 DEF Local, Control
    <3>4. Quiet(i)
      BY <1>0, <1>3, <1>5, <2>1, <2>4, <3>1, <3>3
         DEF Quiet, Opened, GivenUp, JustAllocated, JustFreed
    <3>5. QED
      BY <1>2, <2>2, <3>2, <3>4, QuietLocal
  <2>5. QED
    BY <2>2, <2>3, <2>4
<1>8. QED
  BY <1>4, <1>6, <1>7

\* Every step of the TA.
LEMMA TaStepKeeps ==
    ASSUME TypeInv, NEW i \in Instances, Local(i), TaStep(i), ClientWaits
    PROVE  StepFrame(i) /\ Local(i)'
BY GenerateStep, ListStep, OpenStep, KeyStep, EnumStep DEF TaStep

-----------------------------------------------------------------------------
(***************************************************************************)
(* The steps of a client.                                                  *)
(***************************************************************************)

\* What a step of client i leaves alone, with the types of what it changes.  The
\* lists of keyEnumObjectList are not part of Local.
ClientFrame(i) ==
    /\ UNCHANGED <<store, locals>>
    /\ \A h \in HandleIds : handles'[i][h] \in {handles[i][h], NULL}
    /\ handles' \in [Instances -> [HandleIds -> KeyHandles \cup {NULL}]]
    /\ enums' \in [Instances -> [EnumIds -> EnumRecords \cup {NULL}]]
    /\ ret' \in [Instances -> [res : Results, val : Values]]
    /\ pc' \in [Instances -> Labels]
    /\ arg' \in [Instances -> Args]
    /\ sess' \in [Instances -> {"closed", "open", "dead"}]
    /\ hpc' \in [Instances -> HLabels]
    /\ held' \in [Instances -> [HandleIds -> HeldRecords \cup {NULL}]]
    /\ eheld' \in [Instances -> SUBSET EnumIds]
    /\ lost' \in [Instances -> SUBSET EnumIds]
    /\ enumHandle' \in [Instances -> EnumIds \cup {NULL}]
    /\ \A j \in Instances \ {i} :
        /\ handles'[j] = handles[j] /\ enums'[j] = enums[j] /\ ret'[j] = ret[j]
        /\ pc'[j] = pc[j] /\ arg'[j] = arg[j] /\ sess'[j] = sess[j] /\ hpc'[j] = hpc[j]
        /\ held'[j] = held[j] /\ eheld'[j] = eheld[j] /\ lost'[j] = lost[j]
        /\ enumHandle'[j] = enumHandle[j]

\* Such a step keeps the other instances, and the types when those of the lists are kept.
LEMMA ClientFrameKeeps ==
    ASSUME TypeInv, NEW i \in Instances, ClientFrame(i)
    PROVE  /\ \A j \in Instances \ {i} : Mine(j)' = Mine(j)
           /\ /\ list' \in [Instances -> Seq(Values)]
              /\ ended' \in [Instances -> Results \cup {NULL}]
              /\ generates' \in Nat
              => TypeInv'
<1>1. \A j \in Instances \ {i} : Mine(j)' = Mine(j)
  BY DEF ClientFrame, Mine, locals, OpenEnums
<1>2. ASSUME list' \in [Instances -> Seq(Values)], ended' \in [Instances -> Results \cup {NULL}],
             generates' \in Nat
      PROVE  TypeInv'
  BY <1>2 DEF ClientFrame, TypeInv, locals
<1>3. QED
  BY <1>1, <1>2

\* TEEC_InvokeCommand starts the command, or answers for an instance that is dead.
LEMMA Invokes ==
    ASSUME TypeInv, NEW i \in Instances, NEW params \in Args, params.cmd \in Labels,
           TEEC_InvokeCommand(i, params)
    PROVE  /\ UNCHANGED <<store, handles, enums>>
           /\ ret' \in [Instances -> [res : Results, val : Values]]
           /\ pc' \in [Instances -> Labels]
           /\ arg' \in [Instances -> Args] /\ arg'[i] = params
           /\ \A j \in Instances \ {i} : ret'[j] = ret[j] /\ pc'[j] = pc[j] /\ arg'[j] = arg[j]
           /\ sess[i] = "open" => pc'[i] = params.cmd /\ ret'[i].res = "SUCCESS"
           /\ sess[i] # "open" => pc'[i] = "return" /\ ret'[i].res = "TARGET_DEAD"
<1>1. UNCHANGED <<store, handles, enums>>
  BY DEF TEEC_InvokeCommand
<1>2. CASE sess[i] = "open"
  <2>1. Returns(i, "SUCCESS", NULL) /\ Goto(i, params.cmd) /\ arg' = [arg EXCEPT ![i] = params]
    BY <1>2 DEF TEEC_InvokeCommand, TA_InvokeCommandEntryPoint, Returns, Success
  <2>2. QED
    BY <1>1, <1>2, <2>1, ReturnsFrame DEF Goto, TypeInv, Results, Values
<1>3. CASE sess[i] # "open"
  <2>1. /\ Returns(i, "TARGET_DEAD", NULL) /\ Goto(i, "return")
        /\ arg' = [arg EXCEPT ![i] = params]
    BY <1>3 DEF TEEC_InvokeCommand
  <2>2. QED
    BY <1>1, <1>3, <2>1, ReturnsFrame DEF Goto, TypeInv, Results, Values, Labels
<1>4. QED
  BY <1>2, <1>3

\* What a client passes: a disciplined one only what it holds.
Honest(i, params) ==
    /\ params \in Args
    /\ params.cmd \in Commands \ {"none"}
    /\ params.cmd \in {"generate", "list", "open", "start_enum"} => params.obj \in Named
    /\ params.cmd \in OnHandleLabels =>
        params.h \in HandleIds /\ (i \in Misusers \/ held[i][params.h] # NULL)
    /\ params.cmd = "close_and_delete" => i \in Misusers \/ "META" \in held[i][params.h].flags
    /\ params.cmd \in OnEnumLabels =>
        params.h \in EnumIds /\ (i \in Misusers \/ params.h \in eheld[i])

\* Between calls nothing is in hand.
LEMMA IdleKnown ==
    ASSUME TypeInv, NEW i \in Instances, Local(i), pc[i] = "idle"
    PROVE  /\ oe[i] = NULL /\ enumHandle[i] = NULL
           /\ transient_key[i] = NULL /\ ~keyFileName[i]
           /\ OpenEnums(i) = eheld[i] \cup lost[i]
           /\ \A h \in HandleIds : Agree(i, h)
<1>1. /\ oe[i] = NULL /\ enumHandle[i] = NULL
      /\ transient_key[i] = NULL /\ ~keyFileName[i]
  BY DEF Local, Temporaries, Enumerators, Control
<1>2. ~JustAllocated(i) /\ ~JustFreed(i) /\ ~Opened(i) /\ ~GivenUp(i)
  BY DEF JustAllocated, JustFreed, Opened, GivenUp
<1>3. InHand(i) = {}
  BY <1>1, <1>2 DEF InHand
<1>4. QED
  BY <1>1, <1>2, <1>3 DEF Local, Enumerators, HandlesKnown

\* A client calls a function that sends one command.
LEMMA SendKeeps ==
    ASSUME TypeInv, NEW i \in Instances, Local(i), NEW params, Honest(i, params), Send(i, params)
    PROVE  ClientFrame(i) /\ Local(i)' /\ UNCHANGED <<list, ended>>
<1> USE DEF GenerateLabels, ListLabels, OpenLabels, OnHandleLabels, OnEnumLabels
<1>1. /\ hpc[i] = "idle" /\ sess[i] # "closed" /\ pc[i] = "idle" /\ hpc'[i] = "call"
      /\ hpc' \in [Instances -> HLabels] /\ \A j \in Instances \ {i} : hpc'[j] = hpc[j]
      /\ UNCHANGED <<sess, held, eheld, locals, listVars>>
      /\ TEEC_InvokeCommand(i, params)
  BY DEF Send, Call, Idle, HGoto, TypeInv, Local, Control, HLabels
<1>2. params \in Args /\ params.cmd \in Labels
  BY DEF Honest, Commands, Labels, CmdLabels
<1>3. /\ UNCHANGED <<store, handles, enums>>
      /\ ret' \in [Instances -> [res : Results, val : Values]]
      /\ pc' \in [Instances -> Labels]
      /\ arg' \in [Instances -> Args] /\ arg'[i] = params
      /\ \A j \in Instances \ {i} : ret'[j] = ret[j] /\ pc'[j] = pc[j] /\ arg'[j] = arg[j]
      /\ sess[i] = "open" => pc'[i] = params.cmd /\ ret'[i].res = "SUCCESS"
      /\ sess[i] # "open" => pc'[i] = "return" /\ ret'[i].res = "TARGET_DEAD"
  BY <1>1, <1>2, Invokes
<1>4. ClientFrame(i) /\ UNCHANGED <<list, ended>>
  BY <1>1, <1>3 DEF ClientFrame, TypeInv, listVars
<1>5. /\ oe[i] = NULL /\ enumHandle[i] = NULL
      /\ transient_key[i] = NULL /\ ~keyFileName[i]
      /\ OpenEnums(i) = eheld[i] \cup lost[i]
      /\ \A h \in HandleIds : Agree(i, h)
  BY <1>1, IdleKnown
<1>6. pc'[i] = "return" => ret'[i].res = "TARGET_DEAD"
  BY <1>3 DEF Honest, Commands
<1>7. Control(i)' /\ Temporaries(i)'
  BY <1>1, <1>3, <1>5, <1>6 DEF Local, Control, Temporaries, Honest, Commands, locals, TypeInv
<1>8. /\ ~JustAllocated(i)' /\ ~JustFreed(i)' /\ ~Opened(i)' /\ ~GivenUp(i)'
      /\ pc'[i] \notin {"panic", "idle"}
  BY <1>3, <1>6 DEF JustAllocated, JustFreed, Opened, GivenUp, Honest, Commands
<1>9. Enumerators(i)'
  <2>1. InHand(i)' = {}
    BY <1>1, <1>5, <1>8 DEF InHand, listVars, locals
  <2>2. OpenEnums(i)' = OpenEnums(i)
    BY <1>3 DEF OpenEnums
  <2>3. pc'[i] = "return" => sess'[i] = "dead"
    BY <1>1, <1>3 DEF TypeInv, Honest, Commands
  <2>4. QED
    BY <1>1, <1>5, <1>8, <2>1, <2>2, <2>3 DEF Local, Enumerators, listVars
<1>10. HandlesKnown(i)'
  BY <1>1, <1>3, <1>5, <1>8 DEF Local, HandlesKnown, Agree
<1>11. i \in Instances \ Misusers => Disciplined(i)'
  <2> SUFFICES ASSUME i \notin Misusers PROVE Disciplined(i)'
    OBVIOUS
  <2>1. sess[i] = "open"
    BY <1>1 DEF Local, Disciplined, TypeInv
  <2>2. params.cmd \in OnHandleLabels => /\ handles[i][params.h] # NULL
                                         /\ handles[i][params.h].flags = held[i][params.h].flags
    BY <1>5 DEF Honest, Agree
  <2>3. params.cmd \in OnHandleLabels => params.h \in OpenHandles(i)'
    BY <1>3, <2>2 DEF Honest, OpenHandles
  <2>4. params.cmd \in OnEnumLabels => params.h \in OpenEnums(i)'
    BY <1>3, <1>5 DEF Honest, OpenEnums
  <2>5. QED
    BY <1>1, <1>3, <1>8, <2>1, <2>2, <2>3, <2>4 DEF Disciplined, Honest
<1>12. QED
  BY <1>4, <1>7, <1>9, <1>10, <1>11 DEF Local

\* Every function of the library that sends one command passes what its client may pass.
LEMMA FunctionKeeps ==
    ASSUME TypeInv, NEW i \in Instances, Local(i),
           \/ keyGenerate(i) \/ keyList(i) \/ keyOpen(i) \/ keyClose(i) \/ keyCloseAndDelete(i)
           \/ keyGetObjectBufferAttribute(i) \/ keyGetObjectValueAttribute(i)
           \/ keyAllocEnum(i) \/ keyFreeEnum(i) \/ keyResetEnum(i)
           \/ keyStartEnum(i) \/ keyNextEnum(i)
    PROVE  ClientFrame(i) /\ Local(i)' /\ UNCHANGED <<list, ended>> /\ generates' \in Nat
<1>1. generates' \in Nat
  <2>1. generates' = generates \/ generates' = generates + 1
    BY DEF keyGenerate, keyList, keyOpen, keyClose, keyCloseAndDelete, keyGetObjectBufferAttribute,
       keyGetObjectValueAttribute, keyAllocEnum, keyFreeEnum, keyResetEnum, keyStartEnum,
       keyNextEnum, OnHandle
  <2>2. QED
    BY <2>1 DEF TypeInv
<1> USE DEF Params, NoArg, Honest, Args, Commands, OnHandleLabels, OnEnumLabels
<1>2. CASE keyGenerate(i)
  <2>1. PICK obj \in Named, flags \in FlagChoices, size \in BOOLEAN :
          Send(i, [Params("generate") EXCEPT !.obj = obj, !.flags = flags, !.size = size])
    BY <1>2 DEF keyGenerate
  <2>2. Honest(i, [Params("generate") EXCEPT !.obj = obj, !.flags = flags, !.size = size])
    BY ClientAssumption
  <2>3. QED
    BY <1>1, <2>1, <2>2, SendKeeps
<1>3. CASE keyOpen(i)
  <2>1. PICK obj \in Named, flags \in FlagChoices :
          Send(i, [Params("open") EXCEPT !.obj = obj, !.flags = flags])
    BY <1>3 DEF keyOpen
  <2>2. Honest(i, [Params("open") EXCEPT !.obj = obj, !.flags = flags])
    BY ClientAssumption
  <2>3. QED
    BY <1>1, <2>1, <2>2, SendKeeps
<1>4. CASE keyList(i)
  <2>1. PICK s \in Storages : Send(i, [Params("list") EXCEPT !.obj = <<s, NULL>>])
    BY <1>4 DEF keyList
  <2>2. Honest(i, [Params("list") EXCEPT !.obj = <<s, NULL>>])
    BY DEF Named
  <2>3. QED
    BY <1>1, <2>1, <2>2, SendKeeps
<1>5. ASSUME NEW cmd \in {"close", "close_and_delete", "buffer_attribute", "value_attribute"},
             NEW hs, OnHandle(i, cmd, hs), hs \subseteq Passed(i),
             cmd = "close_and_delete" => hs \subseteq Deletable(i)
      PROVE  ClientFrame(i) /\ Local(i)' /\ UNCHANGED <<list, ended>>
  <2>1. PICK h \in hs : Send(i, [Params(cmd) EXCEPT !.h = h])
    BY <1>5 DEF OnHandle
  <2>2. h \in HandleIds /\ (i \in Misusers \/ held[i][h] # NULL)
    BY <1>5 DEF Passed
  <2>3. cmd = "close_and_delete" => i \in Misusers \/ "META" \in held[i][h].flags
    BY <1>5 DEF Deletable
  <2>4. Honest(i, [Params(cmd) EXCEPT !.h = h])
    BY <1>5, <2>2, <2>3
  <2>5. QED
    BY <2>1, <2>4, SendKeeps
<1>6. CASE keyClose(i) \/ keyGetObjectBufferAttribute(i) \/ keyGetObjectValueAttribute(i)
  BY <1>1, <1>5, <1>6 DEF keyClose, keyGetObjectBufferAttribute, keyGetObjectValueAttribute
<1>7. CASE keyCloseAndDelete(i)
  <2>1. Deletable(i) \subseteq Passed(i)
    BY DEF Deletable, Passed
  <2>2. QED
    BY <1>1, <1>5, <1>7, <2>1 DEF keyCloseAndDelete
<1>8. \A e \in PassedEnums(i) : e \in EnumIds /\ (i \in Misusers \/ e \in eheld[i])
  BY DEF PassedEnums, TypeInv
<1>9. CASE keyFreeEnum(i) \/ keyResetEnum(i)
  <2>1. PICK cmd \in {"free_enum", "reset_enum"}, e \in PassedEnums(i) :
          Send(i, [Params(cmd) EXCEPT !.h = e])
    BY <1>9 DEF keyFreeEnum, keyResetEnum, OnHandle
  <2>2. Honest(i, [Params(cmd) EXCEPT !.h = e])
    BY <1>8
  <2>3. QED
    BY <1>1, <2>1, <2>2, SendKeeps
<1>10. CASE keyNextEnum(i)
  <2>1. PICK e \in PassedEnums(i), size \in BOOLEAN :
          Send(i, [Params("next_enum") EXCEPT !.h = e, !.size = size])
    BY <1>10 DEF keyNextEnum
  <2>2. Honest(i, [Params("next_enum") EXCEPT !.h = e, !.size = size])
    BY <1>8
  <2>3. QED
    BY <1>1, <2>1, <2>2, SendKeeps
<1>11. CASE keyStartEnum(i)
  <2>1. PICK e \in PassedEnums(i), s \in Storages :
          Send(i, [Params("start_enum") EXCEPT !.h = e, !.obj = <<s, NULL>>])
    BY <1>11 DEF keyStartEnum
  <2>2. Honest(i, [Params("start_enum") EXCEPT !.h = e, !.obj = <<s, NULL>>])
    BY <1>8 DEF Named
  <2>3. QED
    BY <1>1, <2>1, <2>2, SendKeeps
<1>12. CASE keyAllocEnum(i)
  <2>1. Honest(i, Params("alloc_enum"))
    OBVIOUS
  <2>2. QED
    BY <1>1, <1>12, <2>1, SendKeeps DEF keyAllocEnum
<1>13. QED
  BY <1>2, <1>3, <1>4, <1>6, <1>7, <1>9, <1>10, <1>11, <1>12

\* Opening and closing a session.
LEMMA SessionKeeps ==
    ASSUME TypeInv, NEW i \in Instances, Local(i), Open(i) \/ Close(i)
    PROVE  ClientFrame(i) /\ Local(i)' /\ UNCHANGED <<list, ended, generates>>
<1> USE DEF GenerateLabels, ListLabels, OpenLabels, OnHandleLabels, OnEnumLabels
<1>1. CASE Open(i)
  <2>1. /\ UNCHANGED <<teeVars, callVars, locals, hpc, held, eheld, listVars, generates>>
        /\ sess[i] = "closed" /\ sess'[i] = "open"
        /\ sess' \in [Instances -> {"closed", "open", "dead"}]
        /\ \A j \in Instances \ {i} : sess'[j] = sess[j]
    BY <1>1 DEF Open, openSession, TypeInv
  <2>2. ClientFrame(i) /\ UNCHANGED <<list, ended, generates>>
    BY <2>1 DEF ClientFrame, teeVars, callVars, listVars, TypeInv
  <2>3. hpc[i] = "idle" /\ pc[i] = "idle"
    BY <2>1 DEF Local, Control
  <2>4. Control(i)' /\ Temporaries(i)'
    BY <2>1, <2>3 DEF Local, Control, Temporaries, teeVars, callVars, locals
  <2>5. OpenEnums(i)' = OpenEnums(i)
    BY <2>1 DEF OpenEnums, teeVars
  <2>6. Enumerators(i)'
    BY <2>1, <2>3, <2>5 DEF Local, Enumerators, InHand, JustAllocated, JustFreed,
       teeVars, callVars, locals, listVars
  <2>7. HandlesKnown(i)'
    BY <2>1, <2>3 DEF Local, HandlesKnown, Agree, Opened, GivenUp, teeVars, callVars
  <2>8. i \in Instances \ Misusers => Disciplined(i)'
    BY <2>1, <2>3 DEF Disciplined, callVars
  <2>9. QED
    BY <2>2, <2>4, <2>6, <2>7, <2>8 DEF Local
<1>2. CASE Close(i)
  <2>1. /\ UNCHANGED <<store, ret, callVars, locals, hpc, enumHandle, list, ended, generates>>
        /\ hpc[i] = "idle" /\ sess'[i] = "closed"
        /\ sess' \in [Instances -> {"closed", "open", "dead"}]
        /\ \A j \in Instances \ {i} : sess'[j] = sess[j]
    BY <1>2 DEF Close, closeSession, Idle, TypeInv
  <2>2. /\ handles' \in [Instances -> [HandleIds -> KeyHandles \cup {NULL}]]
        /\ enums' \in [Instances -> [EnumIds -> EnumRecords \cup {NULL}]]
        /\ \A h \in HandleIds : handles'[i][h] = NULL
        /\ \A e \in EnumIds : enums'[i][e] = NULL
        /\ \A j \in Instances \ {i} : handles'[j] = handles[j] /\ enums'[j] = enums[j]
    BY <1>2 DEF Close, closeSession, TypeInv
  <2>3. /\ held' \in [Instances -> [HandleIds -> HeldRecords \cup {NULL}]]
        /\ \A h \in HandleIds : held'[i][h] = NULL
        /\ eheld' \in [Instances -> SUBSET EnumIds] /\ eheld'[i] = {}
        /\ lost' \in [Instances -> SUBSET EnumIds] /\ lost'[i] = {}
        /\ \A j \in Instances \ {i} : held'[j] = held[j] /\ eheld'[j] = eheld[j] /\ lost'[j] = lost[j]
    BY <1>2 DEF Close, closeSession, NothingHeld, TypeInv
  <2>4. ClientFrame(i)
    BY <2>1, <2>2, <2>3 DEF ClientFrame, callVars, TypeInv
  <2>5. pc[i] = "idle"
    BY <2>1 DEF Local, Control
  <2>6. oe[i] = NULL /\ enumHandle[i] = NULL
    BY <2>5, IdleKnown
  <2>7. Control(i)' /\ Temporaries(i)'
    BY <2>1, <2>5 DEF Local, Control, Temporaries, callVars, locals
  <2>8. InHand(i)' = {} /\ ~JustAllocated(i)' /\ ~JustFreed(i)'
    BY <2>1, <2>5, <2>6 DEF InHand, JustAllocated, JustFreed, callVars, locals
  <2>9. OpenEnums(i)' = {}
    BY <2>2 DEF OpenEnums
  <2>10. Enumerators(i)'
    BY <2>1, <2>3, <2>5, <2>6, <2>8, <2>9 DEF Enumerators, callVars
  <2>11. HandlesKnown(i)'
    BY <2>1, <2>2, <2>3, <2>5 DEF HandlesKnown, Agree, Opened, GivenUp, callVars
  <2>12. i \in Instances \ Misusers => Disciplined(i)'
    BY <2>1, <2>5 DEF Disciplined, callVars
  <2>13. QED
    BY <2>1, <2>4, <2>7, <2>10, <2>11, <2>12 DEF Local
<1>3. QED
  BY <1>1, <1>2

\* The end of a library function.
LEMMA BackFrame ==
    ASSUME TypeInv, NEW i \in Instances, NEW label \in HLabels, Back(i, label)
    PROVE  /\ UNCHANGED <<store, handles, enums>>
           /\ ret' \in [Instances -> [res : Results, val : Values]]
           /\ pc' \in [Instances -> Labels] /\ pc'[i] = "idle"
           /\ arg' \in [Instances -> Args]
           /\ hpc' \in [Instances -> HLabels] /\ hpc'[i] = label
           /\ \A j \in Instances \ {i} : /\ ret'[j] = ret[j] /\ pc'[j] = pc[j]
                                         /\ arg'[j] = arg[j] /\ hpc'[j] = hpc[j]
<1>1. NoArg \in Args
  BY DEF NoArg, Args, Commands
<1>2. Returns(i, "SUCCESS", NULL)
  BY DEF Back, Returns, Success
<1>3. /\ ret' \in [Instances -> [res : Results, val : Values]]
      /\ \A j \in Instances \ {i} : ret'[j] = ret[j]
  BY <1>2, ReturnsFrame DEF Results, Values
<1>4. QED
  BY <1>1, <1>3 DEF Back, HGoto, Goto, TypeInv, Labels

\* A step after which the client is between calls and everything is accounted for.
LEMMA SettledLocal ==
    ASSUME NEW i \in Instances, pc'[i] = "idle", hpc'[i] \in {"idle", "listed"},
           sess'[i] # "open" => hpc'[i] = "idle",
           transient_key'[i] = NULL, ~keyFileName'[i], oe'[i] = NULL, enumHandle'[i] = NULL,
           sess'[i] # "open" => /\ eheld'[i] = {} /\ lost'[i] = {}
                                /\ \A h \in HandleIds : held'[i][h] = NULL,
           OpenEnums(i)' = eheld'[i] \cup lost'[i],
           \A h \in HandleIds : Agree(i, h)',
           i \in Misusers \/ sess'[i] # "dead"
    PROVE  Local(i)'
<1> USE DEF GenerateLabels, ListLabels, OpenLabels, OnHandleLabels, OnEnumLabels
<1>1. Control(i)' /\ Temporaries(i)'
  BY DEF Control, Temporaries
<1>2. ~JustAllocated(i)' /\ ~JustFreed(i)' /\ ~Opened(i)' /\ ~GivenUp(i)'
  BY DEF JustAllocated, JustFreed, Opened, GivenUp
<1>3. InHand(i)' = {}
  BY <1>2 DEF InHand
<1>4. Enumerators(i)'
  BY <1>2, <1>3 DEF Enumerators
<1>5. HandlesKnown(i)'
  BY <1>2 DEF HandlesKnown
<1>6. i \in Instances \ Misusers => Disciplined(i)'
  BY DEF Disciplined
<1>7. QED
  BY <1>1, <1>4, <1>5, <1>6 DEF Local

\* Nothing of the TA is left when a command is answered.
LEMMA AnsweredClean ==
    ASSUME TypeInv, NEW i \in Instances, Local(i), pc[i] \in {"return", "panic"}
    PROVE  transient_key[i] = NULL /\ ~keyFileName[i] /\ oe[i] = NULL
BY DEF Local, Temporaries

\* A call of free_enum that is answered freed the enumerator, unless the instance is
\* dead, and then nothing is lost.
LEMMA FreeEnumReturns ==
    ASSUME TypeInv, NEW i \in Instances, Local(i), pc[i] = "return", arg[i].cmd = "free_enum",
           ret[i].res # "SUCCESS"
    PROVE  lost[i] = {}
BY DEF Local, Enumerators

\* What the client learns brings its handles and enumerators up to date.
LEMMA ReturnedKeeps ==
    ASSUME TypeInv, NEW i \in Instances, Local(i), Returned(i)
    PROVE  ClientFrame(i) /\ Local(i)' /\ UNCHANGED <<list, ended, generates>>
<1>1. /\ hpc[i] = "call" /\ pc[i] \in {"return", "panic"}
      /\ Learn(i) /\ Back(i, "idle")
      /\ UNCHANGED <<locals, enumHandle, list, ended, generates>>
  BY DEF Returned, CallReturns, Answered
<1>2. /\ UNCHANGED <<store, handles, enums>>
      /\ ret' \in [Instances -> [res : Results, val : Values]]
      /\ pc' \in [Instances -> Labels] /\ pc'[i] = "idle"
      /\ arg' \in [Instances -> Args]
      /\ hpc' \in [Instances -> HLabels] /\ hpc'[i] = "idle"
      /\ \A j \in Instances \ {i} : /\ ret'[j] = ret[j] /\ pc'[j] = pc[j]
                                    /\ arg'[j] = arg[j] /\ hpc'[j] = hpc[j]
  BY <1>1, BackFrame DEF HLabels
<1>3. transient_key[i] = NULL /\ ~keyFileName[i] /\ oe[i] = NULL /\ enumHandle[i] = NULL
  BY <1>1, AnsweredClean DEF Local, Enumerators
<1> DEFINE a == arg[i]
           r == ret[i]
<1>4. a.cmd \in Commands /\ (pc[i] = "panic" => r.res = "TARGET_DEAD")
  BY DEF TypeInv, Args, Local, Control
<1>5. sess' = [sess EXCEPT ![i] = IF pc[i] = "panic" THEN "dead" ELSE @]
  BY <1>1 DEF Learn
<1>6. held' = [held EXCEPT ![i] =
                 IF pc[i] = "panic" THEN NothingHeld
                 ELSE IF r.res = "SUCCESS" /\ a.cmd \in {"generate", "open"}
                      THEN [held[i] EXCEPT ![r.val] = [obj |-> a.obj, flags |-> a.flags]]
                 ELSE IF r.res = "SUCCESS" /\ a.cmd \in {"close", "close_and_delete"}
                      THEN [held[i] EXCEPT ![a.h] = NULL]
                 ELSE held[i]]
  BY <1>1, <1>4 DEF Learn, Commands, OnHandleLabels, OnEnumLabels
<1>7. eheld' = [eheld EXCEPT ![i] =
                  IF pc[i] = "panic" THEN {}
                  ELSE IF r.res = "SUCCESS" /\ a.cmd = "alloc_enum" THEN eheld[i] \cup {r.val}
                  ELSE IF r.res = "SUCCESS" /\ a.cmd = "free_enum" THEN eheld[i] \ {a.h}
                  ELSE eheld[i]]
  BY <1>1, <1>4 DEF Learn
<1>8. lost' = [lost EXCEPT ![i] =
                 IF pc[i] = "panic" THEN {}
                 ELSE IF a.cmd = "free_enum" THEN lost[i] \ {a.h} ELSE lost[i]]
  BY DEF Returned
<1>9. /\ sess' \in [Instances -> {"closed", "open", "dead"}]
      /\ eheld' \in [Instances -> SUBSET EnumIds] /\ lost' \in [Instances -> SUBSET EnumIds]
      /\ \A j \in Instances \ {i} : sess'[j] = sess[j] /\ eheld'[j] = eheld[j] /\ lost'[j] = lost[j]
  <2>1. r.res = "SUCCESS" /\ a.cmd = "alloc_enum" /\ pc[i] # "panic" => r.val \in EnumIds
    BY <1>1 DEF Local, Enumerators, JustAllocated
  <2>2. QED
    BY <1>5, <1>7, <1>8, <2>1 DEF TypeInv
<1>10. /\ held' \in [Instances -> [HandleIds -> HeldRecords \cup {NULL}]]
       /\ \A j \in Instances \ {i} : held'[j] = held[j]
       /\ \A h \in HandleIds : Agree(i, h)'
  <2>1. CASE pc[i] = "panic"
    <3>1. /\ held' = [held EXCEPT ![i] = NothingHeld]
          /\ \A h \in HandleIds : handles[i][h] = NULL
      BY <1>6, <2>1 DEF Local, HandlesKnown
    <3>2. QED
      BY <1>2, <3>1 DEF NothingHeld, Agree, TypeInv
  <2>2. CASE pc[i] = "return" /\ r.res = "SUCCESS" /\ a.cmd \in {"generate", "open"}
    <3>1. Opened(i) /\ ~GivenUp(i)
      BY <2>2 DEF Opened, GivenUp
    <3>2. /\ r.val \in HandleIds /\ handles[i][r.val] # NULL
          /\ handles[i][r.val].obj = a.obj /\ handles[i][r.val].flags = a.flags
          /\ \A h \in HandleIds \ {r.val} : Agree(i, h)
      BY <2>2, <3>1 DEF Local, HandlesKnown
    <3>3. [obj |-> a.obj, flags |-> a.flags] \in HeldRecords
      BY <3>2 DEF HeldRecords, TypeInv, KeyHandles
    <3>4. held' = [held EXCEPT ![i] = [held[i] EXCEPT ![r.val] = [obj |-> a.obj, flags |-> a.flags]]]
      BY <1>6, <2>2
    <3>5. /\ held' \in [Instances -> [HandleIds -> HeldRecords \cup {NULL}]]
          /\ \A j \in Instances \ {i} : held'[j] = held[j]
          /\ held'[i][r.val] = [obj |-> a.obj, flags |-> a.flags]
          /\ \A h \in HandleIds \ {r.val} : held'[i][h] = held[i][h]
      BY <3>2, <3>3, <3>4 DEF TypeInv
    <3>6. held'[i][r.val] # NULL
      BY <3>3, <3>5, StorageAssumption
    <3>7. \A h \in HandleIds \ {r.val} : Agree(i, h)'
      BY <1>2, <3>2, <3>5 DEF Agree
    <3>8. ASSUME NEW h \in HandleIds, h = r.val
          PROVE  Agree(i, h)'
      <4>1. /\ handles'[i][h] = handles[i][h] /\ handles[i][h] # NULL
            /\ handles[i][h].obj = a.obj /\ handles[i][h].flags = a.flags
            /\ held'[i][h] # NULL
            /\ held'[i][h].obj = a.obj /\ held'[i][h].flags = a.flags
        BY <1>2, <3>2, <3>5, <3>6, <3>8
      <4>2. QED
        BY <4>1 DEF Agree
    <3>9. \A h \in HandleIds : Agree(i, h)'
      BY <3>7, <3>8
    <3>10. QED
      BY <3>5, <3>9
  <2>3. CASE pc[i] = "return" /\ r.res = "SUCCESS" /\ a.cmd \in {"close", "close_and_delete"}
    <3>1. GivenUp(i) /\ ~Opened(i)
      BY <2>3 DEF Opened, GivenUp
    <3>2. /\ a.h \in HandleIds /\ handles[i][a.h] = NULL
          /\ \A h \in HandleIds \ {a.h} : Agree(i, h)
      BY <2>3, <3>1 DEF Local, HandlesKnown
    <3>3. held' = [held EXCEPT ![i] = [held[i] EXCEPT ![a.h] = NULL]]
      BY <1>6, <2>3
    <3>4. QED
      BY <1>2, <3>2, <3>3 DEF Agree, TypeInv
  <2>4. CASE /\ pc[i] = "return"
             /\ ~(r.res = "SUCCESS" /\ a.cmd \in {"generate", "open", "close", "close_and_delete"})
    <3>1. ~Opened(i) /\ ~GivenUp(i)
      BY <2>4 DEF Opened, GivenUp
    <3>2. \A h \in HandleIds : Agree(i, h)
      BY <2>4, <3>1 DEF Local, HandlesKnown
    <3>3. held' = held
      BY <1>6, <2>4 DEF TypeInv
    <3>4. QED
      BY <1>2, <3>2, <3>3 DEF Agree, TypeInv
  <2>5. QED
    BY <1>1, <2>1, <2>2, <2>3, <2>4
<1>11. OpenEnums(i)' = eheld'[i] \cup lost'[i]
  <2>1. OpenEnums(i)' = OpenEnums(i)
    BY <1>2 DEF OpenEnums
  <2>2. CASE pc[i] = "panic"
    <3>1. OpenEnums(i) = {} /\ eheld'[i] = {} /\ lost'[i] = {}
      BY <1>7, <1>8, <2>2 DEF Local, Enumerators, TypeInv
    <3>2. QED
      BY <2>1, <3>1
  <2>3. CASE pc[i] # "panic"
    <3>1. OpenEnums(i) = (eheld[i] \cup lost[i] \cup {e \in EnumIds : JustAllocated(i) /\ e = ret[i].val})
                            \ {e \in EnumIds : JustFreed(i) /\ e = arg[i].h}
      BY <1>3, <2>3 DEF Local, Enumerators, InHand
    <3>2. a.cmd = "free_enum" /\ r.res # "SUCCESS" => lost[i] = {}
      BY <1>1, <2>3, FreeEnumReturns
    <3>3. CASE JustAllocated(i)
      <4>1. r.val \in EnumIds /\ ~JustFreed(i)
        BY <3>3 DEF Local, Enumerators, JustAllocated, JustFreed
      <4>2. eheld'[i] = eheld[i] \cup {r.val} /\ lost'[i] = lost[i]
        BY <1>7, <1>8, <2>3, <3>3 DEF JustAllocated, TypeInv
      <4>3. QED
        BY <2>1, <3>1, <3>3, <4>1, <4>2
    <3>4. CASE JustFreed(i)
      <4>1. ~JustAllocated(i)
        BY <3>4 DEF JustAllocated, JustFreed
      <4>2. eheld'[i] = eheld[i] \ {a.h} /\ lost'[i] = lost[i] \ {a.h}
        BY <1>7, <1>8, <2>3, <3>4 DEF JustFreed, TypeInv
      <4>3. eheld[i] \subseteq EnumIds /\ lost[i] \subseteq EnumIds
        BY DEF TypeInv
      <4>4. QED
        BY <2>1, <3>1, <3>4, <4>1, <4>2, <4>3
    <3>5. CASE ~JustAllocated(i) /\ ~JustFreed(i)
      <4>1. eheld'[i] = eheld[i] /\ lost'[i] = lost[i]
        BY <1>1, <1>7, <1>8, <2>3, <3>2, <3>5 DEF JustAllocated, JustFreed, TypeInv
      <4>2. QED
        BY <2>1, <3>1, <3>5, <4>1
    <3>6. QED
      BY <3>3, <3>4, <3>5
  <2>4. QED
    BY <2>2, <2>3
<1>12. /\ sess'[i] # "open" => /\ eheld'[i] = {} /\ lost'[i] = {}
                               /\ \A h \in HandleIds : held'[i][h] = NULL
       /\ i \in Misusers \/ sess'[i] # "dead"
  <2>1. CASE pc[i] = "panic"
    <3>1. i \in Misusers
      BY <2>1 DEF Local, Disciplined
    <3>2. eheld'[i] = {} /\ lost'[i] = {} /\ held'[i] = NothingHeld
      BY <1>6, <1>7, <1>8, <2>1 DEF TypeInv
    <3>3. QED
      BY <3>1, <3>2 DEF NothingHeld
  <2>2. CASE pc[i] = "return"
    <3>1. sess'[i] = sess[i]
      BY <1>5, <2>2 DEF TypeInv
    <3>2. i \in Misusers \/ sess'[i] # "dead"
      BY <3>1 DEF Local, Disciplined
    <3>3. ASSUME sess[i] # "open"
          PROVE  eheld'[i] = {} /\ lost'[i] = {} /\ held'[i] = held[i] /\ eheld[i] = {}
                 /\ \A h \in HandleIds : held[i][h] = NULL
      <4>1. r.res = "TARGET_DEAD" /\ eheld[i] = {} /\ lost[i] = {}
            /\ \A h \in HandleIds : held[i][h] = NULL
        BY <1>1, <2>2, <3>3 DEF Local, Control, Enumerators, HandlesKnown, TypeInv
      <4>2. QED
        BY <1>6, <1>7, <1>8, <2>2, <4>1 DEF TypeInv
    <3>4. QED
      BY <3>1, <3>2, <3>3
  <2>3. QED
    BY <1>1, <2>1, <2>2
<1>13. ClientFrame(i)
  BY <1>1, <1>2, <1>9, <1>10 DEF ClientFrame, TypeInv
<1>14. Local(i)'
  BY <1>1, <1>2, <1>3, <1>10, <1>11, <1>12, SettledLocal DEF locals
<1>15. QED
  BY <1>1, <1>13, <1>14

\* A step after which keyEnumObjectList waits for its next command.
LEMMA InvokedLocal ==
    ASSUME NEW i \in Instances, sess'[i] = "open", arg'[i].cmd = pc'[i], arg'[i].obj \in Named,
           \/ hpc'[i] = "enum_alloc" /\ pc'[i] = "alloc_enum" /\ enumHandle'[i] = NULL
           \/ /\ \/ hpc'[i] = "enum_start" /\ pc'[i] = "start_enum"
                 \/ hpc'[i] = "enum_next" /\ pc'[i] = "next_enum"
                 \/ hpc'[i] = "enum_free" /\ pc'[i] = "free_enum"
              /\ enumHandle'[i] \in EnumIds /\ arg'[i].h = enumHandle'[i],
           transient_key'[i] = NULL, ~keyFileName'[i], oe'[i] = NULL,
           enumHandle'[i] \notin eheld'[i] \cup lost'[i],
           OpenEnums(i)' = eheld'[i] \cup lost'[i] \cup ({enumHandle'[i]} \ {NULL}),
           \A h \in HandleIds : Agree(i, h)'
    PROVE  Local(i)'
<1> USE StorageAssumption DEF GenerateLabels, ListLabels, OpenLabels, OnHandleLabels, OnEnumLabels
<1>1. Control(i)' /\ Temporaries(i)'
  BY DEF Control, Temporaries
<1>2. ~JustAllocated(i)' /\ ~JustFreed(i)' /\ ~Opened(i)' /\ ~GivenUp(i)'
  BY DEF JustAllocated, JustFreed, Opened, GivenUp
<1>3. InHand(i)' = {enumHandle'[i]} \ {NULL}
  BY <1>2 DEF InHand
<1>4. Enumerators(i)'
  BY <1>2, <1>3 DEF Enumerators
<1>5. HandlesKnown(i)'
  BY <1>2 DEF HandlesKnown
<1>6. i \in Instances \ Misusers => Disciplined(i)'
  BY DEF Disciplined
<1>7. QED
  BY <1>1, <1>4, <1>5, <1>6 DEF Local

\* keyEnumObjectList starts with the allocation of an enumerator.
LEMMA EnumListKeeps ==
    ASSUME TypeInv, NEW i \in Instances, Local(i), keyEnumObjectList(i)
    PROVE  ClientFrame(i) /\ Local(i)' /\ UNCHANGED <<list, ended, generates>>
<1>1. /\ hpc[i] = "idle" /\ sess[i] # "closed" /\ pc[i] = "idle" /\ hpc'[i] = "enum_alloc"
      /\ hpc' \in [Instances -> HLabels] /\ \A j \in Instances \ {i} : hpc'[j] = hpc[j]
      /\ UNCHANGED <<sess, held, eheld, locals, listVars, generates>>
  BY DEF keyEnumObjectList, Idle, HGoto, TypeInv, Local, Control, HLabels
<1>2. PICK s \in Storages : TEEC_InvokeCommand(i, [Params("alloc_enum") EXCEPT !.obj = <<s, NULL>>])
  BY DEF keyEnumObjectList
<1> DEFINE params == [Params("alloc_enum") EXCEPT !.obj = <<s, NULL>>]
<1>3. /\ params \in Args /\ params.cmd = "alloc_enum" /\ params.cmd \in Labels /\ params.obj \in Named
  BY DEF Params, NoArg, Args, Commands, Labels, CmdLabels, Named
<1> HIDE DEF params
<1>4. /\ UNCHANGED <<store, handles, enums>>
      /\ ret' \in [Instances -> [res : Results, val : Values]]
      /\ pc' \in [Instances -> Labels]
      /\ arg' \in [Instances -> Args] /\ arg'[i] = params
      /\ \A j \in Instances \ {i} : ret'[j] = ret[j] /\ pc'[j] = pc[j] /\ arg'[j] = arg[j]
      /\ sess[i] = "open" => pc'[i] = "alloc_enum" /\ ret'[i].res = "SUCCESS"
      /\ sess[i] # "open" => pc'[i] = "return" /\ ret'[i].res = "TARGET_DEAD"
  BY <1>2, <1>3, Invokes DEF params
<1>5. ClientFrame(i) /\ UNCHANGED <<list, ended, generates>>
  BY <1>1, <1>4 DEF ClientFrame, TypeInv, listVars
<1>6. /\ oe[i] = NULL /\ enumHandle[i] = NULL
      /\ transient_key[i] = NULL /\ ~keyFileName[i]
      /\ OpenEnums(i) = eheld[i] \cup lost[i]
      /\ \A h \in HandleIds : Agree(i, h)
  BY <1>1, IdleKnown
<1>7. /\ oe'[i] = NULL /\ enumHandle'[i] = NULL
      /\ transient_key'[i] = NULL /\ ~keyFileName'[i]
      /\ OpenEnums(i)' = eheld'[i] \cup lost'[i]
      /\ NULL \notin eheld'[i] \cup lost'[i]
      /\ \A h \in HandleIds : Agree(i, h)'
  BY <1>1, <1>4, <1>6, StorageAssumption DEF locals, listVars, OpenEnums, Agree, TypeInv
<1>8. CASE sess[i] = "open"
  <2>1. Local(i)'
    BY <1>1, <1>3, <1>4, <1>7, <1>8, InvokedLocal
  <2>2. QED
    BY <1>5, <2>1
<1>9. CASE sess[i] = "dead"
  <2> USE DEF GenerateLabels, ListLabels, OpenLabels, OnHandleLabels, OnEnumLabels
  <2>1. /\ pc'[i] = "return" /\ ret'[i].res = "TARGET_DEAD" /\ sess'[i] = "dead"
        /\ arg'[i].cmd = "alloc_enum" /\ arg'[i].obj \in Named
    BY <1>1, <1>3, <1>4, <1>9
  <2>2. Control(i)' /\ Temporaries(i)'
    BY <1>1, <1>7, <2>1 DEF Control, Temporaries
  <2>3. ~JustAllocated(i)' /\ ~JustFreed(i)' /\ ~Opened(i)' /\ ~GivenUp(i)'
    BY <2>1 DEF JustAllocated, JustFreed, Opened, GivenUp
  <2>4. InHand(i)' = {}
    BY <1>7, <2>3 DEF InHand
  <2>5. Enumerators(i)'
    BY <1>1, <1>7, <1>9, <2>1, <2>3, <2>4 DEF Local, Enumerators, listVars
  <2>6. HandlesKnown(i)'
    BY <1>1, <1>7, <1>9, <2>1, <2>3 DEF Local, HandlesKnown
  <2>7. i \in Misusers
    BY <1>9 DEF Local, Disciplined
  <2>8. QED
    BY <1>5, <2>2, <2>5, <2>6, <2>7 DEF Local
<1>10. QED
  BY <1>1, <1>8, <1>9 DEF TypeInv

\* The next command of keyEnumObjectList, on an enumerator.
LEMMA EnumInvokes ==
    ASSUME TypeInv, NEW i \in Instances, Control(i), sess[i] = "open",
           NEW cmd \in OnEnumLabels, NEW e \in EnumIds, arg[i].obj \in Named,
           TEEC_InvokeCommand(i, EnumParams(i, cmd, e))
    PROVE  /\ UNCHANGED <<store, handles, enums>>
           /\ ret' \in [Instances -> [res : Results, val : Values]]
           /\ pc' \in [Instances -> Labels] /\ pc'[i] = cmd
           /\ arg' \in [Instances -> Args]
           /\ arg'[i].cmd = cmd /\ arg'[i].h = e /\ arg'[i].obj = arg[i].obj
           /\ \A j \in Instances \ {i} : ret'[j] = ret[j] /\ pc'[j] = pc[j] /\ arg'[j] = arg[j]
<1> DEFINE params == EnumParams(i, cmd, e)
<1>1. params \in Args /\ params.cmd = cmd /\ params.h = e /\ params.obj = arg[i].obj
  BY DEF EnumParams, Params, NoArg, Args, Commands, Named
<1>2. params.cmd \in Labels
  BY <1>1 DEF Labels, CmdLabels
<1> HIDE DEF params
<1>3. QED
  BY <1>1, <1>2, Invokes DEF params

\* While keyEnumObjectList runs, all else is known; it has one enumerator in hand.
LEMMA ListingKnown ==
    ASSUME TypeInv, NEW i \in Instances, Local(i), pc[i] \in {"return", "panic"},
           hpc[i] \in {"enum_alloc", "enum_start", "enum_next", "enum_free"}
    PROVE  /\ pc[i] = "return"
           /\ transient_key[i] = NULL /\ ~keyFileName[i] /\ oe[i] = NULL
           /\ arg[i].obj \in Named
           /\ \A h \in HandleIds : Agree(i, h)
           /\ hpc[i] # "enum_alloc" =>
                /\ enumHandle[i] \in EnumIds /\ sess[i] = "open"
                /\ enumHandle[i] \notin eheld[i] \cup lost[i]
                /\ hpc[i] # "enum_free" => OpenEnums(i) = eheld[i] \cup lost[i] \cup {enumHandle[i]}
                /\ hpc[i] = "enum_free" => OpenEnums(i) = eheld[i] \cup lost[i]
           /\ hpc[i] = "enum_alloc" =>
                /\ enumHandle[i] = NULL
                /\ ret[i].res = "SUCCESS" =>
                    /\ ret[i].val \in EnumIds /\ sess[i] = "open"
                    /\ ret[i].val \notin eheld[i] \cup lost[i]
                    /\ OpenEnums(i) = eheld[i] \cup lost[i] \cup {ret[i].val}
                /\ ret[i].res # "SUCCESS" => OpenEnums(i) = eheld[i] \cup lost[i]
<1>1. pc[i] = "return" /\ arg[i].obj \in Named
  BY DEF Local, Control
<1>2. transient_key[i] = NULL /\ ~keyFileName[i] /\ oe[i] = NULL
  BY <1>1, AnsweredClean
<1>3. arg[i].cmd \in {"alloc_enum", "start_enum", "next_enum", "free_enum"}
      /\ ~Opened(i) /\ ~GivenUp(i)
  BY DEF Local, Control, Opened, GivenUp
<1>4. \A h \in HandleIds : Agree(i, h)
  BY <1>1, <1>3 DEF Local, HandlesKnown
<1>5. CASE hpc[i] \in {"enum_start", "enum_next"}
  <2>1. ~JustAllocated(i) /\ ~JustFreed(i) /\ sess[i] = "open"
    BY <1>5 DEF JustAllocated, JustFreed, Local, Control, TypeInv
  <2>2. enumHandle[i] \in EnumIds /\ enumHandle[i] # NULL
    BY <1>5 DEF Local, Enumerators, TypeInv
  <2>3. InHand(i) = {enumHandle[i]}
    BY <1>2, <2>1, <2>2 DEF InHand
  <2>4. QED
    BY <1>1, <1>2, <1>4, <1>5, <2>1, <2>2, <2>3 DEF Local, Enumerators
<1>6. CASE hpc[i] = "enum_free"
  <2>1. arg[i].cmd = "free_enum" /\ ret[i].res = "SUCCESS" /\ sess[i] = "open"
        /\ enumHandle[i] \in EnumIds /\ enumHandle[i] # NULL /\ arg[i].h = enumHandle[i]
    BY <1>1, <1>6 DEF Local, Control, Enumerators, TypeInv
  <2>2. ~JustAllocated(i) /\ JustFreed(i)
    BY <1>1, <2>1 DEF JustAllocated, JustFreed
  <2>3. InHand(i) = {enumHandle[i]}
    BY <1>2, <2>1, <2>2 DEF InHand
  <2>4. /\ OpenEnums(i) = (eheld[i] \cup lost[i] \cup {enumHandle[i]}) \ {enumHandle[i]}
        /\ enumHandle[i] \notin eheld[i] \cup lost[i]
    BY <1>1, <2>1, <2>2, <2>3 DEF Local, Enumerators
  <2>5. QED
    BY <1>1, <1>2, <1>4, <1>6, <2>1, <2>4
<1>7. CASE hpc[i] = "enum_alloc"
  <2>1. ~JustFreed(i) /\ enumHandle[i] = NULL /\ arg[i].cmd = "alloc_enum"
    BY <1>7 DEF JustFreed, Local, Control, Enumerators
  <2>2. CASE ret[i].res = "SUCCESS"
    <3>1. JustAllocated(i) /\ ret[i].val \in EnumIds /\ sess[i] = "open"
      BY <1>1, <1>7, <2>1, <2>2 DEF JustAllocated, Local, Control, Enumerators, TypeInv
    <3>2. InHand(i) = {ret[i].val}
      BY <1>2, <2>1, <3>1 DEF InHand
    <3>3. QED
      BY <1>1, <1>2, <1>4, <1>7, <2>1, <2>2, <3>1, <3>2 DEF Local, Enumerators
  <2>3. CASE ret[i].res # "SUCCESS"
    <3>1. ~JustAllocated(i)
      BY <2>3 DEF JustAllocated
    <3>2. InHand(i) = {}
      BY <1>2, <2>1, <3>1 DEF InHand
    <3>3. QED
      BY <1>1, <1>2, <1>4, <1>7, <2>1, <2>3, <3>2 DEF Local, Enumerators
  <2>4. QED
    BY <2>2, <2>3
<1>8. QED
  BY <1>5, <1>6, <1>7

\* keyEnumObjectList has its enumerator and starts it, or returns.
LEMMA EnumAllocatedKeeps ==
    ASSUME TypeInv, NEW i \in Instances, Local(i), EnumAllocated(i)
    PROVE  ClientFrame(i) /\ Local(i)' /\ UNCHANGED <<list, ended, generates>>
<1>1. /\ hpc[i] = "enum_alloc" /\ pc[i] \in {"return", "panic"}
      /\ UNCHANGED <<locals, sess, held, eheld, lost, list, ended, generates>>
  BY DEF EnumAllocated, Answered
<1>2. /\ pc[i] = "return" /\ transient_key[i] = NULL /\ ~keyFileName[i] /\ oe[i] = NULL
      /\ arg[i].obj \in Named /\ enumHandle[i] = NULL
      /\ \A h \in HandleIds : Agree(i, h)
      /\ ret[i].res = "SUCCESS" => /\ ret[i].val \in EnumIds /\ sess[i] = "open"
                                   /\ ret[i].val \notin eheld[i] \cup lost[i]
                                   /\ OpenEnums(i) = eheld[i] \cup lost[i] \cup {ret[i].val}
      /\ ret[i].res # "SUCCESS" => OpenEnums(i) = eheld[i] \cup lost[i]
  BY <1>1, ListingKnown
<1>3. CASE ret[i].res = "SUCCESS"
  <2>1. PICK e \in EnumIds : e = ret[i].val
    BY <1>2, <1>3
  <2>2. /\ enumHandle' = [enumHandle EXCEPT ![i] = e]
        /\ TEEC_InvokeCommand(i, EnumParams(i, "start_enum", e))
        /\ hpc' = [hpc EXCEPT ![i] = "enum_start"]
    BY <1>3, <2>1 DEF EnumAllocated, HGoto
  <2>3. /\ UNCHANGED <<store, handles, enums>>
        /\ ret' \in [Instances -> [res : Results, val : Values]]
        /\ pc' \in [Instances -> Labels] /\ pc'[i] = "start_enum"
        /\ arg' \in [Instances -> Args]
        /\ arg'[i].cmd = "start_enum" /\ arg'[i].h = e /\ arg'[i].obj = arg[i].obj
        /\ \A j \in Instances \ {i} : ret'[j] = ret[j] /\ pc'[j] = pc[j] /\ arg'[j] = arg[j]
    BY <1>2, <1>3, <2>2, EnumInvokes DEF OnEnumLabels, Local
  <2>4. ClientFrame(i)
    BY <1>1, <2>2, <2>3 DEF ClientFrame, TypeInv, HLabels
  <2>5. /\ hpc'[i] = "enum_start" /\ enumHandle'[i] = e
        /\ transient_key'[i] = NULL /\ ~keyFileName'[i] /\ oe'[i] = NULL
        /\ e \notin eheld'[i] \cup lost'[i] /\ sess'[i] = "open"
        /\ OpenEnums(i)' = eheld'[i] \cup lost'[i] \cup {e}
        /\ \A h \in HandleIds : Agree(i, h)'
    BY <1>1, <1>2, <1>3, <2>1, <2>2, <2>3 DEF OpenEnums, Agree, locals, TypeInv
  <2>6. Local(i)'
    BY <1>2, <2>3, <2>5, InvokedLocal, StorageAssumption
  <2>7. QED
    BY <1>1, <2>4, <2>6
<1>4. CASE ret[i].res # "SUCCESS"
  <2>1. Back(i, "idle") /\ UNCHANGED enumHandle
    BY <1>4 DEF EnumAllocated
  <2>2. /\ UNCHANGED <<store, handles, enums>>
        /\ ret' \in [Instances -> [res : Results, val : Values]]
        /\ pc' \in [Instances -> Labels] /\ pc'[i] = "idle"
        /\ arg' \in [Instances -> Args]
        /\ hpc' \in [Instances -> HLabels] /\ hpc'[i] = "idle"
        /\ \A j \in Instances \ {i} : /\ ret'[j] = ret[j] /\ pc'[j] = pc[j]
                                      /\ arg'[j] = arg[j] /\ hpc'[j] = hpc[j]
    BY <2>1, BackFrame DEF HLabels
  <2>3. ClientFrame(i)
    BY <1>1, <2>1, <2>2 DEF ClientFrame, TypeInv
  <2>4. /\ transient_key'[i] = NULL /\ ~keyFileName'[i] /\ oe'[i] = NULL /\ enumHandle'[i] = NULL
        /\ OpenEnums(i)' = eheld'[i] \cup lost'[i]
        /\ \A h \in HandleIds : Agree(i, h)'
    BY <1>1, <1>2, <1>4, <2>1, <2>2 DEF OpenEnums, Agree, locals
  <2>5. /\ sess'[i] # "open" => /\ eheld'[i] = {} /\ lost'[i] = {}
                                /\ \A h \in HandleIds : held'[i][h] = NULL
        /\ i \in Misusers \/ sess'[i] # "dead"
    BY <1>1 DEF Local, Enumerators, HandlesKnown, Disciplined
  <2>6. Local(i)'
    BY <2>2, <2>4, <2>5, SettledLocal
  <2>7. QED
    BY <1>1, <2>3, <2>6
<1>5. QED
  BY <1>3, <1>4

\* keyEnumObjectList takes the first object, or returns and its enumerator is lost.
LEMMA EnumStartedKeeps ==
    ASSUME TypeInv, NEW i \in Instances, Local(i), EnumStarted(i)
    PROVE  ClientFrame(i) /\ Local(i)' /\ UNCHANGED <<list, ended, generates>>
<1>1. /\ hpc[i] = "enum_start" /\ pc[i] \in {"return", "panic"}
      /\ UNCHANGED <<locals, sess, held, eheld, list, ended, generates>>
  BY DEF EnumStarted, Answered
<1>2. /\ pc[i] = "return" /\ transient_key[i] = NULL /\ ~keyFileName[i] /\ oe[i] = NULL
      /\ arg[i].obj \in Named /\ enumHandle[i] \in EnumIds /\ sess[i] = "open"
      /\ \A h \in HandleIds : Agree(i, h)
      /\ enumHandle[i] \notin eheld[i] \cup lost[i]
      /\ OpenEnums(i) = eheld[i] \cup lost[i] \cup {enumHandle[i]}
  BY <1>1, ListingKnown
<1>3. CASE ret[i].res = "SUCCESS"
  <2>1. PICK e \in EnumIds : e = enumHandle[i]
    BY <1>2
  <2>2. /\ UNCHANGED <<lost, enumHandle>>
        /\ TEEC_InvokeCommand(i, EnumParams(i, "next_enum", e))
        /\ hpc' = [hpc EXCEPT ![i] = "enum_next"]
    BY <1>3, <2>1 DEF EnumStarted, HGoto
  <2>3. /\ UNCHANGED <<store, handles, enums>>
        /\ ret' \in [Instances -> [res : Results, val : Values]]
        /\ pc' \in [Instances -> Labels] /\ pc'[i] = "next_enum"
        /\ arg' \in [Instances -> Args]
        /\ arg'[i].cmd = "next_enum" /\ arg'[i].h = e /\ arg'[i].obj = arg[i].obj
        /\ \A j \in Instances \ {i} : ret'[j] = ret[j] /\ pc'[j] = pc[j] /\ arg'[j] = arg[j]
    BY <1>2, <1>3, <2>2, EnumInvokes DEF OnEnumLabels, Local
  <2>4. ClientFrame(i)
    BY <1>1, <2>2, <2>3 DEF ClientFrame, TypeInv, HLabels
  <2>5. /\ hpc'[i] = "enum_next" /\ enumHandle'[i] = e
        /\ transient_key'[i] = NULL /\ ~keyFileName'[i] /\ oe'[i] = NULL
        /\ e \notin eheld'[i] \cup lost'[i] /\ sess'[i] = "open"
        /\ OpenEnums(i)' = eheld'[i] \cup lost'[i] \cup {e}
        /\ \A h \in HandleIds : Agree(i, h)'
    BY <1>1, <1>2, <2>1, <2>2, <2>3 DEF OpenEnums, Agree, locals, TypeInv
  <2>6. Local(i)'
    BY <1>2, <2>3, <2>5, InvokedLocal, StorageAssumption
  <2>7. QED
    BY <1>1, <2>4, <2>6
<1>4. CASE ret[i].res # "SUCCESS"
  <2>1. /\ Back(i, "idle")
        /\ enumHandle' = [enumHandle EXCEPT ![i] = NULL]
        /\ lost' = [lost EXCEPT ![i] = @ \cup {enumHandle[i]}]
    BY <1>4 DEF EnumStarted
  <2>2. /\ UNCHANGED <<store, handles, enums>>
        /\ ret' \in [Instances -> [res : Results, val : Values]]
        /\ pc' \in [Instances -> Labels] /\ pc'[i] = "idle"
        /\ arg' \in [Instances -> Args]
        /\ hpc' \in [Instances -> HLabels] /\ hpc'[i] = "idle"
        /\ \A j \in Instances \ {i} : /\ ret'[j] = ret[j] /\ pc'[j] = pc[j]
                                      /\ arg'[j] = arg[j] /\ hpc'[j] = hpc[j]
    BY <2>1, BackFrame DEF HLabels
  <2>3. ClientFrame(i)
    BY <1>1, <1>2, <2>1, <2>2 DEF ClientFrame, TypeInv
  <2>4. /\ transient_key'[i] = NULL /\ ~keyFileName'[i] /\ oe'[i] = NULL /\ enumHandle'[i] = NULL
        /\ OpenEnums(i)' = eheld'[i] \cup lost'[i]
        /\ \A h \in HandleIds : Agree(i, h)'
    BY <1>1, <1>2, <2>1, <2>2 DEF OpenEnums, Agree, locals, TypeInv
  <2>5. sess'[i] = "open"
    BY <1>1, <1>2
  <2>6. Local(i)'
    BY <2>2, <2>4, <2>5, SettledLocal
  <2>7. QED
    BY <1>1, <2>3, <2>6
<1>5. QED
  BY <1>3, <1>4

\* keyEnumObjectList takes another object, or gives its enumerator back.
LEMMA EnumNextKeeps ==
    ASSUME TypeInv, NEW i \in Instances, Local(i), EnumNext(i)
    PROVE  /\ ClientFrame(i) /\ Local(i)' /\ UNCHANGED generates
           /\ list' \in [Instances -> Seq(Values)] /\ ended' \in [Instances -> Results \cup {NULL}]
<1>1. /\ hpc[i] = "enum_next" /\ pc[i] \in {"return", "panic"}
      /\ UNCHANGED <<locals, sess, held, eheld, lost, enumHandle, generates>>
  BY DEF EnumNext, Answered
<1>2. /\ pc[i] = "return" /\ transient_key[i] = NULL /\ ~keyFileName[i] /\ oe[i] = NULL
      /\ arg[i].obj \in Named /\ enumHandle[i] \in EnumIds /\ sess[i] = "open"
      /\ \A h \in HandleIds : Agree(i, h)
      /\ enumHandle[i] \notin eheld[i] \cup lost[i]
      /\ OpenEnums(i) = eheld[i] \cup lost[i] \cup {enumHandle[i]}
  BY <1>1, ListingKnown
<1>3. PICK e \in EnumIds : e = enumHandle[i]
  BY <1>2
<1>4. PICK cmd \in {"next_enum", "free_enum"} :
        /\ TEEC_InvokeCommand(i, EnumParams(i, cmd, e))
        /\ cmd = "next_enum" => hpc' = hpc
        /\ cmd = "free_enum" => hpc' = [hpc EXCEPT ![i] = "enum_free"]
  BY <1>3 DEF EnumNext, HGoto
<1>5. list' \in [Instances -> Seq(Values)] /\ ended' \in [Instances -> Results \cup {NULL}]
  <2>1. CASE ret[i].res = "SUCCESS"
    <3>1. list' = [list EXCEPT ![i] = Append(list[i], ret[i].val)] /\ ended' = ended
      BY <2>1 DEF EnumNext
    <3>2. Append(list[i], ret[i].val) \in Seq(Values)
      BY <2>1 DEF TypeInv
    <3>3. QED
      BY <3>1, <3>2 DEF TypeInv
  <2>2. CASE ret[i].res # "SUCCESS"
    BY <2>2 DEF EnumNext, TypeInv
  <2>3. QED
    BY <2>1, <2>2
<1>6. /\ UNCHANGED <<store, handles, enums>>
      /\ ret' \in [Instances -> [res : Results, val : Values]]
      /\ pc' \in [Instances -> Labels] /\ pc'[i] = cmd
      /\ arg' \in [Instances -> Args]
      /\ arg'[i].cmd = cmd /\ arg'[i].h = e /\ arg'[i].obj = arg[i].obj
      /\ \A j \in Instances \ {i} : ret'[j] = ret[j] /\ pc'[j] = pc[j] /\ arg'[j] = arg[j]
  BY <1>2, <1>4, EnumInvokes DEF OnEnumLabels, Local
<1>7. /\ hpc' \in [Instances -> HLabels] /\ \A j \in Instances \ {i} : hpc'[j] = hpc[j]
      /\ cmd = "next_enum" => hpc'[i] = "enum_next"
      /\ cmd = "free_enum" => hpc'[i] = "enum_free"
  BY <1>1, <1>4 DEF TypeInv, HLabels
<1>8. ClientFrame(i)
  BY <1>1, <1>6, <1>7 DEF ClientFrame, TypeInv
<1>9. /\ enumHandle'[i] = e
      /\ transient_key'[i] = NULL /\ ~keyFileName'[i] /\ oe'[i] = NULL
      /\ e \notin eheld'[i] \cup lost'[i] /\ sess'[i] = "open"
      /\ OpenEnums(i)' = eheld'[i] \cup lost'[i] \cup {e}
      /\ \A h \in HandleIds : Agree(i, h)'
  BY <1>1, <1>2, <1>3, <1>6 DEF OpenEnums, Agree, locals, TypeInv
<1>10. Local(i)'
  BY <1>2, <1>4, <1>6, <1>7, <1>9, InvokedLocal, StorageAssumption
<1>11. QED
  BY <1>1, <1>5, <1>8, <1>10

\* The end of keyEnumObjectList, and keyFreeEnumObjectList.
LEMMA EnumEndKeeps ==
    ASSUME TypeInv, NEW i \in Instances, Local(i), EnumFreed(i) \/ keyFreeEnumObjectList(i)
    PROVE  /\ ClientFrame(i) /\ Local(i)' /\ UNCHANGED generates
           /\ list' \in [Instances -> Seq(Values)] /\ ended' \in [Instances -> Results \cup {NULL}]
<1>1. CASE EnumFreed(i)
  <2>1. /\ hpc[i] = "enum_free" /\ pc[i] \in {"return", "panic"} /\ Back(i, "listed")
        /\ enumHandle' = [enumHandle EXCEPT ![i] = NULL]
        /\ UNCHANGED <<locals, sess, held, eheld, lost, list, ended, generates>>
    BY <1>1 DEF EnumFreed, Answered
  <2>2. /\ transient_key[i] = NULL /\ ~keyFileName[i] /\ oe[i] = NULL
        /\ \A h \in HandleIds : Agree(i, h)
        /\ sess[i] = "open" /\ OpenEnums(i) = eheld[i] \cup lost[i]
    BY <2>1, ListingKnown
  <2>3. /\ UNCHANGED <<store, handles, enums>>
        /\ ret' \in [Instances -> [res : Results, val : Values]]
        /\ pc' \in [Instances -> Labels] /\ pc'[i] = "idle"
        /\ arg' \in [Instances -> Args]
        /\ hpc' \in [Instances -> HLabels] /\ hpc'[i] = "listed"
        /\ \A j \in Instances \ {i} : /\ ret'[j] = ret[j] /\ pc'[j] = pc[j]
                                      /\ arg'[j] = arg[j] /\ hpc'[j] = hpc[j]
    BY <2>1, BackFrame DEF HLabels
  <2>4. ClientFrame(i)
    BY <2>1, <2>3 DEF ClientFrame, TypeInv
  <2>5. /\ transient_key'[i] = NULL /\ ~keyFileName'[i] /\ oe'[i] = NULL /\ enumHandle'[i] = NULL
        /\ OpenEnums(i)' = eheld'[i] \cup lost'[i] /\ sess'[i] = "open"
        /\ \A h \in HandleIds : Agree(i, h)'
    BY <2>1, <2>2, <2>3 DEF OpenEnums, Agree, locals, TypeInv
  <2>6. Local(i)'
    BY <2>3, <2>5, SettledLocal
  <2>7. QED
    BY <2>1, <2>4, <2>6 DEF TypeInv
<1>2. CASE keyFreeEnumObjectList(i)
  <2>1. /\ hpc[i] = "listed" /\ hpc' = [hpc EXCEPT ![i] = "idle"]
        /\ list' = [list EXCEPT ![i] = << >>] /\ ended' = [ended EXCEPT ![i] = NULL]
        /\ UNCHANGED <<teeVars, callVars, locals, sess, held, eheld, lost, enumHandle, generates>>
    BY <1>2 DEF keyFreeEnumObjectList, HGoto
  <2>2. list' \in [Instances -> Seq(Values)] /\ ended' \in [Instances -> Results \cup {NULL}]
    BY <2>1 DEF TypeInv
  <2>3. pc[i] = "idle" /\ sess[i] = "open"
    BY <2>1 DEF Local, Control, TypeInv
  <2>4. ClientFrame(i)
    BY <2>1 DEF ClientFrame, teeVars, callVars, TypeInv, HLabels
  <2>5. /\ oe[i] = NULL /\ enumHandle[i] = NULL /\ transient_key[i] = NULL /\ ~keyFileName[i]
        /\ OpenEnums(i) = eheld[i] \cup lost[i]
        /\ \A h \in HandleIds : Agree(i, h)
    BY <2>3, IdleKnown
  <2>6. /\ oe'[i] = NULL /\ enumHandle'[i] = NULL /\ transient_key'[i] = NULL /\ ~keyFileName'[i]
        /\ OpenEnums(i)' = eheld'[i] \cup lost'[i]
        /\ \A h \in HandleIds : Agree(i, h)'
        /\ pc'[i] = "idle" /\ sess'[i] = "open" /\ hpc'[i] = "idle"
    BY <2>1, <2>3, <2>5 DEF OpenEnums, Agree, teeVars, callVars, locals, TypeInv
  <2>7. Local(i)'
    BY <2>6, SettledLocal
  <2>8. QED
    BY <2>1, <2>2, <2>4, <2>7
<1>3. QED
  BY <1>1, <1>2

\* Every step of a client.
LEMMA ClientKeeps ==
    ASSUME TypeInv, NEW i \in Instances, Local(i),
           \/ Calls(i)
           \/ Returned(i) \/ EnumAllocated(i) \/ EnumStarted(i) \/ EnumNext(i)
           \/ EnumFreed(i) \/ keyFreeEnumObjectList(i)
    PROVE  ClientFrame(i) /\ Local(i)' /\ TypeInv'
<1>1. /\ ClientFrame(i) /\ Local(i)' /\ generates' \in Nat
      /\ list' \in [Instances -> Seq(Values)] /\ ended' \in [Instances -> Results \cup {NULL}]
  <2>1. list \in [Instances -> Seq(Values)] /\ ended \in [Instances -> Results \cup {NULL}]
        /\ generates \in Nat
    BY DEF TypeInv
  <2>2. CASE Open(i) \/ Close(i)
    BY <2>1, <2>2, SessionKeeps
  <2>3. CASE Returned(i)
    BY <2>1, <2>3, ReturnedKeeps
  <2>4. CASE EnumAllocated(i) \/ EnumStarted(i)
    BY <2>1, <2>4, EnumAllocatedKeeps, EnumStartedKeeps
  <2>5. CASE EnumNext(i) \/ EnumFreed(i) \/ keyFreeEnumObjectList(i)
    BY <2>1, <2>5, EnumNextKeeps, EnumEndKeeps
  <2>6. CASE keyEnumObjectList(i)
    BY <2>1, <2>6, EnumListKeeps
  <2>7. CASE \/ keyGenerate(i) \/ keyList(i) \/ keyOpen(i) \/ keyClose(i) \/ keyCloseAndDelete(i)
             \/ keyGetObjectBufferAttribute(i) \/ keyGetObjectValueAttribute(i)
             \/ keyAllocEnum(i) \/ keyFreeEnum(i) \/ keyResetEnum(i)
             \/ keyStartEnum(i) \/ keyNextEnum(i)
    BY <2>1, <2>7, FunctionKeeps
  <2>8. QED
    BY <2>2, <2>3, <2>4, <2>5, <2>6, <2>7 DEF Calls
<1>2. TypeInv'
  BY <1>1, ClientFrameKeeps
<1>3. QED
  BY <1>1, <1>2

-----------------------------------------------------------------------------
(***************************************************************************)
(* Who has access to an object.                                            *)
(***************************************************************************)

\* No handle is new and no object changes.
Shrinks ==
    /\ UNCHANGED store
    /\ \A j \in Instances : \A h \in HandleIds : handles'[j][h] \in {handles[j][h], NULL}

\* The new handle of instance i is granted, and the object is what it read.
Grants(i) ==
    \E obj \in Objects, flags \in SUBSET StorageFlags, key \in Keys :
        /\ Gets(i, obj, flags, key)
        /\ ~AccessConflict(obj, flags)
        /\ \A j \in Instances \ {i} : handles'[j] = handles[j]
        /\ store' = [store EXCEPT ![obj] = key]

\* Instance i deletes the object of its handle h.
Deletes(i, h) ==
    /\ h \in OpenHandles(i) /\ "META" \in handles[i][h].flags
    /\ handles'[i] = [handles[i] EXCEPT ![h] = NULL]
    /\ \A j \in Instances \ {i} : handles'[j] = handles[j]
    /\ store' = [store EXCEPT ![handles[i][h].obj] = NULL]

\* Giving up handles takes nothing from the others.
LEMMA ShrinksKeeps ==
    ASSUME Exclusive, Intact, Shrinks
    PROVE  Exclusive' /\ Intact'
<1>1. \A j \in Instances : \A h \in OpenHandles(j)' :
        h \in OpenHandles(j) /\ handles'[j][h] = handles[j][h]
  BY DEF Shrinks, OpenHandles
<1>2. QED
  BY <1>1 DEF Exclusive, Intact, Shrinks

\* A handle is granted only if it and the open ones do not exclude each other.
LEMMA GrantsKeeps ==
    ASSUME TypeInv, Exclusive, Intact, NEW i \in Instances, Grants(i)
    PROVE  Exclusive' /\ Intact'
<1>1. PICK obj \in Objects, flags \in SUBSET StorageFlags, key \in Keys :
        /\ Gets(i, obj, flags, key)
        /\ ~AccessConflict(obj, flags)
        /\ \A j \in Instances \ {i} : handles'[j] = handles[j]
        /\ store' = [store EXCEPT ![obj] = key]
  BY DEF Grants
<1>2. PICK n \in HandleIds :
        handles'[i] = [handles[i] EXCEPT ![n] = [obj |-> obj, flags |-> flags, key |-> key]]
  BY <1>1 DEF Gets
<1>3. /\ handles'[i][n].obj = obj /\ handles'[i][n].flags = flags /\ handles'[i][n].key = key
      /\ \A g \in HandleIds \ {n} : handles'[i][g] = handles[i][g]
  BY <1>2 DEF TypeInv
<1>4. ASSUME NEW j \in Instances, NEW h \in OpenHandles(j)', ~(j = i /\ h = n)
      PROVE  /\ h \in OpenHandles(j) /\ handles'[j][h] = handles[j][h]
             /\ handles[j][h].obj = obj => "META" \notin handles[j][h].flags \cup flags
  <2>1. h \in OpenHandles(j) /\ handles'[j][h] = handles[j][h]
    BY <1>1, <1>3, <1>4 DEF OpenHandles
  <2>2. QED
    BY <1>1, <2>1 DEF AccessConflict, Excludes
<1>5. Exclusive'
  <2> SUFFICES ASSUME NEW j \in Instances, NEW k \in Instances,
                      NEW h \in OpenHandles(j)', NEW g \in OpenHandles(k)',
                      "META" \in handles'[j][h].flags, handles'[j][h].obj = handles'[k][g].obj
               PROVE  j = k /\ h = g
    BY DEF Exclusive
  <2>1. CASE j = i /\ h = n
    BY <1>3, <1>4, <2>1
  <2>2. CASE k = i /\ g = n
    BY <1>3, <1>4, <2>2
  <2>3. CASE ~(j = i /\ h = n) /\ ~(k = i /\ g = n)
    BY <1>4, <2>3 DEF Exclusive
  <2>4. QED
    BY <2>1, <2>2, <2>3
<1>6. Intact'
  <2> SUFFICES ASSUME NEW j \in Instances, NEW h \in OpenHandles(j)',
                      "META" \in handles'[j][h].flags
               PROVE  store'[handles'[j][h].obj] = handles'[j][h].key
    BY DEF Intact
  <2>1. CASE j = i /\ h = n
    BY <1>1, <1>3, <2>1 DEF TypeInv
  <2>2. CASE ~(j = i /\ h = n)
    <3>1. h \in OpenHandles(j) /\ handles'[j][h] = handles[j][h] /\ handles[j][h].obj # obj
      BY <1>4, <2>2
    <3>2. handles[j][h].obj \in Objects
      BY <3>1 DEF OpenHandles, TypeInv, KeyHandles
    <3>3. store'[handles[j][h].obj] = store[handles[j][h].obj]
      BY <1>1, <3>1, <3>2 DEF TypeInv
    <3>4. QED
      BY <3>1, <3>3 DEF Intact
  <2>3. QED
    BY <2>1, <2>2
<1>7. QED
  BY <1>5, <1>6

\* An object is deleted through a handle that nobody shares.
LEMMA DeletesKeeps ==
    ASSUME TypeInv, Exclusive, Intact, NEW i \in Instances, NEW h \in HandleIds, Deletes(i, h)
    PROVE  Exclusive' /\ Intact'
<1>1. /\ handles'[i][h] = NULL
      /\ \A g \in HandleIds \ {h} : handles'[i][g] = handles[i][g]
  BY DEF Deletes, TypeInv
<1>2. ASSUME NEW j \in Instances, NEW g \in OpenHandles(j)'
      PROVE  g \in OpenHandles(j) /\ handles'[j][g] = handles[j][g] /\ ~(j = i /\ g = h)
  BY <1>1, <1>2 DEF Deletes, OpenHandles
<1>3. Exclusive'
  BY <1>2 DEF Exclusive
<1>4. ASSUME NEW j \in Instances, NEW g \in OpenHandles(j)', "META" \in handles'[j][g].flags
      PROVE  store'[handles'[j][g].obj] = handles'[j][g].key
  <2>1. g \in OpenHandles(j) /\ handles'[j][g] = handles[j][g] /\ ~(j = i /\ g = h)
    BY <1>2, <1>4
  <2>2. handles[j][g].obj # handles[i][h].obj
    BY <1>4, <2>1 DEF Exclusive, Deletes
  <2>3. handles[j][g].obj \in Objects
    BY <2>1 DEF OpenHandles, TypeInv, KeyHandles
  <2>4. store'[handles[j][g].obj] = store[handles[j][g].obj]
    BY <2>2, <2>3 DEF Deletes, TypeInv
  <2>5. QED
    BY <1>4, <2>1, <2>4 DEF Intact
<1>5. QED
  BY <1>3, <1>4 DEF Intact

\* What a call that only fails, panics or touches enumerators does to handles.
LEMMA PassiveShrinks ==
    ASSUME TypeInv, NEW i \in Instances, Panics(i) \/ UNCHANGED <<store, handles>>
    PROVE  Shrinks
<1>1. CASE Panics(i)
  <2>1. handles' = [handles EXCEPT ![i] = [h \in HandleIds |-> NULL]] /\ UNCHANGED store
    BY <1>1 DEF Panics
  <2>2. ASSUME NEW j \in Instances, NEW h \in HandleIds
        PROVE  handles'[j][h] \in {handles[j][h], NULL}
    BY <2>1 DEF TypeInv
  <2>3. QED
    BY <2>1, <2>2 DEF Shrinks
<1>2. CASE UNCHANGED <<store, handles>>
  BY <1>2 DEF Shrinks
<1>3. QED
  BY <1>1, <1>2

\* A panic, or one closed handle, leaves no new handle.
LEMMA LosesShrinks ==
    ASSUME TypeInv, NEW i \in Instances, NEW h \in HandleIds, ApiFrame(i), UNCHANGED store,
           Dies(i) \/ GivesUp(i, h)
    PROVE  Shrinks
<1>1. \A g \in HandleIds : handles'[i][g] \in {handles[i][g], NULL}
  <2>1. CASE Dies(i)
    BY <2>1 DEF Dies
  <2>2. CASE GivesUp(i, h)
    <3>1. handles'[i] = [handles[i] EXCEPT ![h] = NULL]
      BY <2>2 DEF GivesUp
    <3>2. QED
      BY <3>1 DEF TypeInv
  <2>3. QED
    BY <2>1, <2>2
<1>2. ASSUME NEW j \in Instances \ {i}, NEW g \in HandleIds
      PROVE  handles'[j][g] \in {handles[j][g], NULL}
  BY DEF ApiFrame
<1>3. QED
  BY <1>1, <1>2 DEF Shrinks

\* What every step of the TA does to handles and objects.
LEMMA TaStepShares ==
    ASSUME TypeInv, NEW i \in Instances, Local(i), TaStep(i)
    PROVE  Shrinks \/ Grants(i) \/ \E h \in HandleIds : Deletes(i, h)
<1>1. CASE ta_key_cmd_generate(i)
  <2>1. CASE CreateKey(i)
    <3>1. pc[i] = "create" /\ TEE_CreatePersistentObject(i, arg[i].obj, arg[i].flags, transient_key[i])
      BY <2>1 DEF CreateKey
    <3>2. PICK obj \in Objects, flags \in SUBSET StorageFlags, key \in Keys :
            obj = arg[i].obj /\ flags = arg[i].flags /\ key = transient_key[i]
      BY <3>1 DEF Local, Temporaries, TypeInv, Args
    <3>3. TEE_CreatePersistentObject(i, obj, flags, key)
      BY <3>1, <3>2
    <3>4. CASE UNCHANGED <<store, handles>>
      BY <3>4, PassiveShrinks
    <3>5. CASE ~UNCHANGED <<store, handles>>
      <4>1. /\ ApiFrame(i) /\ Gets(i, obj, flags, key)
            /\ ~AccessConflict(obj, flags)
            /\ store' = [store EXCEPT ![obj] = key]
        BY <3>3, <3>5, CreateApi
      <4>2. QED
        BY <4>1 DEF Grants, ApiFrame
    <3>6. QED
      BY <3>4, <3>5
  <2>2. CASE ~CreateKey(i)
    <3>1. UNCHANGED <<store, handles>>
      BY <1>1, <2>2 DEF ta_key_cmd_generate, CheckSize, AllocateTransient, GenerateKey, CopyName,
         Out3, Out2, teeVars
    <3>2. QED
      BY <3>1, PassiveShrinks
  <2>3. QED
    BY <2>1, <2>2
<1>2. CASE ta_key_cmd_open(i)
  <2>1. CASE OpenKey(i)
    <3>1. TEE_OpenPersistentObject(i, arg[i].obj, arg[i].flags) /\ arg[i].flags \in SUBSET StorageFlags
      BY <2>1 DEF OpenKey, TypeInv, Args
    <3>2. /\ ApiFrame(i) /\ UNCHANGED store
          /\ \/ UNCHANGED handles
             \/ /\ Gets(i, arg[i].obj, arg[i].flags, store[arg[i].obj])
                /\ ~AccessConflict(arg[i].obj, arg[i].flags)
                /\ arg[i].obj \in Objects /\ store[arg[i].obj] \in Keys
      BY <3>1, OpenApi
    <3>3. CASE UNCHANGED handles
      BY <3>2, <3>3, PassiveShrinks
    <3>4. CASE ~UNCHANGED handles
      <4>1. PICK obj \in Objects, flags \in SUBSET StorageFlags, key \in Keys :
              obj = arg[i].obj /\ flags = arg[i].flags /\ key = store[arg[i].obj]
        BY <3>1, <3>2, <3>4
      <4>2. store' = [store EXCEPT ![obj] = key]
        BY <3>2, <4>1 DEF TypeInv
      <4>3. Gets(i, obj, flags, key) /\ ~AccessConflict(obj, flags) /\ ApiFrame(i)
        BY <3>2, <3>4, <4>1
      <4>4. QED
        BY <4>2, <4>3 DEF Grants, ApiFrame
    <3>5. QED
      BY <3>3, <3>4
  <2>2. CASE ~OpenKey(i)
    <3>1. UNCHANGED <<store, handles>>
      BY <1>2, <2>2 DEF ta_key_cmd_open, OpenCopyName, OpenFreeName, teeVars
    <3>2. QED
      BY <3>1, PassiveShrinks
  <2>3. QED
    BY <2>1, <2>2
<1>3. CASE ta_key_cmd_close(i)
  <2>1. arg[i].h \in HandleIds
    BY <1>3, HandlesHonest DEF ta_key_cmd_close, OnHandleLabels
  <2>2. ApiFrame(i) /\ UNCHANGED store /\ (Dies(i) \/ GivesUp(i, arg[i].h))
    BY <1>3, <2>1, CloseApi DEF ta_key_cmd_close
  <2>3. QED
    BY <2>1, <2>2, LosesShrinks
<1>4. CASE ta_key_cmd_close_and_delete(i)
  <2>1. CASE pc[i] = "ignore"
    BY <1>4, <2>1, PassiveShrinks DEF ta_key_cmd_close_and_delete
  <2>2. CASE pc[i] # "ignore"
    <3> DEFINE h == arg[i].h
    <3>1. h \in HandleIds /\ TEE_CloseAndDeletePersistentObject1(i, h)
      BY <1>4, <2>2, HandlesHonest DEF ta_key_cmd_close_and_delete, OnHandleLabels
    <3>2. /\ ApiFrame(i)
          /\ \/ Dies(i) /\ UNCHANGED store
             \/ /\ h \in OpenHandles(i) /\ "META" \in handles[i][h].flags
                /\ GivesUp(i, h)
                /\ \/ UNCHANGED store
                   \/ store' = [store EXCEPT ![handles[i][h].obj] = NULL]
      BY <3>1, DeleteApi
    <3> HIDE DEF h
    <3>3. CASE UNCHANGED store
      BY <3>1, <3>2, <3>3, LosesShrinks
    <3>4. CASE ~UNCHANGED store
      BY <3>1, <3>2, <3>4 DEF Deletes, ApiFrame, GivesUp
    <3>5. QED
      BY <3>3, <3>4
  <2>3. QED
    BY <2>1, <2>2
<1>5. CASE ta_key_cmd_get_object_buffer_attribute(i) \/ ta_key_cmd_get_object_value_attribute(i)
  BY <1>5, PassiveShrinks DEF ta_key_cmd_get_object_buffer_attribute,
     ta_key_cmd_get_object_value_attribute, ReadObject, Fails
<1>6. CASE ta_key_cmd_list(i)
  BY <1>6, PassiveShrinks DEF ta_key_cmd_list, ListAllocate, ListStart, ListNext, ListFree,
     TEE_AllocatePersistentObjectEnumerator, TEE_StartPersistentObjectEnumerator,
     TEE_GetNextPersistentObject, SetEnum, Fails
<1>7. CASE ta_key_cmd_alloc_enum(i) \/ ta_key_cmd_free_enum(i) \/ ta_key_cmd_reset_enum(i)
           \/ ta_key_cmd_start_enum(i) \/ ta_key_cmd_next_enum(i)
  BY <1>7, PassiveShrinks DEF ta_key_cmd_alloc_enum, ta_key_cmd_free_enum, ta_key_cmd_reset_enum,
     ta_key_cmd_start_enum, ta_key_cmd_next_enum,
     TEE_AllocatePersistentObjectEnumerator, TEE_StartPersistentObjectEnumerator,
     TEE_FreePersistentObjectEnumerator, TEE_ResetPersistentObjectEnumerator,
     TEE_GetNextPersistentObject, SetEnum, Fails
<1>8. QED
  BY <1>1, <1>2, <1>3, <1>4, <1>5, <1>6, <1>7 DEF TaStep

-----------------------------------------------------------------------------
(***************************************************************************)
(* The theorems.                                                           *)
(***************************************************************************)

\* At the start no session is open and nothing is stored.
LEMMA KInvInit == Init => KInv
<1> SUFFICES ASSUME Init PROVE KInv
  OBVIOUS
<1> USE DEF Init, TaInit, InstanceInit, StorageInit, ClientInit
<1>1. TypeInv
  <2>1. NoArg \in Args /\ Success \in [res : Results, val : Values]
    BY DEF NoArg, Args, Commands, Success, Results, Values
  <2>2. /\ pc \in [Instances -> Labels] /\ hpc \in [Instances -> HLabels]
        /\ arg \in [Instances -> Args] /\ ret \in [Instances -> [res : Results, val : Values]]
    BY <2>1 DEF Labels, HLabels
  <2>3. /\ held \in [Instances -> [HandleIds -> HeldRecords \cup {NULL}]]
        /\ sess \in [Instances -> {"closed", "open", "dead"}]
        /\ eheld \in [Instances -> SUBSET EnumIds]
        /\ list \in [Instances -> Seq(Values)]
    BY DEF NothingHeld
  <2>4. QED
    BY <2>2, <2>3 DEF TypeInv
<1>2. ASSUME NEW i \in Instances PROVE Local(i)
  <2> USE DEF GenerateLabels, ListLabels, OpenLabels, OnHandleLabels, OnEnumLabels
  <2>1. Control(i) /\ Temporaries(i)
    BY DEF Control, Temporaries
  <2>2. ~JustAllocated(i) /\ ~JustFreed(i) /\ ~Opened(i) /\ ~GivenUp(i)
    BY DEF JustAllocated, JustFreed, Opened, GivenUp
  <2>3. InHand(i) = {} /\ OpenEnums(i) = {}
    BY <2>2 DEF InHand, OpenEnums
  <2>4. Enumerators(i)
    BY <2>2, <2>3 DEF Enumerators
  <2>5. HandlesKnown(i)
    BY <2>2 DEF HandlesKnown, Agree, NothingHeld
  <2>6. Disciplined(i)
    BY DEF Disciplined
  <2>7. QED
    BY <2>1, <2>4, <2>5, <2>6 DEF Local
<1>3. \A i \in Instances : OpenHandles(i) = {}
  BY DEF OpenHandles
<1>4. QED
  BY <1>1, <1>2, <1>3 DEF KInv, Exclusive, Intact

\* Every step, of the TA or of a client, keeps the invariant.
LEMMA KInvStep == KInv /\ [Next]_vars => KInv'
<1> SUFFICES ASSUME KInv, [Next]_vars PROVE KInv'
  OBVIOUS
<1>1. TypeInv /\ (\A j \in Instances : Local(j)) /\ Exclusive /\ Intact
  BY DEF KInv
<1>2. ASSUME NEW i \in Instances, Calls(i) \/ Progress(i)
      PROVE  KInv'
  <2>1. CASE TaStep(i) /\ UNCHANGED <<clientVars, listVars, generates>>
    <3>1. StepFrame(i) /\ Local(i)'
      BY <1>1, <2>1, TaStepKeeps DEF ClientWaits
    <3>2. TypeInv' /\ \A j \in Instances \ {i} : Mine(j)' = Mine(j)
      BY <1>1, <3>1, StepFrameKeeps
    <3>3. \A j \in Instances : Local(j)'
      BY <1>1, <3>1, <3>2, LocalFrame
    <3>4. Exclusive' /\ Intact'
      BY <1>1, <2>1, TaStepShares, ShrinksKeeps, GrantsKeeps, DeletesKeeps
    <3>5. QED
      BY <3>2, <3>3, <3>4 DEF KInv
  <2>2. CASE \/ Calls(i)
             \/ Returned(i) \/ EnumAllocated(i) \/ EnumStarted(i) \/ EnumNext(i)
             \/ EnumFreed(i) \/ keyFreeEnumObjectList(i)
    <3>1. ClientFrame(i) /\ Local(i)' /\ TypeInv'
      BY <1>1, <2>2, ClientKeeps
    <3>2. \A j \in Instances \ {i} : Mine(j)' = Mine(j)
      BY <1>1, <3>1, ClientFrameKeeps
    <3>3. \A j \in Instances : Local(j)'
      BY <1>1, <3>1, <3>2, LocalFrame
    <3>4. Shrinks
      BY <3>1 DEF ClientFrame, Shrinks
    <3>5. Exclusive' /\ Intact'
      BY <1>1, <3>4, ShrinksKeeps
    <3>6. QED
      BY <3>1, <3>3, <3>5 DEF KInv
  <2>3. QED
    BY <1>2, <2>1, <2>2 DEF Progress
<1>3. CASE UNCHANGED vars
  <2>1. /\ UNCHANGED <<store, handles, enums, ret, pc, arg, transient_key, keyFileName, oe>>
        /\ UNCHANGED <<sess, hpc, held, eheld, lost, enumHandle, list, ended, generates>>
    BY <1>3 DEF vars, teeVars, callVars, locals, clientVars, listVars
  <2>2. TypeInv'
    BY <1>1, <2>1 DEF TypeInv
  <2>3. \A j \in Instances : Mine(j)' = Mine(j)
    BY <2>1 DEF Mine, OpenEnums
  <2>4. \A j \in Instances : Local(j)'
    BY <1>1, <2>3, LocalFrame
  <2>5. Shrinks
    BY <2>1 DEF Shrinks
  <2>6. QED
    BY <1>1, <2>2, <2>4, <2>5, ShrinksKeeps DEF KInv
<1>4. QED
  BY <1>2, <1>3 DEF Next

\* The invariant holds in every state of the key TA and its clients.
THEOREM KeyInvariant == Spec => []KInv
BY KInvInit, KInvStep, PTL DEF Spec

\* Whatever call fails, ta_key_cmd_generate, _open and _list free what they allocated
\* before the command is answered, for any number of sessions.
THEOREM KeyTemporariesFreed == Spec => []TemporariesFreed
<1>1. KInv => TemporariesFreed
  BY DEF KInv, Local, Temporaries, TemporariesFreed
<1>2. QED
  BY <1>1, KeyInvariant, PTL

\* Between calls of the library a client and its instance of the key TA agree on
\* which handles are open, on which objects and with which flags.
THEOREM KeyHandlesAccounted == Spec => []HandlesAccounted
<1>1. KInv => HandlesAccounted
  <2> SUFFICES ASSUME KInv, NEW i \in Instances, hpc[i] = "idle", NEW h \in HandleIds
               PROVE  Agree(i, h)
    BY DEF HandlesAccounted, Agree
  <2>1. TypeInv /\ Local(i) /\ pc[i] = "idle"
    BY DEF KInv, Local, Control
  <2>2. QED
    BY <2>1, IdleKnown
<1>2. QED
  BY <1>1, KeyInvariant, PTL

\* Between calls the open enumerators are those the client was given and those that
\* keyEnumObjectList forgot because the enumeration could not be started.
THEOREM KeyEnumeratorsAccounted == Spec => []EnumeratorsAccounted
<1>1. KInv => EnumeratorsAccounted
  <2> SUFFICES ASSUME KInv, NEW i \in Instances, hpc[i] \in {"idle", "listed"}
               PROVE  OpenEnums(i) = eheld[i] \cup lost[i]
    BY DEF EnumeratorsAccounted
  <2>1. TypeInv /\ Local(i) /\ pc[i] = "idle"
    BY DEF KInv, Local, Control
  <2>2. QED
    BY <2>1, IdleKnown
<1>2. QED
  BY <1>1, KeyInvariant, PTL

\* The key read through a handle with meta access is the key that is stored, whatever
\* the other sessions generate, open and delete meanwhile.
THEOREM KeyExclusiveIntact == Spec => []ExclusiveKeyIntact
<1>1. KInv => ExclusiveKeyIntact
  <2> SUFFICES ASSUME KInv, NEW i \in Instances, NEW h \in OpenHandles(i),
                      held[i][h] # NULL, "META" \in held[i][h].flags
               PROVE  store[held[i][h].obj] = handles[i][h].key
    BY DEF ExclusiveKeyIntact
  <2>1. Local(i) /\ Intact /\ h \in HandleIds /\ handles[i][h] # NULL
    BY DEF KInv, OpenHandles
  <2>2. Agree(i, h)
    BY <2>1 DEF Local, HandlesKnown
  <2>3. QED
    BY <2>1, <2>2 DEF Agree, Intact
<1>2. QED
  BY <1>1, KeyInvariant, PTL

\* A client that passes only handles it holds never makes its instance of the key TA
\* panic, whatever the clients of other sessions do.
THEOREM KeyDisciplineNeverPanics == Spec => []DisciplineNeverPanics
<1>1. KInv => DisciplineNeverPanics
  BY DEF KInv, Local, Disciplined, DisciplineNeverPanics
<1>2. QED
  BY <1>1, KeyInvariant, PTL

-----------------------------------------------------------------------------
(***************************************************************************)
(* The list of keyEnumObjectList.                                          *)
(***************************************************************************)

\* Where an object is in a list.
Positions(l, o) == {n \in DOMAIN l : l[n] = o}

\* A new element is at the end and moves no other.
LEMMA AppendPositions ==
    ASSUME NEW l \in Seq(Values), NEW v \in Values, NEW o
    PROVE  /\ v # o => Positions(Append(l, v), o) = Positions(l, o)
           /\ v = o => Positions(Append(l, v), o) = Positions(l, o) \cup {Len(l) + 1}
<1>1. /\ DOMAIN l = 1..Len(l) /\ DOMAIN Append(l, v) = 1..(Len(l) + 1) /\ Len(l) \in Nat
      /\ \A n \in 1..Len(l) : Append(l, v)[n] = l[n]
      /\ Append(l, v)[Len(l) + 1] = v
  OBVIOUS
<1>2. \A n \in 1..(Len(l) + 1) : n \in 1..Len(l) \/ n = Len(l) + 1
  BY <1>1
<1>3. QED
  BY <1>1, <1>2 DEF Positions

\* Some objects may leave the enumerations of an instance; nothing else changes them.
Thins(i) ==
    \E D \in SUBSET Objects : \A e \in OpenEnums(i) :
        /\ enums'[i][e].base = enums[i][e].base \ D
        /\ enums'[i][e].done = enums[i][e].done \ D

\* What a session that another one disturbs keeps.
Steady(i) ==
    /\ hpc'[i] = hpc[i] /\ pc'[i] = pc[i] /\ ret'[i] = ret[i] /\ arg'[i] = arg[i]
    /\ enumHandle'[i] = enumHandle[i] /\ list'[i] = list[i] /\ ended'[i] = ended[i]

\* The enumerator of keyEnumObjectList is open until it was freed.
LEMMA ListingOpen ==
    ASSUME TypeInv, NEW i \in Instances, Local(i), ~JustFreed(i),
           hpc[i] \in {"enum_start", "enum_next", "enum_free"}
    PROVE  enumHandle[i] \in OpenEnums(i)
<1>1. enumHandle[i] # NULL /\ pc[i] # "panic"
  BY DEF Local, Control, Enumerators
<1>2. enumHandle[i] \in InHand(i)
  BY <1>1 DEF InHand
<1>3. QED
  BY <1>1, <1>2 DEF Local, Enumerators

\* Objects that leave an enumeration leave its list as exact as it was.
LEMMA ListingFrame ==
    ASSUME TypeInv, NEW i \in Instances, Local(i), Listing(i), Steady(i), Thins(i)
    PROVE  Listing(i)'
<1>1. PICK D \in SUBSET Objects : \A e \in OpenEnums(i) :
        /\ enums'[i][e].base = enums[i][e].base \ D
        /\ enums'[i][e].done = enums[i][e].done \ D
  BY DEF Thins
<1> USE DEF Steady
<1>2. JustFreed(i)' <=> JustFreed(i)
  BY DEF JustFreed
<1>3. CASE hpc[i] \notin {"enum_start", "enum_next", "enum_free"} \/ JustFreed(i)
  BY <1>2, <1>3 DEF Listing, JustFreed, Local, Control
<1>4. CASE hpc[i] \in {"enum_start", "enum_next", "enum_free"} /\ ~JustFreed(i)
  <2> DEFINE en == enums[i][enumHandle[i]]
  <2>1. enumHandle[i] \in OpenEnums(i)
    BY <1>4, ListingOpen
  <2>2. en'.base = en.base \ D /\ en'.done = en.done \ D
    BY <1>1, <2>1
  <2>3. ASSUME NEW o \in en'.base, hpc[i] \in {"enum_next", "enum_free"}
        PROVE  IF o \in en'.done /\ ~InReturn(i, o)' THEN Times(i, o)' = 1
               ELSE {n \in DOMAIN list'[i] : list'[i][n] = o} = {}
    <3>1. o \in en.base /\ (o \in en'.done <=> o \in en.done)
      BY <2>2, <2>3
    <3>2. InReturn(i, o)' <=> InReturn(i, o)
      BY DEF InReturn
    <3>3. Times(i, o)' = Times(i, o)
      BY DEF Times
    <3>4. IF o \in en.done /\ ~InReturn(i, o) THEN Times(i, o) = 1
          ELSE {n \in DOMAIN list[i] : list[i][n] = o} = {}
      BY <1>4, <2>3, <3>1 DEF Listing
    <3>5. QED
      BY <3>1, <3>2, <3>3, <3>4
  <2>4. QED
    BY <1>2, <1>4, <2>2, <2>3 DEF Listing
<1>5. QED
  BY <1>3, <1>4

\* A step of the TA disturbs enumerations of other sessions at most.
LEMMA TaStepThins ==
    ASSUME TypeInv, NEW i \in Instances, Local(i), TaStep(i), NEW j \in Instances \ {i}
    PROVE  Thins(j)
<1>1. ASSUME enums'[j] = enums[j] PROVE Thins(j)
  <2>1. {} \in SUBSET Objects
    OBVIOUS
  <2>2. \A e \in OpenEnums(j) : /\ enums'[j][e].base = enums[j][e].base \ {}
                                /\ enums'[j][e].done = enums[j][e].done \ {}
    BY <1>1
  <2>3. QED
    BY <2>1, <2>2 DEF Thins
<1>2. ASSUME NEW obj \in Objects, Disturb(obj) PROVE Thins(j)
  <2>1. ASSUME NEW e \in OpenEnums(j)
        PROVE  /\ enums'[j][e].base = enums[j][e].base \ {obj}
               /\ enums'[j][e].done = enums[j][e].done \ {obj}
    <3>1. e \in EnumIds /\ enums[j][e] # NULL /\ enums[j][e] \in EnumRecords
      BY DEF OpenEnums, TypeInv
    <3>2. enums'[j][e] = [enums[j][e] EXCEPT !.base = @ \ {obj}, !.done = @ \ {obj}]
      BY <1>2, <3>1 DEF Disturb
    <3>3. QED
      BY <3>1, <3>2 DEF EnumRecords
  <2>2. QED
    BY <2>1 DEF Thins
<1>3. ASSUME UNCHANGED enums \/ Panics(i) \/ \E e, v : SetEnum(i, e, v)
      PROVE  Thins(j)
  <2>1. enums'[j] = enums[j]
    BY <1>3 DEF Panics, SetEnum, TypeInv
  <2>2. QED
    BY <1>1, <2>1
<1>4. CASE ta_key_cmd_generate(i)
  <2>1. CASE CreateKey(i)
    <3>1. pc[i] = "create" /\ TEE_CreatePersistentObject(i, arg[i].obj, arg[i].flags, transient_key[i])
      BY <2>1 DEF CreateKey
    <3>2. arg[i].obj \in Objects
      BY <3>1 DEF Local, Temporaries
    <3>3. UNCHANGED enums \/ Disturb(arg[i].obj)
      BY <3>1 DEF TEE_CreatePersistentObject, CannotCreate, Fails
    <3>4. QED
      BY <1>2, <1>3, <3>2, <3>3
  <2>2. CASE ~CreateKey(i)
    BY <1>3, <1>4, <2>2 DEF ta_key_cmd_generate, CheckSize, AllocateTransient, GenerateKey,
       CopyName, Out3, Out2, teeVars
  <2>3. QED
    BY <2>1, <2>2
<1>5. CASE ta_key_cmd_open(i)
  BY <1>3, <1>5 DEF ta_key_cmd_open, OpenCopyName, OpenKey, OpenFreeName, teeVars,
     TEE_OpenPersistentObject, Fails
<1>6. CASE ta_key_cmd_close(i) \/ ta_key_cmd_get_object_buffer_attribute(i)
           \/ ta_key_cmd_get_object_value_attribute(i)
  BY <1>3, <1>6 DEF ta_key_cmd_close, ta_key_cmd_get_object_buffer_attribute,
     ta_key_cmd_get_object_value_attribute, TEE_CloseObject, ReadObject, Fails
<1>7. CASE ta_key_cmd_close_and_delete(i)
  <2>1. CASE pc[i] = "ignore"
    BY <1>3, <1>7, <2>1 DEF ta_key_cmd_close_and_delete
  <2>2. CASE pc[i] # "ignore"
    <3>1. arg[i].h \in HandleIds /\ TEE_CloseAndDeletePersistentObject1(i, arg[i].h)
      BY <1>7, <2>2, HandlesHonest DEF ta_key_cmd_close_and_delete, OnHandleLabels
    <3>2. \/ Panics(i) \/ UNCHANGED enums
          \/ arg[i].h \in OpenHandles(i) /\ Disturb(handles[i][arg[i].h].obj)
      BY <3>1 DEF TEE_CloseAndDeletePersistentObject1, Removes, RemovesNot
    <3>3. arg[i].h \in OpenHandles(i) => handles[i][arg[i].h].obj \in Objects
      BY <3>1 DEF OpenHandles, TypeInv, KeyHandles
    <3>4. QED
      BY <1>2, <1>3, <3>2, <3>3
  <2>3. QED
    BY <2>1, <2>2
<1>8. CASE ta_key_cmd_list(i)
  <2>1. CASE ListFree(i)
    BY <1>3, <2>1 DEF ListFree, SetEnum
  <2>2. CASE ListAllocate(i) \/ ListStart(i) \/ ListNext(i)
    BY <1>3, <2>2 DEF ListAllocate, ListStart, ListNext, Fails,
       TEE_AllocatePersistentObjectEnumerator, TEE_StartPersistentObjectEnumerator,
       TEE_GetNextPersistentObject
  <2>3. QED
    BY <1>8, <2>1, <2>2 DEF ta_key_cmd_list
<1>9. CASE ta_key_cmd_alloc_enum(i) \/ ta_key_cmd_free_enum(i) \/ ta_key_cmd_reset_enum(i)
           \/ ta_key_cmd_start_enum(i) \/ ta_key_cmd_next_enum(i)
  BY <1>3, <1>9 DEF ta_key_cmd_alloc_enum, ta_key_cmd_free_enum, ta_key_cmd_reset_enum,
     ta_key_cmd_start_enum, ta_key_cmd_next_enum, Fails,
     TEE_AllocatePersistentObjectEnumerator, TEE_StartPersistentObjectEnumerator,
     TEE_FreePersistentObjectEnumerator, TEE_ResetPersistentObjectEnumerator,
     TEE_GetNextPersistentObject
<1>10. QED
  BY <1>4, <1>5, <1>6, <1>7, <1>8, <1>9 DEF TaStep

\* A step of the TA for the session itself: keyEnumObjectList learns of an object
\* that it did not have, or that there is none left.
LEMMA TaStepLists ==
    ASSUME TypeInv, NEW i \in Instances, Local(i), Listing(i), TaStep(i), ClientWaits
    PROVE  Listing(i)'
<1> USE DEF ClientWaits, clientVars, listVars
<1> DEFINE e == enumHandle[i]
           en == enums[i][e]
<1>0. hpc'[i] = hpc[i] /\ list'[i] = list[i] /\ enumHandle'[i] = e
  OBVIOUS
<1>1. /\ pc[i] \in CmdLabels
      /\ pc[i] = "start_enum" => ta_key_cmd_start_enum(i)
      /\ pc[i] = "next_enum" => ta_key_cmd_next_enum(i)
      /\ pc[i] = "free_enum" => ta_key_cmd_free_enum(i)
  BY DEF TaStep, ta_key_cmd_generate, CheckSize, AllocateTransient, GenerateKey, CopyName, CreateKey,
     Out3, Out2, ta_key_cmd_list, ListAllocate, ListStart, ListNext, ListFree,
     ta_key_cmd_open, OpenCopyName, OpenKey, OpenFreeName, ta_key_cmd_close,
     ta_key_cmd_close_and_delete, ta_key_cmd_get_object_buffer_attribute,
     ta_key_cmd_get_object_value_attribute, ta_key_cmd_alloc_enum, ta_key_cmd_free_enum,
     ta_key_cmd_reset_enum, ta_key_cmd_start_enum, ta_key_cmd_next_enum,
     CmdLabels, GenerateLabels, ListLabels, OpenLabels, OnHandleLabels, OnEnumLabels
<1>2. CASE hpc[i] \notin {"enum_start", "enum_next", "enum_free"}
  BY <1>0, <1>2 DEF Listing
<1>3. CASE hpc[i] \in {"enum_start", "enum_next", "enum_free"}
  <2>1. arg[i].cmd = pc[i] /\ pc[i] \in {"start_enum", "next_enum", "free_enum"}
        /\ (hpc[i] = "enum_start" <=> pc[i] = "start_enum")
        /\ (hpc[i] = "enum_next" <=> pc[i] = "next_enum")
    BY <1>1, <1>3 DEF Local, Control, CmdLabels, GenerateLabels, ListLabels, OpenLabels,
       OnHandleLabels, OnEnumLabels
  <2>2. e \in OpenEnums(i) /\ e \in EnumIds /\ en \in EnumRecords /\ arg[i].h = e
    <3>1. ~JustFreed(i)
      BY <2>1 DEF JustFreed
    <3>2. e \in OpenEnums(i)
      BY <1>3, <3>1, ListingOpen
    <3>3. QED
      BY <1>3, <3>2 DEF OpenEnums, TypeInv, Local, Enumerators
  <2>3. UNCHANGED arg /\ After(i, "return", "return")
    BY <1>1, <2>1 DEF Done, ta_key_cmd_start_enum, ta_key_cmd_next_enum, ta_key_cmd_free_enum
  <2>4. pc'[i] \in {"return", "panic"}
    BY <2>3 DEF After, Goto, TypeInv
  <2>5. CASE hpc[i] = "enum_start"
    <3>1. ret'[i].res = "SUCCESS" => enums'[i][e].done = {}
      <4>1. \/ Returns(i, "ITEM_NOT_FOUND", NULL)
            \/ SetEnum(i, e, [sid |-> arg[i].obj[1], base |-> InStorage(arg[i].obj[1]), done |-> {}])
        BY <1>1, <2>1, <2>2, <2>5 DEF ta_key_cmd_start_enum, TEE_StartPersistentObjectEnumerator
      <4>2. QED
        BY <2>2, <4>1 DEF Returns, SetEnum, TypeInv
    <3>2. QED
      BY <1>0, <2>5, <3>1 DEF Listing
  <2>6. CASE hpc[i] = "enum_free"
    <3>1. pc[i] = "free_enum" /\ Returns(i, "SUCCESS", NULL)
      BY <1>1, <2>1, <2>2, <2>6 DEF ta_key_cmd_free_enum, TEE_FreePersistentObjectEnumerator
    <3>2. ret'[i].res = "SUCCESS"
      BY <3>1, ReturnsFrame DEF Results, Values
    <3>3. pc'[i] = "return" /\ JustFreed(i)'
      BY <2>1, <2>3, <3>1, <3>2 DEF JustFreed, After, Goto, TypeInv
    <3>4. QED
      BY <1>0, <2>6, <3>3 DEF Listing
  <2>7. CASE hpc[i] = "enum_next"
    <3>1. pc[i] = "next_enum"
      BY <2>1, <2>7
    <3>2. ASSUME NEW o \in en.base
          PROVE  IF o \in en.done THEN Times(i, o) = 1
                 ELSE {n \in DOMAIN list[i] : list[i][n] = o} = {}
      <4>1. ~InReturn(i, o) /\ ~JustFreed(i)
        BY <3>1 DEF InReturn, JustFreed
      <4>2. QED
        BY <2>7, <3>2, <4>1 DEF Listing
    <3>3. \A o : Times(i, o)' = Times(i, o)
      BY <1>0 DEF Times
    <3>4. CASE ret'[i].res # "SUCCESS" /\ UNCHANGED enums
               /\ (ret'[i].res = "ITEM_NOT_FOUND" => en.base \subseteq en.done)
      <4>1. \A o : ~InReturn(i, o)'
        BY <3>4 DEF InReturn
      <4>2. QED
        BY <1>0, <2>7, <3>2, <3>3, <3>4, <4>1 DEF Listing
    <3>5. ASSUME NEW v, v \notin en.done, ret'[i].res = "SUCCESS", ret'[i].val = v,
                 enums'[i][e].base = en.base, enums'[i][e].done = en.done \cup {v}
          PROVE  Listing(i)'
      <4>1. pc'[i] = "return"
        BY <2>3, <3>5 DEF After, Goto, TypeInv
      <4>2. \A o : InReturn(i, o)' <=> o = v
        BY <1>0, <2>7, <3>5, <4>1 DEF InReturn
      <4>3. ASSUME NEW o \in enums'[i][e].base
            PROVE  IF o \in enums'[i][e].done /\ ~InReturn(i, o)' THEN Times(i, o)' = 1
                   ELSE {n \in DOMAIN list'[i] : list'[i][n] = o} = {}
        BY <1>0, <3>2, <3>3, <3>5, <4>2, <4>3
      <4>4. QED
        BY <1>0, <2>7, <3>5, <4>3 DEF Listing
    <3>6. \/ \E r \in {"SHORT_BUFFER", "CORRUPT_OBJECT"} : Fails(i, r)
          \/ en.base \subseteq en.done /\ Fails(i, "ITEM_NOT_FOUND")
          \/ \E v \in InStorage(en.sid) \ en.done :
                SetEnum(i, e, [en EXCEPT !.done = @ \cup {v}]) /\ Returns(i, "SUCCESS", v)
      BY <1>1, <2>2, <3>1 DEF ta_key_cmd_next_enum, TEE_GetNextPersistentObject
    <3>7. ASSUME NEW r \in {"SHORT_BUFFER", "CORRUPT_OBJECT", "ITEM_NOT_FOUND"}, Fails(i, r)
          PROVE  ret'[i].res = r /\ UNCHANGED enums
      BY <3>7, FailsApi DEF Fails, Results
    <3>8. ASSUME NEW v \in InStorage(en.sid) \ en.done,
                 SetEnum(i, e, [en EXCEPT !.done = @ \cup {v}]), Returns(i, "SUCCESS", v)
          PROVE  /\ ret'[i].res = "SUCCESS" /\ ret'[i].val = v
                 /\ enums'[i][e].base = en.base /\ enums'[i][e].done = en.done \cup {v}
      <4>1. ret'[i].res = "SUCCESS" /\ ret'[i].val = v
        BY <3>8 DEF Returns, TypeInv
      <4>2. enums'[i][e] = [en EXCEPT !.done = @ \cup {v}]
        BY <2>2, <3>8 DEF SetEnum, TypeInv
      <4>3. QED
        BY <2>2, <4>1, <4>2 DEF EnumRecords
    <3>9. QED
      BY <3>4, <3>5, <3>6, <3>7, <3>8
  <2>8. QED
    BY <1>3, <2>5, <2>6, <2>7
<1>4. QED
  BY <1>2, <1>3

\* A step of a client leaves the lists of the others alone.
LEMMA ClientSteady ==
    ASSUME TypeInv, NEW i \in Instances, ClientFrame(i), NEW j \in Instances \ {i},
           \/ Calls(i)
           \/ Returned(i) \/ EnumAllocated(i) \/ EnumStarted(i) \/ EnumNext(i)
           \/ EnumFreed(i) \/ keyFreeEnumObjectList(i)
    PROVE  Steady(j) /\ Thins(j)
<1>1. list'[j] = list[j] /\ ended'[j] = ended[j]
  <2>1. CASE EnumNext(i)
    BY <2>1 DEF EnumNext, TypeInv
  <2>2. CASE keyFreeEnumObjectList(i)
    BY <2>2 DEF keyFreeEnumObjectList, TypeInv
  <2>3. CASE Returned(i) \/ EnumAllocated(i) \/ EnumStarted(i) \/ EnumFreed(i)
    BY <2>3 DEF Returned, EnumAllocated, EnumStarted, EnumFreed
  <2>4. CASE Calls(i)
    BY <2>4 DEF Calls, Open, Close, keyGenerate, keyList, keyOpen, keyClose, keyCloseAndDelete,
       keyGetObjectBufferAttribute, keyGetObjectValueAttribute, keyAllocEnum, keyFreeEnum,
       keyResetEnum, keyStartEnum, keyNextEnum, keyEnumObjectList, OnHandle, Send, listVars
  <2>5. QED
    BY <2>1, <2>2, <2>3, <2>4
<1>2. Steady(j)
  BY <1>1 DEF ClientFrame, Steady
<1>3. {} \in SUBSET Objects
      /\ \A e \in OpenEnums(j) : /\ enums'[j][e].base = enums[j][e].base \ {}
                                 /\ enums'[j][e].done = enums[j][e].done \ {}
  BY DEF ClientFrame
<1>4. QED
  BY <1>2, <1>3 DEF Thins

\* A call other than keyEnumObjectList has no list.
LEMMA CallsList ==
    ASSUME TypeInv, NEW i \in Instances, Local(i), Listing(i), Calls(i)
    PROVE  Listing(i)'
<1>1. hpc[i] = "idle" /\ hpc'[i] \in {"idle", "call", "enum_alloc"} /\ list'[i] = list[i]
  <2>1. CASE Open(i) \/ Close(i)
    BY <2>1 DEF Open, Close, openSession, closeSession, Idle, Local, Control, listVars
  <2>2. CASE keyEnumObjectList(i)
    BY <2>2 DEF keyEnumObjectList, Idle, HGoto, TypeInv, listVars
  <2>3. CASE \E params : Send(i, params)
    BY <2>3 DEF Send, Call, Idle, HGoto, TypeInv, listVars
  <2>4. QED
    BY <2>1, <2>2, <2>3 DEF Calls, keyGenerate, keyList, keyOpen, keyClose, keyCloseAndDelete,
       keyGetObjectBufferAttribute, keyGetObjectValueAttribute, keyAllocEnum, keyFreeEnum,
       keyResetEnum, keyStartEnum, keyNextEnum, OnHandle
<1>2. QED
  BY <1>1 DEF Listing

\* keyEnumObjectList appends what keyNextEnum returned, and stops when it fails.
LEMMA EnumNextLists ==
    ASSUME TypeInv, NEW i \in Instances, Local(i), Listing(i), EnumNext(i)
    PROVE  Listing(i)'
<1> DEFINE e == enumHandle[i]
           en == enums[i][e]
           v == ret[i].val
<1>1. /\ hpc[i] = "enum_next" /\ pc[i] \in {"return", "panic"}
      /\ UNCHANGED <<enumHandle, sess, locals>>
  BY DEF EnumNext, Answered
<1>2. /\ pc[i] = "return" /\ arg[i].obj \in Named /\ e \in EnumIds /\ sess[i] = "open"
  BY <1>1, ListingKnown
<1>3. ASSUME NEW o \in en.base
      PROVE  IF o \in en.done /\ ~InReturn(i, o) THEN Times(i, o) = 1
             ELSE Positions(list[i], o) = {}
  <2>1. ~JustFreed(i)
    BY <1>1 DEF JustFreed, Local, Control
  <2>2. QED
    BY <1>1, <1>3, <2>1 DEF Listing, Positions
<1>4. CASE ret[i].res = "SUCCESS"
  <2>1. /\ list' = [list EXCEPT ![i] = Append(list[i], v)] /\ hpc' = hpc
        /\ TEEC_InvokeCommand(i, EnumParams(i, "next_enum", e))
    BY <1>4 DEF EnumNext
  <2>2. UNCHANGED enums /\ pc'[i] = "next_enum"
    BY <1>2, <2>1, EnumInvokes DEF OnEnumLabels, Local
  <2>3. list'[i] = Append(list[i], v) /\ list[i] \in Seq(Values) /\ v \in Values
    BY <2>1 DEF TypeInv
  <2>4. \A o : ~InReturn(i, o)' /\ (InReturn(i, o) <=> o = v)
    BY <1>1, <1>2, <1>4, <2>2 DEF InReturn
  <2>5. v \in en.base => v \in en.done
    BY <1>1, <1>2, <1>4 DEF Listing
  <2>6. ASSUME NEW o \in en.base
        PROVE  IF o \in en.done THEN Times(i, o)' = 1 ELSE Positions(list'[i], o) = {}
    <3>1. CASE o = v
      <4>1. Positions(list[i], o) = {} /\ o \in en.done
        BY <1>3, <2>4, <2>5, <2>6, <3>1
      <4>2. Positions(list'[i], o) = {Len(list[i]) + 1}
        BY <2>3, <3>1, <4>1, AppendPositions
      <4>3. Times(i, o)' = Cardinality({Len(list[i]) + 1})
        BY <4>2 DEF Times, Positions
      <4>4. QED
        BY <4>1, <4>3, FS_Singleton
    <3>2. CASE o # v
      <4>1. IF o \in en.done THEN Times(i, o) = 1 ELSE Positions(list[i], o) = {}
        BY <1>3, <2>4, <2>6, <3>2
      <4>2. Positions(list'[i], o) = Positions(list[i], o)
        BY <2>3, <3>2, AppendPositions
      <4>3. Times(i, o)' = Times(i, o)
        BY <4>2 DEF Times, Positions
      <4>4. QED
        BY <4>1, <4>2, <4>3
    <3>3. QED
      BY <3>1, <3>2
  <2>7. hpc'[i] = "enum_next" /\ enumHandle'[i] = e /\ enums'[i][e] = en
    BY <1>1, <2>1, <2>2
  <2>8. QED
    BY <2>2, <2>4, <2>6, <2>7 DEF Listing, Positions
<1>5. CASE ret[i].res # "SUCCESS"
  <2>1. /\ list' = list /\ ended'[i] = ret[i].res /\ hpc'[i] = "enum_free"
        /\ TEEC_InvokeCommand(i, EnumParams(i, "free_enum", e))
    BY <1>5 DEF EnumNext, HGoto, TypeInv
  <2>2. UNCHANGED enums /\ pc'[i] = "free_enum"
    BY <1>2, <2>1, EnumInvokes DEF OnEnumLabels, Local
  <2>3. \A o : ~InReturn(i, o)' /\ ~InReturn(i, o)
    BY <1>5, <2>1 DEF InReturn
  <2>4. ret[i].res = "ITEM_NOT_FOUND" => en.base \subseteq en.done
    BY <1>1, <1>2 DEF Listing
  <2>5. \A o : Times(i, o)' = Times(i, o)
    BY <2>1 DEF Times
  <2>6. enumHandle'[i] = e /\ enums'[i][e] = en /\ list'[i] = list[i]
    BY <1>1, <2>1, <2>2
  <2>7. QED
    BY <1>3, <2>1, <2>2, <2>3, <2>4, <2>5, <2>6 DEF Listing, Positions
<1>6. QED
  BY <1>4, <1>5

\* The other steps of keyEnumObjectList, and the end of a call.
LEMMA ProgressLists ==
    ASSUME TypeInv, NEW i \in Instances, Local(i), Listing(i),
           \/ Returned(i) \/ EnumAllocated(i) \/ EnumStarted(i)
           \/ EnumFreed(i) \/ keyFreeEnumObjectList(i)
    PROVE  Listing(i)'
<1>1. CASE Returned(i)
  <2>1. hpc[i] = "call" /\ hpc'[i] = "idle" /\ list'[i] = list[i]
    BY <1>1 DEF Returned, CallReturns, Answered, Back, HGoto, TypeInv
  <2>2. QED
    BY <2>1 DEF Listing
<1>2. CASE EnumAllocated(i)
  <2>1. hpc[i] = "enum_alloc" /\ pc[i] \in {"return", "panic"} /\ list'[i] = list[i]
        /\ hpc'[i] \in {"idle", "enum_start"}
    BY <1>2 DEF EnumAllocated, Answered, Back, HGoto, TypeInv
  <2>2. hpc'[i] = "enum_start" => pc'[i] # "return"
    <3>1. SUFFICES ASSUME hpc'[i] = "enum_start" PROVE pc'[i] # "return"
      OBVIOUS
    <3>2. ret[i].res = "SUCCESS" /\ TEEC_InvokeCommand(i, EnumParams(i, "start_enum", ret[i].val))
      BY <1>2, <3>1 DEF EnumAllocated, Back, HGoto, TypeInv
    <3>3. ret[i].val \in EnumIds /\ sess[i] = "open" /\ arg[i].obj \in Named
      BY <2>1, <3>2, ListingKnown
    <3>4. QED
      BY <3>2, <3>3, EnumInvokes DEF OnEnumLabels, Local
  <2>3. QED
    BY <2>1, <2>2 DEF Listing
<1>3. CASE EnumStarted(i)
  <2>1. hpc[i] = "enum_start" /\ pc[i] \in {"return", "panic"} /\ list'[i] = list[i] /\ list[i] = << >>
    BY <1>3 DEF EnumStarted, Answered, Listing
  <2>2. /\ pc[i] = "return" /\ enumHandle[i] \in EnumIds /\ sess[i] = "open" /\ arg[i].obj \in Named
    BY <2>1, ListingKnown
  <2>3. CASE ret[i].res # "SUCCESS"
    <3>1. hpc'[i] = "idle"
      BY <1>3, <2>3 DEF EnumStarted, Back, HGoto, TypeInv
    <3>2. QED
      BY <2>1, <3>1 DEF Listing
  <2>4. CASE ret[i].res = "SUCCESS"
    <3>1. /\ hpc'[i] = "enum_next" /\ enumHandle'[i] = enumHandle[i]
          /\ TEEC_InvokeCommand(i, EnumParams(i, "next_enum", enumHandle[i]))
      BY <1>3, <2>4 DEF EnumStarted, HGoto, TypeInv
    <3>2. UNCHANGED enums /\ pc'[i] = "next_enum"
      BY <2>2, <3>1, EnumInvokes DEF OnEnumLabels, Local
    <3>3. enums'[i][enumHandle[i]].done = {}
      BY <2>1, <2>2, <2>4, <3>2 DEF Listing
    <3>4. \A o : {n \in DOMAIN list'[i] : list'[i][n] = o} = {}
      BY <2>1
    <3>5. QED
      BY <3>1, <3>2, <3>3, <3>4 DEF Listing
  <2>5. QED
    BY <2>3, <2>4
<1>4. CASE EnumFreed(i)
  <2>1. hpc'[i] = "listed"
    BY <1>4 DEF EnumFreed, Back, HGoto, TypeInv
  <2>2. QED
    BY <2>1 DEF Listing
<1>5. CASE keyFreeEnumObjectList(i)
  <2>1. hpc'[i] = "idle" /\ list'[i] = << >>
    BY <1>5 DEF keyFreeEnumObjectList, HGoto, TypeInv
  <2>2. QED
    BY <2>1 DEF Listing
<1>6. QED
  BY <1>1, <1>2, <1>3, <1>4, <1>5

\* Every step keeps the lists exact.
LEMMA LInvStep == KInv /\ LInv /\ [Next]_vars => LInv'
<1> SUFFICES ASSUME KInv, LInv, [Next]_vars, NEW j \in Instances PROVE Listing(j)'
  BY DEF LInv
<1>1. TypeInv /\ Local(j) /\ Listing(j)
  BY DEF KInv, LInv
<1>2. ASSUME NEW i \in Instances, Calls(i) \/ Progress(i)
      PROVE  Listing(j)'
  <2>0. Local(i) /\ Listing(i)
    BY DEF KInv, LInv
  <2>1. CASE TaStep(i) /\ UNCHANGED <<clientVars, listVars, generates>>
    <3>1. CASE j = i
      BY <1>1, <2>1, <3>1, TaStepLists DEF ClientWaits
    <3>2. CASE j # i
      <4>1. Thins(j)
        BY <1>1, <2>0, <2>1, <3>2, TaStepThins
      <4>2. Mine(j)' = Mine(j)
        BY <1>1, <2>0, <2>1, <3>2, TaStepKeeps, StepFrameKeeps DEF ClientWaits
      <4>3. Steady(j)
        BY <2>1, <4>2 DEF Mine, Steady, listVars
      <4>4. QED
        BY <1>1, <4>1, <4>3, ListingFrame
    <3>3. QED
      BY <3>1, <3>2
  <2>2. CASE \/ Calls(i)
             \/ Returned(i) \/ EnumAllocated(i) \/ EnumStarted(i) \/ EnumNext(i)
             \/ EnumFreed(i) \/ keyFreeEnumObjectList(i)
    <3>1. CASE j = i
      BY <1>1, <2>2, <3>1, CallsList, EnumNextLists, ProgressLists
    <3>2. CASE j # i
      <4>1. ClientFrame(i)
        BY <1>1, <2>0, <2>2, ClientKeeps
      <4>2. Steady(j) /\ Thins(j)
        BY <1>1, <2>2, <3>2, <4>1, ClientSteady
      <4>3. QED
        BY <1>1, <4>2, ListingFrame
    <3>3. QED
      BY <3>1, <3>2
  <2>3. QED
    BY <1>2, <2>1, <2>2 DEF Progress
<1>3. CASE UNCHANGED vars
  <2>1. UNCHANGED <<hpc, pc, ret, arg, enumHandle, list, ended, enums>>
    BY <1>3 DEF vars, teeVars, callVars, clientVars, listVars
  <2>2. Steady(j)
    BY <2>1 DEF Steady
  <2>3. {} \in SUBSET Objects
        /\ \A e \in OpenEnums(j) : /\ enums'[j][e].base = enums[j][e].base \ {}
                                   /\ enums'[j][e].done = enums[j][e].done \ {}
    BY <2>1
  <2>4. QED
    BY <1>1, <2>2, <2>3, ListingFrame DEF Thins
<1>4. QED
  BY <1>2, <1>3 DEF Next

\* When the loop of keyEnumObjectList found no further object, its list has exactly
\* once each object that was there from the start and was not touched since.
THEOREM KeyListExact == Spec => []ListExact
<1>1. Init => LInv
  BY DEF Init, ClientInit, LInv, Listing
<1>2. KInv /\ LInv => ListExact
  <2> SUFFICES ASSUME KInv, LInv, NEW i \in Instances, hpc[i] = "enum_free", pc[i] = "free_enum",
                      ended[i] = "ITEM_NOT_FOUND", NEW o \in enums[i][enumHandle[i]].base
               PROVE  Times(i, o) = 1
    BY DEF ListExact, Times
  <2>1. Listing(i) /\ ~JustFreed(i) /\ ~InReturn(i, o)
    BY DEF LInv, JustFreed, InReturn
  <2>2. QED
    BY <2>1 DEF Listing
<1>3. QED
  BY <1>1, <1>2, KeyInvariant, LInvStep, PTL DEF Spec
=============================================================================
