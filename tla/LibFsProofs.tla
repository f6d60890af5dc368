----------------------------- MODULE LibFsProofs -----------------------------
(***************************************************************************)
(* Proofs about the storage TA and the clients of its library, for any     *)
(* number of sessions, objects, handles and enumerators.                   *)
(***************************************************************************)
EXTENDS LibFs, FiniteSetTheorems, TLAPS

-----------------------------------------------------------------------------
(***************************************************************************)
(* The inductive invariant.                                                *)
(***************************************************************************)
IdCmds == {"open", "create", "create_overwrite", "rename"}
ObjectCmds == {"close", "read", "write", "trunc", "seek", "unlink", "restrict_usage",
               "free_obj", "reset_obj", "get_obj_info"}
EnumCmds == {"free_enum", "reset_enum", "start_enum", "next_enum"}
KeyLabels == {"key_in_persistent", "generate_key", "create_key", "check_created", "close_created",
              "open_key", "check_opened", "allocate_op", "set_key", "cleanup4", "cleanup3", "cleanup2"}
LoopLabels == {"loop", "loop_delete"}

Commands == IdCmds \cup ObjectCmds \cup EnumCmds
                \cup {"none", "alloc_enum", "alloc_obj", "key_in_persistent", "loop"}
Labels == IdCmds \cup ObjectCmds \cup EnumCmds \cup KeyLabels \cup LoopLabels
              \cup {"alloc_enum", "alloc_obj", "with_id", "free_id", "seek_info", "ignore",
                    "idle", "return", "panic"}

Results == {"SUCCESS", "TARGET_DEAD", "OUT_OF_MEMORY", "GENERIC", "STORAGE_NO_SPACE",
            "ACCESS_CONFLICT", "ITEM_NOT_FOUND", "STORAGE_NOT_AVAILABLE", "SHORT_BUFFER",
            "CORRUPT_OBJECT", "OVERFLOW"}

Args == [cmd : Commands,
         obj : Objects \cup ({NULL} \X Names) \cup (Storages \X {NULL}) \cup {NULL},
         flags : SUBSET StorageFlags, size : BOOLEAN,
         h : HandleIds \cup EnumIds \cup {NULL}, data : Data \cup {NULL}]

Values == HandleIds \cup EnumIds \cup Objects \cup Data \cup Contents \cup {NULL}

\* The types of the variables.
TypeInv ==
    /\ store \in [Objects -> Contents \cup {NULL}]
    /\ handles \in [Instances -> [HandleIds -> ObjectHandles \cup {NULL}]]
    /\ enums \in [Instances -> [EnumIds -> EnumRecords \cup {NULL}]]
    /\ ret \in [Instances -> [res : Results, val : Values]]
    /\ pc \in [Instances -> Labels]
    /\ arg \in [Instances -> Args]
    /\ object_id \in [Instances -> BOOLEAN]
    /\ transient_key \in [Instances -> Keys \cup {NoKey, NULL}]
    /\ encrypt_op \in [Instances -> BOOLEAN]
    /\ key \in [Instances -> HandleIds \cup {NULL}]
    /\ n \in [Instances -> 0..LoopCount]
    /\ stranded \in [Instances -> SUBSET HandleIds]
    /\ sess \in [Instances -> {"closed", "open", "dead"}]
    /\ hpc \in [Instances -> {"idle", "call"}]
    /\ held \in [Instances -> [HandleIds -> ClientHandles \cup {NULL}]]
    /\ eheld \in [Instances -> SUBSET EnumIds]

\* The parameters that go with a command.
Fits(a) ==
    /\ a.cmd \in {"open", "create", "create_overwrite"} => a.obj \in Objects
    /\ a.cmd \in ObjectCmds \cup {"rename"} => a.h \in HandleIds
    /\ a.cmd = "rename" => a.obj \in {NULL} \X Names
    /\ a.cmd = "create" => a.h \in HandleIds \cup {NULL}
    /\ a.cmd = "write" => a.data \in Data
    /\ a.cmd \in EnumCmds => a.h \in EnumIds
    /\ a.cmd \in {"start_enum", "key_in_persistent", "loop"} => a.obj \in Storages \X {NULL}
    /\ a.cmd = "alloc_obj" => a.obj = NULL /\ a.flags = {}

\* Which command an instance runs, and whether its client waits for it.
Control(i) ==
    /\ Fits(arg[i])
    /\ pc[i] = "idle" <=> hpc[i] = "idle"
    /\ pc[i] \in Commands => arg[i].cmd = pc[i]
    /\ pc[i] \in {"with_id", "free_id"} => arg[i].cmd \in IdCmds
    /\ pc[i] = "seek_info" => arg[i].cmd = "seek"
    /\ pc[i] = "ignore" => arg[i].cmd \in {"unlink", "restrict_usage"}
    /\ pc[i] \in KeyLabels => arg[i].cmd = "key_in_persistent"
    /\ pc[i] \in LoopLabels => arg[i].cmd = "loop"
    /\ pc[i] = "panic" => ret[i].res = "TARGET_DEAD"
    /\ sess[i] = "closed" => pc[i] = "idle"
    /\ sess[i] = "dead" => pc[i] \in {"idle", "return"}
    /\ sess[i] = "dead" /\ pc[i] = "return" => ret[i].res = "TARGET_DEAD"

\* Where a command has something allocated in the TA, or an object open for itself.
KeyAllocated == {"check_created", "close_created", "check_opened", "allocate_op", "set_key",
                 "cleanup4", "cleanup3"}

Temporaries(i) ==
    /\ object_id[i] => pc[i] \in {"with_id", "free_id"}
    /\ transient_key[i] # NULL => pc[i] \in KeyLabels \ {"key_in_persistent"}
    /\ pc[i] \in KeyAllocated \cup {"create_key", "open_key"} => transient_key[i] \in Keys
    /\ encrypt_op[i] => pc[i] \in {"set_key", "cleanup4"}
    /\ key[i] # NULL <=> pc[i] \in KeyAllocated \cup {"loop_delete"}
    /\ n[i] # 0 => pc[i] \in LoopLabels
    /\ pc[i] = "loop_delete" => n[i] < LoopCount

\* The object that key_in_persistent or loop has open.
Target(i) == IF pc[i] = "loop_delete" THEN <<arg[i].obj[1], n[i]>> ELSE KeyObject(i)

OwnObject(i) ==
    key[i] # NULL =>
        /\ handles[i][key[i]] # NULL
        /\ handles[i][key[i]].obj = Target(i)
        /\ "META" \in handles[i][key[i]].flags

\* An enumerator that was opened or freed, and the client was not told of it yet.
JustAllocated(i) == arg[i].cmd = "alloc_enum" /\ pc[i] = "return" /\ ret[i].res = "SUCCESS"
JustFreed(i) == arg[i].cmd = "free_enum" /\ pc[i] = "return" /\ ret[i].res = "SUCCESS"

Enumerators(i) ==
    /\ JustAllocated(i) => ret[i].val \in EnumIds \ eheld[i]
    /\ sess[i] # "open" => eheld[i] = {}
    /\ pc[i] = "panic" => OpenEnums(i) = {}
    /\ pc[i] # "panic" =>
        OpenEnums(i) = (eheld[i] \cup {e \in EnumIds : JustAllocated(i) /\ e = ret[i].val})
                           \ {e \in EnumIds : JustFreed(i) /\ e = arg[i].h}

\* A handle was opened, renamed or given up, and the client was not told of it yet.
Opened(i) ==
    /\ arg[i].cmd \in {"open", "create", "alloc_obj"}
    /\ pc[i] \in {"free_id", "return"}
    /\ ret[i].res = "SUCCESS"

Renamed(i) ==
    /\ arg[i].cmd = "rename"
    /\ pc[i] \in {"free_id", "return"}
    /\ ret[i].res = "SUCCESS"

GivenUp(i) ==
    /\ arg[i].cmd \in {"close", "unlink", "free_obj"}
    /\ \/ pc[i] = "ignore"
       \/ pc[i] = "return" /\ ret[i].res = "SUCCESS"

\* What the client knows of a handle is what the instance has, but for a new name.
Agree(i, h) ==
    /\ handles[i][h] = NULL <=> held[i][h] = NULL
    /\ held[i][h] # NULL =>
        /\ handles[i][h].flags = held[i][h].flags
        /\ handles[i][h].obj = IF Renamed(i) /\ h = arg[i].h
                               THEN <<held[i][h].obj[1], arg[i].obj[2]>>
                               ELSE held[i][h].obj

\* The handles that the instance has open and its client does not know.
Spare(i) == stranded[i] \cup ({key[i]} \ {NULL})

HandlesKnown(i) ==
    /\ key[i] \notin stranded[i]
    /\ Opened(i) => /\ ret[i].val \in HandleIds \ Spare(i)
                    /\ held[i][ret[i].val] = NULL
                    /\ handles[i][ret[i].val] # NULL
                    /\ handles[i][ret[i].val].obj = arg[i].obj
                    /\ handles[i][ret[i].val].flags = arg[i].flags
    /\ Renamed(i) /\ held[i][arg[i].h] # NULL => held[i][arg[i].h].obj \in Objects
    /\ GivenUp(i) => /\ handles[i][arg[i].h] = NULL
                     /\ arg[i].cmd = "free_obj" => arg[i].h \notin stranded[i]
    /\ arg[i].cmd \in {"close", "unlink"} /\ pc[i] = "return" =>
            ret[i].res = "SUCCESS" \/ sess[i] # "open"
    /\ sess[i] # "open" => stranded[i] = {} /\ \A h \in HandleIds : held[i][h] = NULL
    /\ pc[i] = "panic" => \A h \in HandleIds : handles[i][h] = NULL
    /\ pc[i] # "panic" =>
        \A h \in HandleIds :
            IF h \in Spare(i)
            THEN /\ held[i][h] = NULL
                 /\ handles[i][h] # NULL => handles[i][h].obj # NULL
                 /\ handles[i][h] = NULL => GivenUp(i) /\ h = arg[i].h
            ELSE \/ Agree(i, h)
                 \/ Opened(i) /\ h = ret[i].val
                 \/ GivenUp(i) /\ h = arg[i].h

\* What a command needs of the handle it is passed.
Permits(i) ==
    LET h == arg[i].h
        needed == arg[i].cmd IN
    /\ needed \in ObjectCmds => h \in OpenHandles(i)
    /\ needed = "read" => h \in Granted(i, "READ")
    /\ needed \in {"write", "trunc"} => h \in Granted(i, "WRITE")
    /\ needed \in {"unlink", "rename"} => h \in Granted(i, "META")
    /\ needed = "seek" => handles[i][h].obj # NULL
    /\ needed \in {"free_obj", "reset_obj"} => handles[i][h].obj = NULL
    /\ needed = "create" => h = NULL \/ (h \in OpenHandles(i) /\ handles[i][h].obj # NULL)
    /\ needed \in EnumCmds => h \in OpenEnums(i)

\* Where a command has not used its handle yet.
Pending(i) == pc[i] \in Commands \cup {"with_id", "seek_info"}

\* A client that passes only handles it holds never gets its instance to panic.
Disciplined(i) ==
    /\ sess[i] # "dead" /\ pc[i] # "panic"
    /\ Pending(i) => Permits(i)

\* An instance by itself.
Local(i) ==
    /\ Control(i)
    /\ Temporaries(i)
    /\ OwnObject(i)
    /\ Enumerators(i)
    /\ HandlesKnown(i)
    /\ i \in Instances \ Misusers => Disciplined(i)

\* A handle with meta access is the only one on its object.
ExclusiveMeta ==
    \A i, j \in Instances : \A h \in OpenHandles(i), g \in OpenHandles(j) :
        "META" \in handles[i][h].flags /\ handles[i][h].obj = handles[j][g].obj => i = j /\ h = g

\* An open object exists; a transient one gives no access.
Stored ==
    \A i \in Instances : \A h \in OpenHandles(i) :
        IF handles[i][h].obj = NULL
        THEN handles[i][h].flags = {}
        ELSE handles[i][h].key \in Contents /\ store[handles[i][h].obj] # NULL

FInv == TypeInv /\ (\A i \in Instances : Local(i)) /\ ExclusiveMeta /\ Stored

\* The sessions that have generated a key, stored it and not deleted it.
Owning == KeyAllocated \cup {"open_key"}

\* Nobody renames, replaces or deletes objects except by key_in_persistent.
OnlyKeyCommands ==
    /\ \A i \in Instances : Uses[i] \cap {"rename", "unlink", "create_overwrite", "loop"} = {}
    /\ \A flags \in FlagChoices : "OVERWRITE" \notin flags

\* What a session stored is there, and nobody else stored it.
OwnKeys ==
    /\ \A i \in Instances : arg[i].cmd \notin {"rename", "unlink", "create_overwrite", "loop"}
                            /\ (arg[i].cmd = "create" => "OVERWRITE" \notin arg[i].flags)
    /\ \A i \in Instances : pc[i] \in Owning =>
           store[KeyObject(i)] # NULL /\ store[KeyObject(i)].attr = transient_key[i]
    /\ \A i, j \in Instances : pc[i] \in Owning /\ pc[j] \in Owning /\ i # j =>
           KeyObject(i) # KeyObject(j)
    /\ \A i \in Instances : pc[i] \in KeyAllocated =>
           handles[i][key[i]].key.attr = transient_key[i]

\* The objects that loop has come past, when no other session stores any.
CleanAt(i) ==
    /\ pc[i] \in LoopLabels => \A m \in 0..(n[i] - 1) : <<arg[i].obj[1], m>> \notin Present
    /\ pc[i] = "return" /\ arg[i].cmd = "loop" /\ ret[i].res = "SUCCESS" =>
           \A m \in 0..(LoopCount - 1) : <<arg[i].obj[1], m>> \notin Present

-----------------------------------------------------------------------------
(***************************************************************************)
(* What the calls of the TEE do.                                           *)
(***************************************************************************)

\* Everything of an instance and its client that Local is about.
Mine(i) == <<pc[i], arg[i], ret[i], object_id[i], transient_key[i], encrypt_op[i], key[i], n[i],
             stranded[i], sess[i], hpc[i], held[i], eheld[i], handles[i], OpenEnums(i)>>

\* What leaves Mine alone keeps Local.
LEMMA LocalFrame ==
    ASSUME NEW i \in Instances, Local(i), Mine(i)' = Mine(i)
    PROVE  Local(i)'
<1>1. /\ pc'[i] = pc[i] /\ arg'[i] = arg[i] /\ ret'[i] = ret[i]
      /\ object_id'[i] = object_id[i] /\ transient_key'[i] = transient_key[i]
      /\ encrypt_op'[i] = encrypt_op[i] /\ key'[i] = key[i] /\ n'[i] = n[i]
      /\ stranded'[i] = stranded[i] /\ sess'[i] = sess[i] /\ hpc'[i] = hpc[i]
      /\ held'[i] = held[i] /\ eheld'[i] = eheld[i] /\ handles'[i] = handles[i]
      /\ OpenEnums(i)' = OpenEnums(i)
  BY DEF Mine
<1>2. Control(i)' /\ Temporaries(i)'
  BY <1>1 DEF Local, Control, Fits, Temporaries
<1>3. OwnObject(i)'
  BY <1>1 DEF Local, OwnObject, Target, KeyObject
<1>4. Enumerators(i)'
  BY <1>1 DEF Local, Enumerators, JustAllocated, JustFreed
<1>5. HandlesKnown(i)'
  <2>1. /\ Opened(i)' <=> Opened(i)
        /\ Renamed(i)' <=> Renamed(i)
        /\ GivenUp(i)' <=> GivenUp(i)
        /\ Spare(i)' = Spare(i)
    BY <1>1 DEF Opened, Renamed, GivenUp, Spare
  <2>2. \A h \in HandleIds : Agree(i, h) => Agree(i, h)'
    BY <1>1, <2>1 DEF Agree
  <2>3. QED
    BY <1>1, <2>1, <2>2 DEF Local, HandlesKnown
<1>6. i \in Instances \ Misusers => Disciplined(i)'
  <2>1. Permits(i)' <=> Permits(i)
    BY <1>1 DEF Permits, OpenHandles, Granted
  <2>2. QED
    BY <1>1, <2>1 DEF Local, Disciplined, Pending
<1>7. QED
  BY <1>2, <1>3, <1>4, <1>5, <1>6 DEF Local

\* A running enumeration that is disturbed stays open.
LEMMA DisturbKeeps ==
    ASSUME TypeInv, NEW obj, Disturb(obj)
    PROVE  /\ enums' \in [Instances -> [EnumIds -> EnumRecords \cup {NULL}]]
           /\ \A j \in Instances : OpenEnums(j)' = OpenEnums(j)
<1> USE StorageAssumption DEF TypeInv, EnumRecords
<1>1. ASSUME NEW j \in Instances, NEW e \in EnumIds
      PROVE  /\ enums'[j][e] \in EnumRecords \cup {NULL}
             /\ enums'[j][e] = NULL <=> enums[j][e] = NULL
  <2>1. CASE enums[j][e] = NULL
    BY <2>1 DEF Disturb
  <2>2. CASE enums[j][e] # NULL
    <3>1. enums[j][e] \in EnumRecords
      BY <2>2
    <3>2. enums'[j][e] = [enums[j][e] EXCEPT !.base = @ \ {obj}, !.done = @ \ {obj}]
      BY <2>2 DEF Disturb
    <3>3. enums'[j][e] \in EnumRecords
      BY <3>1, <3>2
    <3>4. QED
      BY <2>2, <3>3
  <2>3. QED
    BY <2>1, <2>2
<1>2. \A j \in Instances : OpenEnums(j)' = OpenEnums(j)
  BY <1>1 DEF OpenEnums
<1> HIDE DEF EnumRecords
<1>3. enums' = [j \in Instances |-> [e \in EnumIds |-> enums'[j][e]]]
  BY DEF Disturb
<1>4. QED
  BY <1>1, <1>2, <1>3

\* No handle is new and no object changes.
Shrinks ==
    /\ UNCHANGED store
    /\ \A j \in Instances : \A h \in HandleIds : handles'[j][h] \in {handles[j][h], NULL}

\* Instance i has a new handle.
Gets(i, obj, flags, c) ==
    \E h \in HandleIds :
        /\ handles[i][h] = NULL
        /\ handles'[i] = [handles[i] EXCEPT ![h] = [obj |-> obj, flags |-> flags, key |-> c]]
        /\ ret'[i].res = "SUCCESS" /\ ret'[i].val = h

\* The handle is granted, and the object is what it was, or new.
Grants(i, obj, flags, c) ==
    /\ Gets(i, obj, flags, c)
    /\ ~AccessConflict(obj, flags)
    /\ store' = [store EXCEPT ![obj] = c]
    /\ c = store[obj] \/ ~Refuses(obj, flags)

Allocates(i) == Gets(i, NULL, {}, NULL) /\ UNCHANGED store

\* An object is stored without a handle.
Replaces(i, obj, c) ==
    /\ ~AccessConflict(obj, {"OVERWRITE"})
    /\ store' = [store EXCEPT ![obj] = c]
    /\ UNCHANGED handles

\* The object of a handle is deleted.
Deletes(i, h) ==
    /\ h \in Granted(i, "META")
    /\ handles'[i] = [handles[i] EXCEPT ![h] = NULL]
    /\ store' = [store EXCEPT ![handles[i][h].obj] = NULL]

\* The object of a handle has a new name.
Renames(i, h, name) ==
    LET old == handles[i][h].obj
        new == <<old[1], name>> IN
    /\ h \in Granted(i, "META")
    /\ store[new] = NULL /\ ~AccessConflict(new, handles[i][h].flags)
    /\ handles'[i] = [handles[i] EXCEPT ![h] = [obj |-> new, flags |-> @.flags, key |-> @.key]]
    /\ store' = [store EXCEPT ![new] = store[old], ![old] = NULL]

\* The data stream of the object of a handle changes.
Writes(i, h, d) ==
    /\ h \in Granted(i, "WRITE")
    /\ store' = [store EXCEPT ![handles[i][h].obj] = [attr |-> @.attr, data |-> d]]
    /\ UNCHANGED handles

\* What a step of instance i does to handles and objects.
Effect(i) ==
    \/ Shrinks
    \/ Allocates(i)
    \/ \E obj \in Objects, flags \in SUBSET StorageFlags, c \in Contents : Grants(i, obj, flags, c)
    \/ \E obj \in Objects, c \in Contents : Replaces(i, obj, c)
    \/ \E h \in HandleIds : Deletes(i, h)
    \/ \E h \in HandleIds, name \in Names : Renames(i, h, name)
    \/ \E h \in HandleIds, d \in Data : Writes(i, h, d)

\* A call of instance i keeps the types and touches nothing of the other instances,
\* except that an enumeration of theirs may be disturbed.
ApiFrame(i) ==
    /\ store' \in [Objects -> Contents \cup {NULL}]
    /\ handles' \in [Instances -> [HandleIds -> ObjectHandles \cup {NULL}]]
    /\ enums' \in [Instances -> [EnumIds -> EnumRecords \cup {NULL}]]
    /\ ret' \in [Instances -> [res : Results, val : Values]]
    /\ \A j \in Instances \ {i} : /\ handles'[j] = handles[j]
                                  /\ ret'[j] = ret[j]
                                  /\ OpenEnums(j)' = OpenEnums(j)
    /\ Effect(i)

\* A call that changes nothing but its result.
Same(i) == handles'[i] = handles[i] /\ OpenEnums(i)' = OpenEnums(i)

Dies(i) ==
    /\ ret'[i].res = "TARGET_DEAD"
    /\ \A h \in HandleIds : handles'[i][h] = NULL
    /\ OpenEnums(i)' = {}

\* A failure that is not a panic.
Refused(i) == ret'[i].res \notin {"SUCCESS", "TARGET_DEAD"} /\ ret'[i].val = NULL

\* A result is recorded for its instance only.
LEMMA ReturnsFrame ==
    ASSUME TypeInv, NEW i \in Instances, NEW r \in Results, NEW v \in Values, Returns(i, r, v)
    PROVE  /\ ret' \in [Instances -> [res : Results, val : Values]]
           /\ ret'[i].res = r /\ ret'[i].val = v
           /\ \A j \in Instances \ {i} : ret'[j] = ret[j]
BY DEF TypeInv, Returns

\* What leaves objects, handles and enumerators alone.
LEMMA PassiveApi ==
    ASSUME TypeInv, NEW i \in Instances, NEW r \in Results, NEW v \in Values, Returns(i, r, v),
           UNCHANGED <<store, handles, enums>>
    PROVE  ApiFrame(i) /\ Same(i) /\ ret'[i].res = r /\ ret'[i].val = v
<1>1. Shrinks
  BY DEF Shrinks
<1>2. QED
  BY <1>1, ReturnsFrame DEF ApiFrame, Effect, Same, OpenEnums, TypeInv

\* A call that fails changes nothing.
LEMMA FailsApi ==
    ASSUME TypeInv, NEW i \in Instances, NEW r \in Results, Fails(i, r)
    PROVE  ApiFrame(i) /\ Same(i) /\ ret'[i].res = r /\ ret'[i].val = NULL
<1>1. NULL \in Values /\ Returns(i, r, NULL) /\ UNCHANGED <<store, handles, enums>>
  BY DEF Values, Fails
<1>2. QED
  BY <1>1, PassiveApi

\* A panic takes all an instance has, and nothing of the others.
LEMMA PanicsApi ==
    ASSUME TypeInv, NEW i \in Instances, Panics(i)
    PROVE  ApiFrame(i) /\ Dies(i)
<1>1. NULL \in Values /\ Returns(i, "TARGET_DEAD", NULL)
  BY DEF Values, Panics
<1>2. /\ ret' \in [Instances -> [res : Results, val : Values]]
      /\ ret'[i].res = "TARGET_DEAD"
      /\ \A j \in Instances \ {i} : ret'[j] = ret[j]
  BY <1>1, ReturnsFrame DEF Results
<1>3. handles' \in [Instances -> [HandleIds -> ObjectHandles \cup {NULL}]]
      /\ \A h \in HandleIds : handles'[i][h] = NULL
      /\ \A j \in Instances \ {i} : handles'[j] = handles[j]
  BY DEF Panics, TypeInv
<1>4. enums' \in [Instances -> [EnumIds -> EnumRecords \cup {NULL}]]
      /\ \A e \in EnumIds : enums'[i][e] = NULL
      /\ \A j \in Instances \ {i} : enums'[j] = enums[j]
  BY DEF Panics, TypeInv
<1>5. Shrinks
  BY <1>3 DEF Shrinks, Panics
<1>6. QED
  BY <1>2, <1>3, <1>4, <1>5 DEF ApiFrame, Effect, Dies, OpenEnums, Panics, TypeInv

\* A new handle is one that was not in use, and belongs to its instance only.
LEMMA NewHandleApi ==
    ASSUME TypeInv, NEW i \in Instances, NEW obj \in Objects \cup {NULL},
           NEW flags \in SUBSET StorageFlags, NEW c \in Contents \cup {NULL},
           NewHandle(i, obj, flags, c)
    PROVE  /\ Gets(i, obj, flags, c)
           /\ handles' \in [Instances -> [HandleIds -> ObjectHandles \cup {NULL}]]
           /\ ret' \in [Instances -> [res : Results, val : Values]]
           /\ \A j \in Instances \ {i} : handles'[j] = handles[j] /\ ret'[j] = ret[j]
<1>1. PICK h \in HandleIds \ OpenHandles(i) :
        /\ handles' = [handles EXCEPT ![i][h] = [obj |-> obj, flags |-> flags, key |-> c]]
        /\ Returns(i, "SUCCESS", h)
  BY DEF NewHandle
<1>2. [obj |-> obj, flags |-> flags, key |-> c] \in ObjectHandles
  BY DEF ObjectHandles
<1>3. h \in Values
  BY DEF Values
<1>4. /\ ret' \in [Instances -> [res : Results, val : Values]]
      /\ ret'[i].res = "SUCCESS" /\ ret'[i].val = h
      /\ \A j \in Instances \ {i} : ret'[j] = ret[j]
  BY <1>1, <1>3 DEF Returns, Results, TypeInv
<1>5. handles[i][h] = NULL
  BY <1>1 DEF OpenHandles
<1>6. /\ handles' \in [Instances -> [HandleIds -> ObjectHandles \cup {NULL}]]
      /\ handles'[i] = [handles[i] EXCEPT ![h] = [obj |-> obj, flags |-> flags, key |-> c]]
      /\ \A j \in Instances \ {i} : handles'[j] = handles[j]
  BY <1>1, <1>2 DEF TypeInv
<1>7. QED
  BY <1>4, <1>5, <1>6 DEF Gets

\* TEE_CreatePersistentObject fails and changes nothing, or opens one new handle.
LEMMA CreateApi ==
    ASSUME TypeInv, NEW i \in Instances, NEW obj \in Objects, NEW flags \in SUBSET StorageFlags,
           NEW c \in Contents, TEE_CreatePersistentObject(i, obj, flags, c)
    PROVE  /\ ApiFrame(i)
           /\ \/ Refused(i) /\ Same(i) /\ UNCHANGED store
              \/ /\ Gets(i, obj, flags, c) /\ OpenEnums(i)' = OpenEnums(i)
                 /\ ~Refuses(obj, flags) /\ store' = [store EXCEPT ![obj] = c]
<1>1. CASE Fails(i, "STORAGE_NO_SPACE") \/ Fails(i, "ACCESS_CONFLICT")
  BY <1>1, FailsApi DEF Fails, Results, Refused
<1>2. CASE /\ ~Refuses(obj, flags) /\ NewHandle(i, obj, flags, c)
           /\ store' = [store EXCEPT ![obj] = c] /\ Disturb(obj)
  <2>1. store' \in [Objects -> Contents \cup {NULL}]
    BY <1>2 DEF TypeInv
  <2>2. /\ Gets(i, obj, flags, c)
        /\ handles' \in [Instances -> [HandleIds -> ObjectHandles \cup {NULL}]]
        /\ ret' \in [Instances -> [res : Results, val : Values]]
        /\ \A j \in Instances \ {i} : handles'[j] = handles[j] /\ ret'[j] = ret[j]
    BY <1>2, NewHandleApi
  <2>3. /\ enums' \in [Instances -> [EnumIds -> EnumRecords \cup {NULL}]]
        /\ \A j \in Instances : OpenEnums(j)' = OpenEnums(j)
    BY <1>2, DisturbKeeps
  <2>4. Grants(i, obj, flags, c)
    BY <1>2, <2>2 DEF Grants, Refuses
  <2>5. QED
    BY <1>2, <2>1, <2>2, <2>3, <2>4 DEF ApiFrame, Effect
<1>3. QED
  BY <1>1, <1>2 DEF TEE_CreatePersistentObject, CannotCreate

\* The same without a handle.
LEMMA CreateClosedApi ==
    ASSUME TypeInv, NEW i \in Instances, NEW obj \in Objects, NEW c \in Contents,
           CreateClosed(i, obj, {"OVERWRITE"}, c)
    PROVE  ApiFrame(i) /\ Same(i) /\ ret'[i].res # "TARGET_DEAD"
<1>1. CASE Fails(i, "STORAGE_NO_SPACE") \/ Fails(i, "ACCESS_CONFLICT")
  BY <1>1, FailsApi DEF Results
<1>2. CASE /\ ~Refuses(obj, {"OVERWRITE"}) /\ Returns(i, "SUCCESS", NULL)
           /\ store' = [store EXCEPT ![obj] = c] /\ Disturb(obj) /\ UNCHANGED handles
  <2>1. store' \in [Objects -> Contents \cup {NULL}]
    BY <1>2 DEF TypeInv
  <2>2. Replaces(i, obj, c)
    BY <1>2 DEF Replaces, Refuses
  <2>3. QED
    BY <1>2, <2>1, <2>2, ReturnsFrame, DisturbKeeps
       DEF ApiFrame, Effect, Same, TypeInv, Results, Values
<1>3. QED
  BY <1>1, <1>2 DEF CreateClosed, CannotCreate

\* TEE_OpenPersistentObject fails and changes nothing, or opens one new handle on an
\* object that exists.
LEMMA OpenApi ==
    ASSUME TypeInv, NEW i \in Instances, NEW obj \in Objects, NEW flags \in SUBSET StorageFlags,
           TEE_OpenPersistentObject(i, obj, flags)
    PROVE  /\ ApiFrame(i) /\ UNCHANGED store
           /\ \/ Refused(i) /\ Same(i)
              \/ Gets(i, obj, flags, store[obj]) /\ OpenEnums(i)' = OpenEnums(i)
<1>1. CASE Fails(i, "OUT_OF_MEMORY") \/ Fails(i, "ITEM_NOT_FOUND") \/ Fails(i, "ACCESS_CONFLICT")
  BY <1>1, FailsApi DEF Fails, Results, Refused
<1>2. CASE /\ obj \in Present /\ ~AccessConflict(obj, flags)
           /\ NewHandle(i, obj, flags, store[obj]) /\ UNCHANGED <<store, enums>>
  <2>1. store[obj] \in Contents
    BY <1>2 DEF Present, TypeInv
  <2>2. /\ Gets(i, obj, flags, store[obj])
        /\ handles' \in [Instances -> [HandleIds -> ObjectHandles \cup {NULL}]]
        /\ ret' \in [Instances -> [res : Results, val : Values]]
        /\ \A j \in Instances \ {i} : handles'[j] = handles[j] /\ ret'[j] = ret[j]
    BY <1>2, <2>1, NewHandleApi
  <2>3. store' = [store EXCEPT ![obj] = store[obj]]
    BY <1>2 DEF TypeInv
  <2>4. Grants(i, obj, flags, store[obj])
    BY <1>2, <2>2, <2>3 DEF Grants
  <2>5. QED
    BY <1>2, <2>1, <2>2, <2>4 DEF ApiFrame, Effect, OpenEnums, TypeInv
<1>3. QED
  BY <1>1, <1>2 DEF TEE_OpenPersistentObject

\* TEE_AllocateTransientObject fails, or opens a handle without an object.
LEMMA AllocateApi ==
    ASSUME TypeInv, NEW i \in Instances, TEE_AllocateTransientObject(i)
    PROVE  /\ ApiFrame(i)
           /\ \/ Refused(i) /\ Same(i)
              \/ Gets(i, NULL, {}, NULL) /\ OpenEnums(i)' = OpenEnums(i)
<1>1. CASE Fails(i, "OUT_OF_MEMORY")
  BY <1>1, FailsApi DEF Results, Refused
<1>2. CASE NewHandle(i, NULL, {}, NULL) /\ UNCHANGED <<store, enums>>
  <2>1. /\ Gets(i, NULL, {}, NULL)
        /\ handles' \in [Instances -> [HandleIds -> ObjectHandles \cup {NULL}]]
        /\ ret' \in [Instances -> [res : Results, val : Values]]
        /\ \A j \in Instances \ {i} : handles'[j] = handles[j] /\ ret'[j] = ret[j]
    BY <1>2, NewHandleApi
  <2>2. Allocates(i)
    BY <1>2, <2>1 DEF Allocates
  <2>3. QED
    BY <1>2, <2>1, <2>2 DEF ApiFrame, Effect, OpenEnums, TypeInv
<1>3. QED
  BY <1>1, <1>2 DEF TEE_AllocateTransientObject

\* A handle that is closed; the others of the instance stay.
GivesUp(i, h) == handles'[i] = [handles[i] EXCEPT ![h] = NULL] /\ OpenEnums(i)' = OpenEnums(i)

\* A closed handle concerns its instance only.
LEMMA CloseHandleFrame ==
    ASSUME TypeInv, NEW i \in Instances, NEW h \in HandleIds, CloseHandle(i, h)
    PROVE  /\ handles' \in [Instances -> [HandleIds -> ObjectHandles \cup {NULL}]]
           /\ handles'[i] = [handles[i] EXCEPT ![h] = NULL]
           /\ \A j \in Instances \ {i} : handles'[j] = handles[j]
           /\ UNCHANGED store => Shrinks
<1>1. /\ handles' \in [Instances -> [HandleIds -> ObjectHandles \cup {NULL}]]
      /\ handles'[i] = [handles[i] EXCEPT ![h] = NULL]
      /\ \A j \in Instances \ {i} : handles'[j] = handles[j]
  BY DEF CloseHandle, TypeInv
<1>2. ASSUME NEW j \in Instances, NEW g \in HandleIds
      PROVE  handles'[j][g] \in {handles[j][g], NULL}
  BY <1>1 DEF TypeInv
<1>3. QED
  BY <1>1, <1>2 DEF Shrinks

\* A handle that is closed without a change of its object.
LEMMA GiveUpApi ==
    ASSUME TypeInv, NEW i \in Instances, NEW h \in HandleIds, NEW r \in Results,
           CloseHandle(i, h), Returns(i, r, NULL), UNCHANGED <<store, enums>>
    PROVE  ApiFrame(i) /\ GivesUp(i, h) /\ ret'[i].res = r /\ ret'[i].val = NULL
<1>1. NULL \in Values
  BY DEF Values
<1>2. QED
  BY <1>1, CloseHandleFrame, ReturnsFrame DEF ApiFrame, Effect, GivesUp, OpenEnums, TypeInv

\* TEE_CloseObject panics unless the handle is open, and then closes it.
LEMMA CloseApi ==
    ASSUME TypeInv, NEW i \in Instances, NEW h \in HandleIds, TEE_CloseObject(i, h)
    PROVE  /\ ApiFrame(i)
           /\ \/ h \notin OpenHandles(i) /\ Dies(i)
              \/ h \in OpenHandles(i) /\ GivesUp(i, h) /\ ret'[i].res = "SUCCESS"
<1>1. CASE h \notin OpenHandles(i) /\ Panics(i)
  BY <1>1, PanicsApi
<1>2. CASE /\ h \in OpenHandles(i) /\ CloseHandle(i, h)
           /\ Returns(i, "SUCCESS", NULL) /\ UNCHANGED <<store, enums>>
  BY <1>2, GiveUpApi DEF Results
<1>3. QED
  BY <1>1, <1>2 DEF TEE_CloseObject

\* A persistent handle with a right names an object.
LEMMA GrantedFacts ==
    ASSUME TypeInv, Stored, NEW i \in Instances, NEW h, NEW right, h \in Granted(i, right)
    PROVE  /\ h \in HandleIds /\ h \in OpenHandles(i)
           /\ handles[i][h] # NULL /\ handles[i][h] \in ObjectHandles
           /\ handles[i][h].obj \in Objects /\ right \in handles[i][h].flags
           /\ store[handles[i][h].obj] \in Contents
<1>1. /\ h \in HandleIds /\ h \in OpenHandles(i) /\ handles[i][h] # NULL
      /\ handles[i][h].obj # NULL /\ right \in handles[i][h].flags
  BY DEF Granted, OpenHandles
<1>2. handles[i][h] \in ObjectHandles
  BY <1>1 DEF TypeInv
<1>3. handles[i][h].obj \in Objects
  BY <1>1, <1>2 DEF ObjectHandles
<1>4. store[handles[i][h].obj] \in Contents
  BY <1>1, <1>3 DEF Stored, TypeInv
<1>5. QED
  BY <1>1, <1>2, <1>3, <1>4

\* A handle with meta access is persistent.
LEMMA MetaGranted ==
    ASSUME Stored, NEW i \in Instances, NEW h, h \in OpenHandles(i), "META" \in handles[i][h].flags
    PROVE  h \in Granted(i, "META")
BY DEF Stored, Granted

\* Removing the object of a handle with meta access closes the handle.
LEMMA RemovesApi ==
    ASSUME TypeInv, Stored, NEW i \in Instances, NEW h \in Granted(i, "META"),
           Removes(i, h) \/ RemovesNot(i, h), NEW r \in Results, NEW v \in Values, Returns(i, r, v)
    PROVE  ApiFrame(i) /\ GivesUp(i, h) /\ ret'[i].res = r
<1>1. h \in HandleIds /\ handles[i][h].obj \in Objects
  BY GrantedFacts
<1>2. /\ CloseHandle(i, h)
      /\ handles' \in [Instances -> [HandleIds -> ObjectHandles \cup {NULL}]]
      /\ handles'[i] = [handles[i] EXCEPT ![h] = NULL]
      /\ \A j \in Instances \ {i} : handles'[j] = handles[j]
  BY <1>1, CloseHandleFrame DEF Removes, RemovesNot
<1>3. CASE Removes(i, h)
  <2>1. store' = [store EXCEPT ![handles[i][h].obj] = NULL]
        /\ store' \in [Objects -> Contents \cup {NULL}]
    BY <1>1, <1>3 DEF Removes, TypeInv
  <2>2. Deletes(i, h)
    BY <1>2, <2>1 DEF Deletes
  <2>3. /\ enums' \in [Instances -> [EnumIds -> EnumRecords \cup {NULL}]]
        /\ \A j \in Instances : OpenEnums(j)' = OpenEnums(j)
    BY <1>3, DisturbKeeps DEF Removes
  <2>4. QED
    BY <1>1, <1>2, <2>1, <2>2, <2>3, ReturnsFrame DEF ApiFrame, Effect, GivesUp
<1>4. CASE RemovesNot(i, h)
  <2>1. UNCHANGED <<store, enums>>
    BY <1>4 DEF RemovesNot
  <2>2. Shrinks
    BY <1>1, <1>2, <2>1, CloseHandleFrame
  <2>3. QED
    BY <1>2, <2>1, <2>2, ReturnsFrame DEF ApiFrame, Effect, GivesUp, OpenEnums, TypeInv
<1>5. QED
  BY <1>3, <1>4

\* TEE_CloseAndDeletePersistentObject1 panics without meta access; otherwise the
\* handle is gone, whether or not the object is.
LEMMA DeleteApi ==
    ASSUME TypeInv, Stored, NEW i \in Instances, NEW h \in HandleIds,
           TEE_CloseAndDeletePersistentObject1(i, h)
    PROVE  /\ ApiFrame(i)
           /\ \/ h \notin Granted(i, "META") /\ Dies(i)
              \/ /\ h \in Granted(i, "META") /\ GivesUp(i, h)
                 /\ ret'[i].res \in {"SUCCESS", "STORAGE_NOT_AVAILABLE"}
<1> DEFINE allowed == h \in OpenHandles(i) /\ "META" \in handles[i][h].flags
<1>1. allowed <=> h \in Granted(i, "META")
  <2>1. allowed => h \in Granted(i, "META")
    BY MetaGranted
  <2>2. QED
    BY <2>1 DEF Granted
<1>2. CASE ~allowed /\ Panics(i)
  BY <1>1, <1>2, PanicsApi
<1>3. CASE allowed /\ Removes(i, h) /\ Returns(i, "SUCCESS", NULL)
  BY <1>1, <1>3, RemovesApi DEF Results, Values
<1>4. CASE allowed /\ RemovesNot(i, h) /\ Returns(i, "STORAGE_NOT_AVAILABLE", NULL)
  BY <1>1, <1>4, RemovesApi DEF Results, Values
<1>5. QED
  BY <1>2, <1>3, <1>4 DEF TEE_CloseAndDeletePersistentObject1

\* Reading a stream changes nothing, or panics without the right.
LEMMA ReadDataApi ==
    ASSUME TypeInv, Stored, NEW i \in Instances, NEW h \in HandleIds, TEE_ReadObjectData(i, h)
    PROVE  /\ ApiFrame(i)
           /\ \/ h \notin Granted(i, "READ") /\ Dies(i)
              \/ Same(i) /\ ret'[i].res # "TARGET_DEAD"
<1>1. CASE h \notin Granted(i, "READ") /\ Panics(i)
  BY <1>1, PanicsApi
<1>2. CASE /\ h \in Granted(i, "READ")
           /\ Returns(i, "SUCCESS", store[handles[i][h].obj].data)
           /\ UNCHANGED <<store, handles, enums>>
  <2>1. store[handles[i][h].obj].data \in Values
    BY <1>2, GrantedFacts DEF Contents, Values
  <2>2. QED
    BY <1>2, <2>1, PassiveApi DEF Results
<1>3. QED
  BY <1>1, <1>2 DEF TEE_ReadObjectData

\* Writing and truncating change the stream of one object, or nothing, or panic.
LEMMA ChangeDataApi ==
    ASSUME TypeInv, Stored, NEW i \in Instances, NEW h \in HandleIds, NEW d \in Data,
           ChangeData(i, h, d)
    PROVE  /\ ApiFrame(i)
           /\ \/ h \notin Granted(i, "WRITE") /\ Dies(i)
              \/ Same(i) /\ ret'[i].res # "TARGET_DEAD"
<1>1. CASE h \notin Granted(i, "WRITE") /\ Panics(i)
  BY <1>1, PanicsApi
<1>2. CASE Fails(i, "STORAGE_NO_SPACE")
  BY <1>2, FailsApi DEF Results
<1>3. CASE /\ h \in Granted(i, "WRITE")
           /\ store' = [store EXCEPT ![handles[i][h].obj].data = d]
           /\ Returns(i, "SUCCESS", NULL)
           /\ UNCHANGED <<handles, enums>>
  <2>1. PICK o \in Objects : o = handles[i][h].obj
    BY <1>3, GrantedFacts
  <2>2. store[o] \in Contents
    BY <1>3, <2>1, GrantedFacts
  <2>3. [store[o] EXCEPT !.data = d] = [attr |-> store[o].attr, data |-> d]
    BY <2>2 DEF Contents
  <2>4. [attr |-> store[o].attr, data |-> d] \in Contents
    BY <2>2 DEF Contents
  <2>5. store' = [store EXCEPT ![o] = [attr |-> store[o].attr, data |-> d]]
    BY <1>3, <2>1, <2>3
  <2>6. store' \in [Objects -> Contents \cup {NULL}]
    BY <2>4, <2>5 DEF TypeInv
  <2>7. Writes(i, h, d)
    BY <1>3, <2>1, <2>5 DEF Writes
  <2>8. NULL \in Values /\ "SUCCESS" \in Results
    BY DEF Values, Results
  <2>9. /\ ret' \in [Instances -> [res : Results, val : Values]]
        /\ ret'[i].res = "SUCCESS"
        /\ \A j \in Instances \ {i} : ret'[j] = ret[j]
    BY <1>3, <2>8, ReturnsFrame
  <2>10. QED
    BY <1>3, <2>6, <2>7, <2>9 DEF ApiFrame, Effect, Same, OpenEnums, TypeInv
<1>4. QED
  BY <1>1, <1>2, <1>3 DEF ChangeData

\* A seek changes nothing, or panics on a transient object.
LEMMA SeekApi ==
    ASSUME TypeInv, NEW i \in Instances, NEW h \in HandleIds, TEE_SeekObjectData(i, h)
    PROVE  /\ ApiFrame(i)
           /\ \/ ~(h \in OpenHandles(i) /\ handles[i][h].obj # NULL) /\ Dies(i)
              \/ Same(i) /\ ret'[i].res # "TARGET_DEAD"
<1>1. CASE ~(h \in OpenHandles(i) /\ handles[i][h].obj # NULL) /\ Panics(i)
  BY <1>1, PanicsApi
<1>2. CASE \E r \in {"SUCCESS", "OVERFLOW"} : Fails(i, r)
  BY <1>2, FailsApi DEF Results
<1>3. QED
  BY <1>1, <1>2 DEF TEE_SeekObjectData

\* A handle whose object has a new name.
Moves(i, h, name) ==
    /\ handles'[i] = [handles[i] EXCEPT ![h] = [obj |-> <<@.obj[1], name>>, flags |-> @.flags,
                                                key |-> @.key]]
    /\ OpenEnums(i)' = OpenEnums(i)

\* TEE_RenamePersistentObject panics without meta access, changes nothing when the name
\* is taken, and otherwise moves the object of the handle.
LEMMA RenameApi ==
    ASSUME TypeInv, Stored, NEW i \in Instances, NEW h \in HandleIds, NEW name \in Names,
           TEE_RenamePersistentObject(i, h, name)
    PROVE  /\ ApiFrame(i)
           /\ \/ h \notin Granted(i, "META") /\ Dies(i)
              \/ Refused(i) /\ Same(i)
              \/ h \in Granted(i, "META") /\ Moves(i, h, name) /\ ret'[i].res = "SUCCESS"
<1> DEFINE old == handles[i][h].obj
           new == <<old[1], name>>
           taken == store[new] # NULL \/ AccessConflict(new, handles[i][h].flags)
<1>1. CASE h \notin Granted(i, "META") /\ Panics(i)
  BY <1>1, PanicsApi
<1>2. CASE Fails(i, "ACCESS_CONFLICT")
  BY <1>2, FailsApi DEF Results, Refused
<1>3. CASE /\ h \in Granted(i, "META") /\ ~taken
           /\ store' = [store EXCEPT ![new] = store[old], ![old] = NULL]
           /\ handles' = [handles EXCEPT ![i][h].obj = new]
           /\ Disturb(old)
           /\ Returns(i, "SUCCESS", NULL)
  <2>1. PICK r \in ObjectHandles, o \in Objects : r = handles[i][h] /\ o = old
    BY <1>3, GrantedFacts
  <2>2. new \in Objects
    BY <2>1 DEF Objects
  <2>3. store[old] \in Contents
    BY <1>3, GrantedFacts
  <2>4. store' \in [Objects -> Contents \cup {NULL}]
    BY <1>3, <2>1, <2>2, <2>3 DEF TypeInv
  <2>5. /\ [r EXCEPT !.obj = new] = [obj |-> new, flags |-> r.flags, key |-> r.key]
        /\ [r EXCEPT !.obj = new] \in ObjectHandles
    BY <2>1, <2>2 DEF ObjectHandles
  <2>6. /\ handles' \in [Instances -> [HandleIds -> ObjectHandles \cup {NULL}]]
        /\ handles'[i] = [handles[i] EXCEPT ![h] = [obj |-> new, flags |-> r.flags, key |-> r.key]]
        /\ \A j \in Instances \ {i} : handles'[j] = handles[j]
    <3>1. handles' = [handles EXCEPT ![i] = [handles[i] EXCEPT ![h] = [r EXCEPT !.obj = new]]]
      BY <1>3, <2>1
    <3>2. QED
      BY <2>5, <3>1 DEF TypeInv
  <2>7. Renames(i, h, name)
    BY <1>3, <2>1, <2>6 DEF Renames
  <2>8. Moves(i, h, name) /\ \A j \in Instances : OpenEnums(j)' = OpenEnums(j)
    BY <1>3, <2>1, <2>6, DisturbKeeps DEF Moves
  <2>9. enums' \in [Instances -> [EnumIds -> EnumRecords \cup {NULL}]]
    BY <1>3, DisturbKeeps
  <2>10. NULL \in Values /\ "SUCCESS" \in Results
    BY DEF Values, Results
  <2>11. /\ ret' \in [Instances -> [res : Results, val : Values]]
         /\ ret'[i].res = "SUCCESS"
         /\ \A j \in Instances \ {i} : ret'[j] = ret[j]
    BY <1>3, <2>10, ReturnsFrame
  <2> HIDE DEF new, old
  <2>12. QED
    BY <1>3, <2>4, <2>6, <2>7, <2>8, <2>9, <2>11 DEF ApiFrame, Effect
<1>4. QED
  BY <1>1, <1>2, <1>3 DEF TEE_RenamePersistentObject

\* Freeing and resetting a transient object.
LEMMA TransientApi ==
    ASSUME TypeInv, NEW i \in Instances, NEW h \in HandleIds, NEW free \in BOOLEAN,
           OnTransient(i, h, free)
    PROVE  /\ ApiFrame(i)
           /\ \/ ~(h \in OpenHandles(i) /\ handles[i][h].obj = NULL) /\ Dies(i)
              \/ /\ h \in OpenHandles(i) /\ handles[i][h].obj = NULL
                 /\ ret'[i].res = "SUCCESS"
                 /\ IF free THEN GivesUp(i, h) ELSE Same(i)
<1>1. CASE ~(h \in OpenHandles(i) /\ handles[i][h].obj = NULL) /\ Panics(i)
  BY <1>1, PanicsApi
<1>2. CASE /\ h \in OpenHandles(i) /\ handles[i][h].obj = NULL
           /\ IF free THEN CloseHandle(i, h) ELSE UNCHANGED handles
           /\ Returns(i, "SUCCESS", NULL) /\ UNCHANGED <<store, enums>>
  <2>1. NULL \in Values /\ "SUCCESS" \in Results
    BY DEF Values, Results
  <2>2. CASE free
    BY <1>2, <2>1, <2>2, GiveUpApi
  <2>3. CASE ~free
    BY <1>2, <2>1, <2>3, PassiveApi
  <2>4. QED
    BY <2>2, <2>3
<1>3. QED
  BY <1>1, <1>2 DEF OnTransient

\* Reading an object changes nothing, or panics when the handle is not open.
LEMMA ReadApi ==
    ASSUME TypeInv, NEW i \in Instances, NEW h \in HandleIds, ReadObject(i, h)
    PROVE  /\ ApiFrame(i)
           /\ \/ h \notin OpenHandles(i) /\ Dies(i)
              \/ Same(i) /\ ret'[i].res # "TARGET_DEAD"
<1>1. CASE h \notin OpenHandles(i) /\ Panics(i)
  BY <1>1, PanicsApi
<1>2. CASE Fails(i, "SHORT_BUFFER")
  BY <1>2, FailsApi DEF Results
<1>3. CASE /\ h \in OpenHandles(i)
           /\ Returns(i, "SUCCESS", handles[i][h].key) /\ UNCHANGED <<store, handles, enums>>
  <2>1. handles[i][h].key \in Values
    BY <1>3 DEF OpenHandles, TypeInv, ObjectHandles, Values
  <2>2. QED
    BY <1>3, <2>1, PassiveApi DEF Results
<1>4. QED
  BY <1>1, <1>2, <1>3 DEF ReadObject

\* Setting an enumerator opens or closes that one only.
LEMMA SetEnumApi ==
    ASSUME TypeInv, NEW i \in Instances, NEW e \in EnumIds, NEW r \in Results, NEW v \in Values,
           NEW value \in EnumRecords \cup {NULL}, SetEnum(i, e, value), Returns(i, r, v)
    PROVE  /\ ApiFrame(i) /\ handles'[i] = handles[i]
           /\ ret'[i].res = r /\ ret'[i].val = v
           /\ value = NULL => OpenEnums(i)' = OpenEnums(i) \ {e}
           /\ value # NULL => OpenEnums(i)' = OpenEnums(i) \cup {e}
<1>1. /\ enums' \in [Instances -> [EnumIds -> EnumRecords \cup {NULL}]]
      /\ \A j \in Instances \ {i} : enums'[j] = enums[j]
      /\ enums'[i] = [enums[i] EXCEPT ![e] = value]
      /\ UNCHANGED <<store, handles>>
  BY DEF SetEnum, TypeInv
<1>2. /\ \A j \in Instances \ {i} : OpenEnums(j)' = OpenEnums(j)
      /\ value = NULL => OpenEnums(i)' = OpenEnums(i) \ {e}
      /\ value # NULL => OpenEnums(i)' = OpenEnums(i) \cup {e}
  BY <1>1 DEF OpenEnums, TypeInv
<1>3. Shrinks
  BY <1>1 DEF Shrinks
<1>4. QED
  BY <1>1, <1>2, <1>3, ReturnsFrame DEF ApiFrame, Effect, TypeInv

\* TEE_AllocatePersistentObjectEnumerator fails, or opens an enumerator not in use.
LEMMA AllocEnumApi ==
    ASSUME TypeInv, NEW i \in Instances, TEE_AllocatePersistentObjectEnumerator(i)
    PROVE  /\ ApiFrame(i)
           /\ \/ Refused(i) /\ Same(i)
              \/ \E e \in EnumIds \ OpenEnums(i) :
                    /\ ret'[i].res = "SUCCESS" /\ ret'[i].val = e
                    /\ handles'[i] = handles[i]
                    /\ OpenEnums(i)' = OpenEnums(i) \cup {e}
<1>1. CASE Fails(i, "OUT_OF_MEMORY")
  BY <1>1, FailsApi DEF Results, Refused
<1>2. CASE \E e \in EnumIds \ OpenEnums(i) : SetEnum(i, e, Stopped) /\ Returns(i, "SUCCESS", e)
  <2>1. PICK e \in EnumIds \ OpenEnums(i) : SetEnum(i, e, Stopped) /\ Returns(i, "SUCCESS", e)
    BY <1>2
  <2>2. Stopped \in EnumRecords /\ Stopped # NULL
    BY StorageAssumption DEF Stopped, EnumRecords
  <2>3. "SUCCESS" \in Results /\ e \in Values
    BY DEF Results, Values
  <2>4. QED
    BY <2>1, <2>2, <2>3, SetEnumApi
<1>3. QED
  BY <1>1, <1>2 DEF TEE_AllocatePersistentObjectEnumerator

\* TEE_FreePersistentObjectEnumerator closes an open enumerator.
LEMMA FreeEnumApi ==
    ASSUME TypeInv, NEW i \in Instances, NEW e \in EnumIds,
           TEE_FreePersistentObjectEnumerator(i, e)
    PROVE  /\ ApiFrame(i)
           /\ \/ e \notin OpenEnums(i) /\ Dies(i)
              \/ /\ OpenEnums(i)' = OpenEnums(i) \ {e}
                 /\ handles'[i] = handles[i] /\ ret'[i].res = "SUCCESS"
<1>1. CASE e \notin OpenEnums(i) /\ Panics(i)
  BY <1>1, PanicsApi
<1>2. CASE SetEnum(i, e, NULL) /\ Returns(i, "SUCCESS", NULL)
  BY <1>2, SetEnumApi DEF Results, Values
<1>3. QED
  BY <1>1, <1>2 DEF TEE_FreePersistentObjectEnumerator

\* Resetting, starting and advancing an open enumerator keep it open.
LEMMA UseEnumApi ==
    ASSUME TypeInv, NEW i \in Instances, NEW e \in EnumIds,
           \/ TEE_ResetPersistentObjectEnumerator(i, e)
           \/ \E sid \in Storages : TEE_StartPersistentObjectEnumerator(i, e, sid)
           \/ TEE_GetNextPersistentObject(i, e)
    PROVE  /\ ApiFrame(i)
           /\ \/ e \notin OpenEnums(i) /\ Dies(i)
              \/ Same(i) /\ ret'[i].res # "TARGET_DEAD"
<1>1. CASE e \notin OpenEnums(i) /\ Panics(i)
  BY <1>1, PanicsApi
<1>2. CASE Fails(i, "ITEM_NOT_FOUND") \/ Fails(i, "CORRUPT_OBJECT")
  BY <1>2, FailsApi DEF Results
<1>3. ASSUME e \in OpenEnums(i),
             NEW value \in EnumRecords, NEW r \in Results, NEW v \in Values,
             SetEnum(i, e, value), Returns(i, r, v), r # "TARGET_DEAD"
      PROVE  ApiFrame(i) /\ Same(i) /\ ret'[i].res # "TARGET_DEAD"
  <2>1. value # NULL
    BY StorageAssumption
  <2>2. OpenEnums(i) \cup {e} = OpenEnums(i)
    BY <1>3
  <2>3. QED
    BY <1>3, <2>1, <2>2, SetEnumApi DEF Same
<1>4. Stopped \in EnumRecords /\ NULL \in Values
  BY DEF Stopped, EnumRecords, Values
<1>5. CASE TEE_ResetPersistentObjectEnumerator(i, e)
  BY <1>1, <1>3, <1>4, <1>5 DEF TEE_ResetPersistentObjectEnumerator, Results
<1>6. ASSUME NEW sid \in Storages, TEE_StartPersistentObjectEnumerator(i, e, sid)
      PROVE  /\ ApiFrame(i)
             /\ \/ e \notin OpenEnums(i) /\ Dies(i)
                \/ Same(i) /\ ret'[i].res # "TARGET_DEAD"
  <2>1. [sid |-> sid, base |-> InStorage(sid), done |-> {}] \in EnumRecords
    BY DEF EnumRecords, InStorage, Present
  <2>2. QED
    BY <1>1, <1>3, <1>4, <1>6, <2>1 DEF TEE_StartPersistentObjectEnumerator, Results
<1>7. CASE TEE_GetNextPersistentObject(i, e)
  <2> DEFINE en == enums[i][e]
  <2>1. ASSUME e \in OpenEnums(i), NEW o \in InStorage(en.sid) \ en.done,
               SetEnum(i, e, [en EXCEPT !.done = @ \cup {o}]), Returns(i, "SUCCESS", o)
        PROVE  ApiFrame(i) /\ Same(i) /\ ret'[i].res # "TARGET_DEAD"
    <3>1. o \in Objects /\ o \in Values /\ en \in EnumRecords
      BY <2>1 DEF InStorage, Present, Values, OpenEnums, TypeInv
    <3>2. [en EXCEPT !.done = @ \cup {o}] \in EnumRecords
      BY <3>1 DEF EnumRecords
    <3>3. QED
      BY <1>3, <2>1, <3>1, <3>2 DEF Results
  <2>2. QED
    BY <1>1, <1>2, <1>7, <2>1 DEF TEE_GetNextPersistentObject
<1>8. QED
  BY <1>5, <1>6, <1>7

-----------------------------------------------------------------------------
(***************************************************************************)
(* Who has access to an object.                                            *)
(***************************************************************************)

\* The objects that the other sessions have open with meta access are left alone.
OthersKept(i) ==
    \A j \in Instances \ {i} : \A g \in Granted(j, "META") :
        store'[handles[j][g].obj] = store[handles[j][g].obj]

Kept(i) == ExclusiveMeta' /\ Stored' /\ OthersKept(i)

\* Giving up handles takes nothing from the others.
LEMMA ShrinksKeeps ==
    ASSUME ExclusiveMeta, Stored, NEW i \in Instances, Shrinks
    PROVE  Kept(i)
<1>1. \A j \in Instances : \A h \in OpenHandles(j)' :
        h \in OpenHandles(j) /\ handles'[j][h] = handles[j][h]
  BY DEF Shrinks, OpenHandles
<1>2. QED
  BY <1>1 DEF Kept, ExclusiveMeta, Stored, OthersKept, Shrinks

\* A new handle, and that the others are as they were.
LEMMA GetsFrame ==
    ASSUME TypeInv, NEW i \in Instances, ApiFrame(i), NEW obj \in Objects \cup {NULL},
           NEW flags \in SUBSET StorageFlags, NEW c \in Contents \cup {NULL}, Gets(i, obj, flags, c)
    PROVE  \E h \in HandleIds :
             /\ handles[i][h] = NULL
             /\ handles'[i][h] # NULL
             /\ handles'[i][h].obj = obj /\ handles'[i][h].flags = flags /\ handles'[i][h].key = c
             /\ ret'[i].res = "SUCCESS" /\ ret'[i].val = h
             /\ \A g \in HandleIds \ {h} : handles'[i][g] = handles[i][g]
             /\ \A j \in Instances : \A g \in OpenHandles(j)' :
                    ~(j = i /\ g = h) => g \in OpenHandles(j) /\ handles'[j][g] = handles[j][g]
<1>1. PICK h \in HandleIds :
        /\ handles[i][h] = NULL
        /\ handles'[i] = [handles[i] EXCEPT ![h] = [obj |-> obj, flags |-> flags, key |-> c]]
        /\ ret'[i].res = "SUCCESS" /\ ret'[i].val = h
  BY DEF Gets
<1>2. /\ handles'[i][h] = [obj |-> obj, flags |-> flags, key |-> c]
      /\ \A g \in HandleIds \ {h} : handles'[i][g] = handles[i][g]
  BY <1>1 DEF TypeInv
<1>3. [obj |-> obj, flags |-> flags, key |-> c] # NULL
  <2>1. [obj |-> obj, flags |-> flags, key |-> c] \in ObjectHandles
    BY DEF ObjectHandles
  <2>2. QED
    BY <2>1, StorageTaAssumption
<1>4. \A j \in Instances \ {i} : handles'[j] = handles[j]
  BY DEF ApiFrame
<1>5. \A j \in Instances : \A g \in OpenHandles(j)' :
          ~(j = i /\ g = h) => g \in OpenHandles(j) /\ handles'[j][g] = handles[j][g]
  BY <1>2, <1>4 DEF OpenHandles
<1>6. QED
  BY <1>1, <1>2, <1>3, <1>5

\* A handle is granted only if it and the open ones do not exclude each other.
LEMMA GrantsKeeps ==
    ASSUME TypeInv, ExclusiveMeta, Stored, NEW i \in Instances, ApiFrame(i),
           NEW obj \in Objects, NEW flags \in SUBSET StorageFlags, NEW c \in Contents,
           Grants(i, obj, flags, c)
    PROVE  Kept(i)
<1>1. /\ Gets(i, obj, flags, c) /\ ~AccessConflict(obj, flags)
      /\ store' = [store EXCEPT ![obj] = c]
  BY DEF Grants
<1>2. PICK m \in HandleIds :
        /\ handles'[i][m].obj = obj /\ handles'[i][m].flags = flags /\ handles'[i][m].key = c
        /\ \A j \in Instances : \A g \in OpenHandles(j)' :
              ~(j = i /\ g = m) => g \in OpenHandles(j) /\ handles'[j][g] = handles[j][g]
  <2>1. obj \in Objects \cup {NULL} /\ c \in Contents \cup {NULL}
    OBVIOUS
  <2>2. QED
    BY <1>1, <2>1, GetsFrame
<1>3. \A j \in Instances : \A h \in OpenHandles(j) :
          handles[j][h].obj = obj => "META" \notin handles[j][h].flags \cup flags
  BY <1>1 DEF AccessConflict, Excludes
<1>4. ExclusiveMeta'
  <2> SUFFICES ASSUME NEW j \in Instances, NEW k \in Instances,
                      NEW h \in OpenHandles(j)', NEW g \in OpenHandles(k)',
                      "META" \in handles'[j][h].flags, handles'[j][h].obj = handles'[k][g].obj
               PROVE  j = k /\ h = g
    BY DEF ExclusiveMeta
  <2>1. CASE j = i /\ h = m
    BY <1>2, <1>3, <2>1
  <2>2. CASE k = i /\ g = m
    BY <1>2, <1>3, <2>2
  <2>3. CASE ~(j = i /\ h = m) /\ ~(k = i /\ g = m)
    BY <1>2, <2>3 DEF ExclusiveMeta
  <2>4. QED
    BY <2>1, <2>2, <2>3
<1>5. /\ store'[obj] = c /\ c # NULL /\ NULL \notin Objects
      /\ \A o \in Objects \ {obj} : store'[o] = store[o]
  BY <1>1, StorageTaAssumption DEF TypeInv
<1>6. \A j \in Instances : \A h \in OpenHandles(j) :
          handles[j][h].obj \in Objects \cup {NULL}
  BY DEF OpenHandles, TypeInv, ObjectHandles
<1>7. Stored'
  <2> SUFFICES ASSUME NEW j \in Instances, NEW h \in OpenHandles(j)'
               PROVE  IF handles'[j][h].obj = NULL THEN handles'[j][h].flags = {}
                      ELSE handles'[j][h].key \in Contents /\ store'[handles'[j][h].obj] # NULL
    BY DEF Stored
  <2>1. CASE j = i /\ h = m
    BY <1>2, <1>5, <2>1
  <2>2. CASE ~(j = i /\ h = m)
    <3>1. h \in OpenHandles(j) /\ handles'[j][h] = handles[j][h]
      BY <1>2, <2>2
    <3>2. QED
      BY <1>5, <1>6, <3>1 DEF Stored
  <2>3. QED
    BY <2>1, <2>2
<1>8. OthersKept(i)
  BY <1>3, <1>5, <1>6 DEF OthersKept, Granted
<1>9. QED
  BY <1>4, <1>7, <1>8 DEF Kept

\* A transient object concerns nobody else.
LEMMA AllocatesKeeps ==
    ASSUME TypeInv, ExclusiveMeta, Stored, NEW i \in Instances, ApiFrame(i), Allocates(i)
    PROVE  Kept(i)
<1>1. Gets(i, NULL, {}, NULL) /\ UNCHANGED store
  BY DEF Allocates
<1>2. PICK m \in HandleIds :
        /\ handles'[i][m].obj = NULL /\ handles'[i][m].flags = {}
        /\ \A j \in Instances : \A g \in OpenHandles(j)' :
              ~(j = i /\ g = m) => g \in OpenHandles(j) /\ handles'[j][g] = handles[j][g]
  BY <1>1, GetsFrame
<1>3. \A j \in Instances : \A h \in OpenHandles(j) :
          "META" \in handles[j][h].flags => handles[j][h].obj # NULL
  BY DEF Stored
<1>4. ExclusiveMeta'
  <2> SUFFICES ASSUME NEW j \in Instances, NEW k \in Instances,
                      NEW h \in OpenHandles(j)', NEW g \in OpenHandles(k)',
                      "META" \in handles'[j][h].flags, handles'[j][h].obj = handles'[k][g].obj
               PROVE  j = k /\ h = g
    BY DEF ExclusiveMeta
  <2>1. ~(j = i /\ h = m)
    BY <1>2
  <2>2. ~(k = i /\ g = m)
    BY <1>2, <1>3, <2>1
  <2>3. QED
    BY <1>2, <2>1, <2>2 DEF ExclusiveMeta
<1>5. Stored'
  BY <1>1, <1>2 DEF Stored
<1>6. QED
  BY <1>1, <1>4, <1>5 DEF Kept, OthersKept

\* What an object holds changes without a handle being opened or closed, and only if no
\* other session has meta access to it.
LEMMA RewritesKeeps ==
    ASSUME TypeInv, ExclusiveMeta, Stored, NEW i \in Instances, UNCHANGED handles,
           NEW obj \in Objects, NEW c \in Contents, store' = [store EXCEPT ![obj] = c],
           \A j \in Instances \ {i} : \A g \in Granted(j, "META") : handles[j][g].obj # obj
    PROVE  Kept(i)
<1>1. /\ store'[obj] = c /\ c # NULL /\ NULL \notin Objects
      /\ \A o \in Objects \ {obj} : store'[o] = store[o]
  BY StorageTaAssumption DEF TypeInv
<1>2. \A j \in Instances : /\ OpenHandles(j)' = OpenHandles(j)
                           /\ \A h \in OpenHandles(j) : handles[j][h].obj \in Objects \cup {NULL}
  BY DEF OpenHandles, TypeInv, ObjectHandles
<1>3. Stored'
  BY <1>1, <1>2 DEF Stored
<1>4. OthersKept(i)
  BY <1>1, <1>2 DEF OthersKept, Granted
<1>5. QED
  BY <1>2, <1>3, <1>4 DEF Kept, ExclusiveMeta

\* An object is replaced only if nobody has meta access to it.
LEMMA ReplacesKeeps ==
    ASSUME TypeInv, ExclusiveMeta, Stored, NEW i \in Instances,
           NEW obj \in Objects, NEW c \in Contents, Replaces(i, obj, c)
    PROVE  Kept(i)
<1>1. \A j \in Instances \ {i} : \A g \in Granted(j, "META") : handles[j][g].obj # obj
  BY DEF Replaces, AccessConflict, Excludes, Granted
<1>2. QED
  BY <1>1, RewritesKeeps DEF Replaces

\* A stream is written through a handle, which excludes meta access of others.
LEMMA WritesKeeps ==
    ASSUME TypeInv, ExclusiveMeta, Stored, NEW i \in Instances,
           NEW h \in HandleIds, NEW d \in Data, Writes(i, h, d)
    PROVE  Kept(i)
<1>1. /\ h \in OpenHandles(i)
      /\ handles[i][h].obj \in Objects /\ store[handles[i][h].obj] \in Contents
  BY GrantedFacts DEF Writes
<1>2. PICK obj \in Objects, c \in Contents :
        obj = handles[i][h].obj /\ c = [attr |-> store[obj].attr, data |-> d]
  BY <1>1 DEF Contents
<1>3. store' = [store EXCEPT ![obj] = c] /\ UNCHANGED handles
  BY <1>2 DEF Writes
<1>4. \A j \in Instances \ {i} : \A g \in Granted(j, "META") : handles[j][g].obj # obj
  BY <1>1, <1>2 DEF ExclusiveMeta, Granted
<1>5. QED
  BY <1>3, <1>4, RewritesKeeps

\* An object is deleted through a handle that nobody shares.
LEMMA DeletesKeeps ==
    ASSUME TypeInv, ExclusiveMeta, Stored, NEW i \in Instances, ApiFrame(i),
           NEW h \in HandleIds, Deletes(i, h)
    PROVE  Kept(i)
<1>1. /\ h \in OpenHandles(i) /\ "META" \in handles[i][h].flags
      /\ handles[i][h].obj \in Objects
  BY GrantedFacts DEF Deletes
<1>2. /\ handles'[i][h] = NULL
      /\ \A g \in HandleIds \ {h} : handles'[i][g] = handles[i][g]
  BY DEF Deletes, TypeInv
<1>3. ASSUME NEW j \in Instances, NEW g \in OpenHandles(j)'
      PROVE  /\ g \in OpenHandles(j) /\ handles'[j][g] = handles[j][g]
             /\ handles[j][g].obj # handles[i][h].obj
  <2>1. g \in OpenHandles(j) /\ handles'[j][g] = handles[j][g] /\ ~(j = i /\ g = h)
    BY <1>2, <1>3 DEF ApiFrame, OpenHandles
  <2>2. QED
    BY <1>1, <2>1 DEF ExclusiveMeta
<1>4. ExclusiveMeta'
  BY <1>3 DEF ExclusiveMeta
<1>5. \A o \in Objects \ {handles[i][h].obj} : store'[o] = store[o]
  BY DEF Deletes, TypeInv
<1>6. \A j \in Instances : \A g \in OpenHandles(j) :
          handles[j][g].obj \in Objects \cup {NULL}
  BY DEF OpenHandles, TypeInv, ObjectHandles
<1>7. Stored'
  BY <1>3, <1>5, <1>6 DEF Stored
<1>8. OthersKept(i)
  <2> SUFFICES ASSUME NEW j \in Instances \ {i}, NEW g \in Granted(j, "META")
               PROVE  store'[handles[j][g].obj] = store[handles[j][g].obj]
    BY DEF OthersKept
  <2>1. g \in OpenHandles(j) /\ handles[j][g].obj \in Objects
    BY GrantedFacts
  <2>2. handles[j][g].obj # handles[i][h].obj
    BY <1>1, <2>1 DEF ExclusiveMeta
  <2>3. QED
    BY <1>5, <2>1, <2>2
<1>9. QED
  BY <1>4, <1>7, <1>8 DEF Kept

\* An object is renamed through a handle that nobody shares, to a name nobody uses.
LEMMA RenamesKeeps ==
    ASSUME TypeInv, ExclusiveMeta, Stored, NEW i \in Instances, ApiFrame(i),
           NEW h \in HandleIds, NEW name \in Names, Renames(i, h, name)
    PROVE  Kept(i)
<1>1. /\ h \in OpenHandles(i) /\ "META" \in handles[i][h].flags
      /\ handles[i][h].obj \in Objects /\ handles[i][h] \in ObjectHandles
      /\ store[handles[i][h].obj] \in Contents
  BY GrantedFacts DEF Renames
<1>2. PICK old \in Objects, new \in Objects :
        old = handles[i][h].obj /\ new = <<old[1], name>>
  BY <1>1 DEF Objects
<1>3. /\ store[new] = NULL /\ ~AccessConflict(new, handles[i][h].flags)
      /\ handles'[i] = [handles[i] EXCEPT ![h] = [obj |-> new, flags |-> @.flags, key |-> @.key]]
      /\ store' = [store EXCEPT ![new] = store[old], ![old] = NULL]
  BY <1>2 DEF Renames
<1>4. /\ handles'[i][h].obj = new
      /\ handles'[i][h].flags = handles[i][h].flags /\ handles'[i][h].key = handles[i][h].key
      /\ \A g \in HandleIds \ {h} : handles'[i][g] = handles[i][g]
  BY <1>3 DEF TypeInv
<1>5. /\ store[old] # NULL /\ new # old /\ NULL \notin Objects
      /\ store'[new] = store[old]
      /\ \A o \in Objects \ {old, new} : store'[o] = store[o]
  <2>1. store[old] # NULL /\ NULL \notin Objects
    BY <1>1, <1>2, StorageTaAssumption
  <2>2. new # old
    BY <1>3, <2>1
  <2>3. QED
    BY <1>3, <2>1, <2>2 DEF TypeInv
<1>6. ASSUME NEW j \in Instances, NEW g \in OpenHandles(j), ~(j = i /\ g = h)
      PROVE  /\ handles[j][g].obj \notin {old, new}
             /\ handles[j][g].obj \in Objects \cup {NULL}
  <2>1. handles[j][g].obj # old
    BY <1>1, <1>2, <1>6 DEF ExclusiveMeta
  <2>2. handles[j][g].obj # new
    BY <1>1, <1>3 DEF AccessConflict, Excludes
  <2>3. QED
    BY <2>1, <2>2 DEF OpenHandles, TypeInv, ObjectHandles
<1>7. ASSUME NEW j \in Instances, NEW g \in OpenHandles(j)', ~(j = i /\ g = h)
      PROVE  g \in OpenHandles(j) /\ handles'[j][g] = handles[j][g]
  BY <1>4, <1>7 DEF ApiFrame, OpenHandles
<1>8. ExclusiveMeta'
  <2> SUFFICES ASSUME NEW j \in Instances, NEW k \in Instances,
                      NEW f \in OpenHandles(j)', NEW g \in OpenHandles(k)',
                      "META" \in handles'[j][f].flags, handles'[j][f].obj = handles'[k][g].obj
               PROVE  j = k /\ f = g
    BY DEF ExclusiveMeta
  <2>1. CASE j = i /\ f = h
    BY <1>4, <1>6, <1>7, <2>1
  <2>2. CASE k = i /\ g = h
    BY <1>4, <1>6, <1>7, <2>2
  <2>3. CASE ~(j = i /\ f = h) /\ ~(k = i /\ g = h)
    BY <1>7, <2>3 DEF ExclusiveMeta
  <2>4. QED
    BY <2>1, <2>2, <2>3
<1>9. Stored'
  <2> SUFFICES ASSUME NEW j \in Instances, NEW g \in OpenHandles(j)'
               PROVE  IF handles'[j][g].obj = NULL THEN handles'[j][g].flags = {}
                      ELSE handles'[j][g].key \in Contents /\ store'[handles'[j][g].obj] # NULL
    BY DEF Stored
  <2>1. CASE j = i /\ g = h
    <3>1. handles[i][h].obj # NULL /\ handles[i][h].key \in Contents
      BY <1>1, <1>5 DEF Stored
    <3>2. QED
      BY <1>4, <1>5, <2>1, <3>1
  <2>2. CASE ~(j = i /\ g = h)
    <3>1. g \in OpenHandles(j) /\ handles'[j][g] = handles[j][g]
      BY <1>7, <2>2
    <3>2. handles[j][g].obj \notin {old, new} /\ handles[j][g].obj \in Objects \cup {NULL}
      BY <1>6, <2>2, <3>1
    <3>3. QED
      BY <1>5, <3>1, <3>2 DEF Stored
  <2>3. QED
    BY <2>1, <2>2
<1>10. OthersKept(i)
  <2> SUFFICES ASSUME NEW j \in Instances \ {i}, NEW g \in Granted(j, "META")
               PROVE  store'[handles[j][g].obj] = store[handles[j][g].obj]
    BY DEF OthersKept
  <2>1. g \in OpenHandles(j) /\ handles[j][g].obj \in Objects
    BY GrantedFacts
  <2>2. QED
    BY <1>5, <1>6, <2>1
<1>11. QED
  BY <1>8, <1>9, <1>10 DEF Kept

\* Whatever a session does, meta access stays exclusive, open objects exist and what
\* others have meta access to is left alone.
LEMMA EffectKeeps ==
    ASSUME TypeInv, ExclusiveMeta, Stored, NEW i \in Instances, ApiFrame(i)
    PROVE  Kept(i)
<1>1. Effect(i)
  BY DEF ApiFrame
<1>2. QED
  BY <1>1, ShrinksKeeps, AllocatesKeeps, GrantsKeeps, ReplacesKeeps, DeletesKeeps, RenamesKeeps,
     WritesKeeps DEF Effect

-----------------------------------------------------------------------------
(***************************************************************************)
(* The steps of a command in the TA.                                       *)
(***************************************************************************)

\* What a step of instance i leaves alone, with the types of what it changes.
StepFrame(i) ==
    /\ ApiFrame(i)
    /\ pc' \in [Instances -> Labels]
    /\ object_id' \in [Instances -> BOOLEAN]
    /\ transient_key' \in [Instances -> Keys \cup {NoKey, NULL}]
    /\ encrypt_op' \in [Instances -> BOOLEAN]
    /\ key' \in [Instances -> HandleIds \cup {NULL}]
    /\ n' \in [Instances -> 0..LoopCount]
    /\ stranded' \in [Instances -> SUBSET HandleIds]
    /\ \A j \in Instances \ {i} : /\ pc'[j] = pc[j] /\ object_id'[j] = object_id[j]
                                  /\ transient_key'[j] = transient_key[j]
                                  /\ encrypt_op'[j] = encrypt_op[j]
                                  /\ key'[j] = key[j] /\ n'[j] = n[j]
                                  /\ stranded'[j] = stranded[j]
    /\ UNCHANGED <<arg, clientVars>>

\* Such a step keeps the types and the other instances.
LEMMA StepFrameKeeps ==
    ASSUME TypeInv, NEW i \in Instances, StepFrame(i)
    PROVE  TypeInv' /\ \A j \in Instances \ {i} : Mine(j)' = Mine(j)
<1>1. TypeInv'
  BY DEF StepFrame, ApiFrame, TypeInv, clientVars
<1>2. QED
  BY <1>1 DEF StepFrame, ApiFrame, Mine, clientVars

\* Where a command goes after a call.
LEMMA AfterGoes ==
    ASSUME TypeInv, NEW i \in Instances, NEW next \in Labels, NEW exit \in Labels,
           After(i, next, exit)
    PROVE  /\ pc' \in [Instances -> Labels]
           /\ \A j \in Instances \ {i} : pc'[j] = pc[j]
           /\ ret'[i].res = "SUCCESS" => pc'[i] = next
           /\ ret'[i].res = "TARGET_DEAD" => pc'[i] = "panic"
           /\ ret'[i].res \notin {"SUCCESS", "TARGET_DEAD"} => pc'[i] = exit
<1>1. "panic" \in Labels
  BY DEF Labels
<1>2. pc' = [pc EXCEPT ![i] = IF ret'[i].res = "SUCCESS" THEN next
                              ELSE IF ret'[i].res = "TARGET_DEAD" THEN "panic" ELSE exit]
  BY DEF After, Goto
<1>3. QED
  BY <1>1, <1>2 DEF TypeInv

\* Calls that only touch the instance itself.
LEMMA LocalCallGoes ==
    ASSUME TypeInv, NEW i \in Instances, NEW error \in Results, NEW next \in Labels,
           NEW exit \in Labels, LocalCall(i, error, next, exit), UNCHANGED <<store, handles, enums>>
    PROVE  /\ ApiFrame(i) /\ Same(i)
           /\ pc' \in [Instances -> Labels]
           /\ \A j \in Instances \ {i} : pc'[j] = pc[j]
           /\ \/ ret'[i].res = "SUCCESS" /\ pc'[i] = next
              \/ ret'[i].res = error /\ pc'[i] = exit
<1>0. NULL \in Values /\ "SUCCESS" \in Results
  BY DEF Values, Results
<1>1. CASE Returns(i, "SUCCESS", NULL) /\ Goto(i, next)
  BY <1>0, <1>1, PassiveApi DEF Goto, TypeInv
<1>2. CASE Returns(i, error, NULL) /\ Goto(i, exit)
  BY <1>0, <1>2, PassiveApi DEF Goto, TypeInv
<1>3. QED
  BY <1>1, <1>2 DEF LocalCall, Returns, Success

\* A step of the TA that leaves objects, handles, enumerators and the result alone.
LEMMA StillApi ==
    ASSUME TypeInv, NEW i \in Instances, UNCHANGED teeVars
    PROVE  ApiFrame(i) /\ Same(i) /\ ret'[i] = ret[i]
<1>1. Shrinks
  BY DEF Shrinks, teeVars
<1>2. QED
  BY <1>1 DEF ApiFrame, Effect, Same, OpenEnums, TypeInv, teeVars

\* A step that opens and closes nothing and is told to nobody.
Quiet(i) ==
    /\ Same(i) /\ key'[i] = key[i] /\ stranded'[i] = stranded[i]
    /\ pc[i] # "panic" /\ pc'[i] # "panic"
    /\ Opened(i)' <=> Opened(i)
    /\ Renamed(i)' <=> Renamed(i)
    /\ GivenUp(i)' <=> GivenUp(i)
    /\ JustAllocated(i)' <=> JustAllocated(i)
    /\ JustFreed(i)' <=> JustFreed(i)
    /\ Opened(i) \/ JustAllocated(i) => ret'[i] = ret[i]
    /\ arg[i].cmd \in {"close", "unlink"} /\ pc'[i] = "return" =>
            ret'[i].res = "SUCCESS" \/ sess[i] # "open"
    /\ Pending(i)' => Pending(i)

\* After a quiet step the handles and enumerators are known as before.
LEMMA QuietLocal ==
    ASSUME NEW i \in Instances, Local(i), StepFrame(i), Quiet(i), Control(i)', Temporaries(i)',
           OwnObject(i)'
    PROVE  Local(i)'
<1>0. /\ handles'[i] = handles[i] /\ OpenEnums(i)' = OpenEnums(i)
      /\ key'[i] = key[i] /\ stranded'[i] = stranded[i]
      /\ arg'[i] = arg[i] /\ sess'[i] = sess[i] /\ held'[i] = held[i] /\ eheld'[i] = eheld[i]
  BY DEF StepFrame, clientVars, Quiet, Same
<1>1. Enumerators(i)'
  <2>1. /\ JustAllocated(i)' <=> JustAllocated(i)
        /\ JustFreed(i)' <=> JustFreed(i)
        /\ JustAllocated(i) => ret'[i] = ret[i]
        /\ pc[i] # "panic" /\ pc'[i] # "panic"
    BY DEF Quiet
  <2> HIDE DEF JustAllocated, JustFreed
  <2>2. QED
    BY <1>0, <2>1 DEF Local, Enumerators
<1>2. HandlesKnown(i)'
  <2>1. /\ Opened(i)' <=> Opened(i)
        /\ Renamed(i)' <=> Renamed(i)
        /\ GivenUp(i)' <=> GivenUp(i)
        /\ Opened(i) => ret'[i] = ret[i]
        /\ pc[i] # "panic" /\ pc'[i] # "panic"
        /\ arg[i].cmd \in {"close", "unlink"} /\ pc'[i] = "return" =>
                ret'[i].res = "SUCCESS" \/ sess[i] # "open"
    BY DEF Quiet
  <2>2. Spare(i)' = Spare(i)
    BY <1>0 DEF Spare
  <2>3. \A h \in HandleIds : Agree(i, h) => Agree(i, h)'
    BY <1>0, <2>1 DEF Agree
  <2>4. QED
    BY <1>0, <2>1, <2>2, <2>3 DEF Local, HandlesKnown
<1>3. i \in Instances \ Misusers => Disciplined(i)'
  <2>1. Permits(i) => Permits(i)'
    BY <1>0 DEF Permits, OpenHandles, Granted
  <2>2. QED
    BY <1>0, <2>1 DEF Local, Disciplined, Quiet
<1>4. QED
  BY <1>1, <1>2, <1>3 DEF Local

\* Where a command has no object open for itself.
Plain == (Commands \ {"none", "key_in_persistent", "loop"}) \cup {"with_id", "seek_info"}

\* A command that panics; its client passed what it does not hold.
LEMMA PanicStep ==
    ASSUME TypeInv, NEW i \in Instances, Local(i), StepFrame(i), Dies(i),
           pc[i] \in Plain, pc'[i] = "panic", ~object_id'[i],
           transient_key'[i] = transient_key[i], encrypt_op'[i] = encrypt_op[i],
           key'[i] = key[i], n'[i] = n[i], stranded'[i] = stranded[i], i \in Misusers
    PROVE  Local(i)'
<1> USE DEF Plain, Commands, IdCmds, ObjectCmds, EnumCmds
<1>0. /\ arg'[i] = arg[i] /\ sess'[i] = sess[i] /\ held'[i] = held[i] /\ eheld'[i] = eheld[i]
      /\ hpc'[i] = hpc[i]
  BY DEF StepFrame, clientVars
<1>1. Control(i)'
  BY <1>0 DEF Local, Control, Fits, Dies, KeyLabels, LoopLabels
<1>2. Temporaries(i)' /\ key'[i] = NULL
  BY <1>0 DEF Local, Temporaries, KeyLabels, LoopLabels, KeyAllocated
<1>3. OwnObject(i)'
  BY <1>2 DEF OwnObject
<1>4. Enumerators(i)'
  BY <1>0 DEF Local, Enumerators, JustAllocated, JustFreed, Dies
<1>5. HandlesKnown(i)'
  BY <1>0 DEF Local, HandlesKnown, Opened, Renamed, GivenUp, Dies
<1>6. QED
  BY <1>1, <1>2, <1>3, <1>4, <1>5 DEF Local

\* A handle that was opened is in hand until the client is told of it.
LEMMA GetsLocal ==
    ASSUME TypeInv, NEW i \in Instances, Local(i), StepFrame(i), NEW c \in Contents \cup {NULL},
           Gets(i, arg[i].obj, arg[i].flags, c), OpenEnums(i)' = OpenEnums(i),
           arg[i].cmd \in {"open", "create", "alloc_obj"}, arg[i].obj \in Objects \cup {NULL},
           pc[i] \in {"with_id", "alloc_obj"}, pc'[i] \in {"free_id", "return"},
           key'[i] = key[i], stranded'[i] = stranded[i], Control(i)', Temporaries(i)'
    PROVE  Local(i)'
<1>0. /\ arg'[i] = arg[i] /\ sess'[i] = sess[i] /\ held'[i] = held[i] /\ eheld'[i] = eheld[i]
      /\ hpc'[i] = hpc[i]
  BY DEF StepFrame, clientVars
<1>1. PICK h \in HandleIds :
        /\ handles[i][h] = NULL
        /\ handles'[i] = [handles[i] EXCEPT ![h] =
                            [obj |-> arg[i].obj, flags |-> arg[i].flags, key |-> c]]
        /\ ret'[i].res = "SUCCESS" /\ ret'[i].val = h
  BY DEF Gets
<1>2. /\ handles'[i][h].obj = arg[i].obj /\ handles'[i][h].flags = arg[i].flags
      /\ handles'[i][h] # NULL
      /\ \A g \in HandleIds \ {h} : handles'[i][g] = handles[i][g]
  <2>1. [obj |-> arg[i].obj, flags |-> arg[i].flags, key |-> c] \in ObjectHandles
    BY DEF ObjectHandles, TypeInv, Args
  <2>2. QED
    BY <1>1, <2>1, StorageTaAssumption DEF TypeInv
<1>3. /\ ~Opened(i) /\ ~GivenUp(i) /\ ~Renamed(i) /\ ~GivenUp(i)' /\ ~Renamed(i)'
      /\ ~JustAllocated(i) /\ ~JustFreed(i) /\ ~JustAllocated(i)' /\ ~JustFreed(i)'
      /\ pc[i] # "panic" /\ pc'[i] # "panic"
  BY <1>0 DEF Opened, GivenUp, Renamed, JustAllocated, JustFreed
<1>4. sess[i] = "open"
  BY DEF Local, Control, TypeInv
<1>5. key[i] = NULL
  BY DEF Local, Temporaries, KeyAllocated
<1>6. OwnObject(i)'
  BY <1>5 DEF OwnObject
<1>7. Enumerators(i)'
  BY <1>0, <1>3, <1>4 DEF Local, Enumerators
<1>8. HandlesKnown(i)'
  <2>1. h \notin Spare(i) /\ Spare(i)' = Spare(i)
    BY <1>1, <1>3 DEF Local, HandlesKnown, Spare
  <2>2. held[i][h] = NULL
    BY <1>1, <1>3, <2>1 DEF Local, HandlesKnown, Agree
  <2>3. ASSUME NEW g \in HandleIds \ {h}
        PROVE  IF g \in Spare(i)'
               THEN held'[i][g] = NULL /\ handles'[i][g] # NULL /\ handles'[i][g].obj # NULL
               ELSE Agree(i, g)'
    <3>1. CASE g \in Spare(i)
      BY <1>0, <1>2, <1>3, <2>1, <3>1 DEF Local, HandlesKnown
    <3>2. CASE g \notin Spare(i)
      <4>1. Agree(i, g)
        BY <1>3, <3>2 DEF Local, HandlesKnown
      <4>2. QED
        BY <1>0, <1>2, <1>3, <2>1, <3>2, <4>1 DEF Agree
    <3>3. QED
      BY <3>1, <3>2
  <2>4. Opened(i)' /\ ret'[i].val = h
    BY <1>0, <1>1 DEF Opened
  <2>5. key'[i] \notin stranded'[i]
    BY DEF Local, HandlesKnown
  <2>6. QED
    BY <1>0, <1>2, <1>3, <1>4, <2>1, <2>2, <2>3, <2>4, <2>5 DEF HandlesKnown
<1>9. i \in Instances \ Misusers => Disciplined(i)'
  BY <1>0, <1>3 DEF Local, Disciplined, Pending, Commands, IdCmds, ObjectCmds, EnumCmds
<1>10. QED
  BY <1>6, <1>7, <1>8, <1>9 DEF Local

\* A handle that is given up is not the client's any more, once it is told.
LEMMA GivesUpLocal ==
    ASSUME TypeInv, NEW i \in Instances, Local(i), StepFrame(i), arg[i].h \in OpenHandles(i),
           GivesUp(i, arg[i].h), arg[i].cmd \in {"close", "unlink", "free_obj"},
           arg[i].cmd = "free_obj" => handles[i][arg[i].h].obj = NULL,
           pc[i] = arg[i].cmd, pc'[i] \in {"ignore", "return"},
           pc'[i] = "return" => ret'[i].res = "SUCCESS",
           key'[i] = key[i], stranded'[i] = stranded[i], Control(i)', Temporaries(i)'
    PROVE  Local(i)'
<1> DEFINE h == arg[i].h
<1>0. /\ arg'[i] = arg[i] /\ sess'[i] = sess[i] /\ held'[i] = held[i] /\ eheld'[i] = eheld[i]
      /\ hpc'[i] = hpc[i] /\ h \in HandleIds
  BY DEF StepFrame, clientVars, OpenHandles
<1>1. /\ handles'[i][h] = NULL /\ OpenEnums(i)' = OpenEnums(i)
      /\ \A g \in HandleIds \ {h} : handles'[i][g] = handles[i][g]
  BY <1>0 DEF GivesUp, TypeInv
<1>2. /\ ~Opened(i) /\ ~GivenUp(i) /\ ~Renamed(i) /\ ~Opened(i)' /\ ~Renamed(i)'
      /\ ~JustAllocated(i) /\ ~JustFreed(i) /\ ~JustAllocated(i)' /\ ~JustFreed(i)'
      /\ pc[i] # "panic" /\ pc'[i] # "panic" /\ GivenUp(i)'
  BY <1>0 DEF Opened, GivenUp, Renamed, JustAllocated, JustFreed
<1>3. sess[i] = "open"
  BY DEF Local, Control, TypeInv
<1>4. OwnObject(i)'
  BY DEF Local, Temporaries, OwnObject, KeyAllocated
<1>5. Enumerators(i)'
  BY <1>0, <1>1, <1>2, <1>3 DEF Local, Enumerators
<1>6. HandlesKnown(i)'
  <2>1. Spare(i)' = Spare(i)
    BY DEF Spare
  <2>2. arg[i].cmd = "free_obj" => h \notin stranded[i]
    BY <1>0, <1>2 DEF Local, HandlesKnown, Spare, OpenHandles
  <2>3. ASSUME NEW g \in HandleIds
        PROVE  IF g \in Spare(i)
               THEN /\ held'[i][g] = NULL
                    /\ handles'[i][g] # NULL => handles'[i][g].obj # NULL
                    /\ handles'[i][g] = NULL => g = h
               ELSE Agree(i, g)' \/ g = h
    <3>1. CASE g \in Spare(i)
      BY <1>0, <1>1, <1>2, <3>1 DEF Local, HandlesKnown
    <3>2. CASE g \notin Spare(i) /\ g # h
      <4>1. Agree(i, g)
        BY <1>2, <3>2 DEF Local, HandlesKnown
      <4>2. QED
        BY <1>0, <1>1, <1>2, <3>2, <4>1 DEF Agree
    <3>3. QED
      BY <3>1, <3>2
  <2>4. key'[i] \notin stranded'[i]
    BY DEF Local, HandlesKnown
  <2>5. QED
    BY <1>0, <1>1, <1>2, <1>3, <2>1, <2>2, <2>3, <2>4 DEF HandlesKnown
<1>7. i \in Instances \ Misusers => Disciplined(i)'
  BY <1>0, <1>2 DEF Local, Disciplined, Pending, Commands, IdCmds, ObjectCmds, EnumCmds
<1>8. QED
  BY <1>4, <1>5, <1>6, <1>7 DEF Local

\* A handle whose object was renamed; the client does not know the new name yet.
LEMMA MovesLocal ==
    ASSUME TypeInv, NEW i \in Instances, Local(i), StepFrame(i), arg[i].h \in Granted(i, "META"),
           Moves(i, arg[i].h, arg[i].obj[2]), arg[i].cmd = "rename",
           pc[i] = "with_id", pc'[i] = "free_id", ret'[i].res = "SUCCESS",
           key'[i] = key[i], stranded'[i] = stranded[i], Control(i)', Temporaries(i)'
    PROVE  Local(i)'
<1> DEFINE h == arg[i].h
           name == arg[i].obj[2]
<1>0. /\ arg'[i] = arg[i] /\ sess'[i] = sess[i] /\ held'[i] = held[i] /\ eheld'[i] = eheld[i]
      /\ hpc'[i] = hpc[i] /\ h \in HandleIds /\ name \in Names
  BY DEF StepFrame, clientVars, Granted, OpenHandles, Local, Control, Fits
<1>1. handles[i][h] \in ObjectHandles /\ handles[i][h].obj \in Objects /\ handles[i][h] # NULL
  BY <1>0 DEF Granted, OpenHandles, TypeInv, ObjectHandles
<1>2. /\ handles'[i][h] # NULL
      /\ handles'[i][h].obj = <<handles[i][h].obj[1], name>>
      /\ handles'[i][h].obj # NULL
      /\ handles'[i][h].flags = handles[i][h].flags
      /\ OpenEnums(i)' = OpenEnums(i)
      /\ \A g \in HandleIds \ {h} : handles'[i][g] = handles[i][g]
  <2>1. PICK r \in ObjectHandles : r = handles[i][h]
    BY <1>1
  <2>2. handles'[i][h] = [obj |-> <<r.obj[1], name>>, flags |-> r.flags, key |-> r.key]
    BY <1>0, <2>1 DEF Moves, TypeInv
  <2>3. <<r.obj[1], name>> \in Objects
    BY <1>0, <1>1, <2>1 DEF Objects
  <2>4. handles'[i][h] \in ObjectHandles
    BY <2>1, <2>2, <2>3 DEF ObjectHandles
  <2>5. \A g \in HandleIds \ {h} : handles'[i][g] = handles[i][g]
    BY <1>0 DEF Moves, TypeInv
  <2>6. handles'[i][h] # NULL /\ <<r.obj[1], name>> # NULL
    BY <2>3, <2>4, StorageTaAssumption
  <2>7. QED
    <3>1. /\ handles'[i][h].obj = <<r.obj[1], name>>
          /\ handles'[i][h].flags = r.flags
      BY <2>2
    <3> HIDE DEF name
    <3>2. QED
      BY <2>1, <2>5, <2>6, <3>1 DEF Moves
<1>3. /\ ~Opened(i) /\ ~GivenUp(i) /\ ~Renamed(i) /\ ~Opened(i)' /\ ~GivenUp(i)'
      /\ ~JustAllocated(i) /\ ~JustFreed(i) /\ ~JustAllocated(i)' /\ ~JustFreed(i)'
      /\ pc[i] # "panic" /\ pc'[i] # "panic" /\ Renamed(i)'
  BY <1>0 DEF Opened, GivenUp, Renamed, JustAllocated, JustFreed
<1>4. sess[i] = "open"
  BY DEF Local, Control, TypeInv
<1>5. OwnObject(i)'
  BY DEF Local, Temporaries, OwnObject, KeyAllocated
<1>6. Enumerators(i)'
  BY <1>0, <1>2, <1>3, <1>4 DEF Local, Enumerators
<1>7. HandlesKnown(i)'
  <2>1. Spare(i)' = Spare(i)
    BY DEF Spare
  <2>2. held[i][h] # NULL => held[i][h].obj = handles[i][h].obj
    BY <1>0, <1>3 DEF Local, HandlesKnown, Agree
  <2>3. ASSUME NEW g \in HandleIds
        PROVE  IF g \in Spare(i)
               THEN held'[i][g] = NULL /\ handles'[i][g] # NULL /\ handles'[i][g].obj # NULL
               ELSE Agree(i, g)'
    <3>1. CASE g \in Spare(i)
      BY <1>0, <1>2, <1>3, <3>1 DEF Local, HandlesKnown
    <3>2. CASE g \notin Spare(i) /\ g # h
      <4>1. Agree(i, g)
        BY <1>3, <3>2 DEF Local, HandlesKnown
      <4>2. QED
        BY <1>0, <1>2, <1>3, <3>2, <4>1 DEF Agree
    <3>3. CASE g \notin Spare(i) /\ g = h
      <4>1. Agree(i, g)
        BY <1>3, <3>3 DEF Local, HandlesKnown
      <4>2. QED
        BY <1>0, <1>1, <1>2, <1>3, <3>3, <4>1 DEF Agree
    <3>4. QED
      BY <3>1, <3>2, <3>3
  <2>4. key'[i] \notin stranded'[i]
    BY DEF Local, HandlesKnown
  <2>5. QED
    BY <1>0, <1>1, <1>2, <1>3, <1>4, <2>1, <2>2, <2>3, <2>4 DEF HandlesKnown
<1>8. i \in Instances \ Misusers => Disciplined(i)'
  BY <1>0, <1>3 DEF Local, Disciplined, Pending, Commands, IdCmds, ObjectCmds, EnumCmds
<1>9. QED
  BY <1>5, <1>6, <1>7, <1>8 DEF Local

\* Once an identifier was used its copy is freed, unless the call panicked.
LEMMA IdUsedGoes ==
    ASSUME TypeInv, NEW i \in Instances, Local(i), pc[i] = "with_id", ApiFrame(i), IdUsed(i),
           UNCHANGED clientVars
    PROVE  /\ StepFrame(i) /\ Temporaries(i)' /\ OwnObject(i)'
           /\ ret'[i].res = "TARGET_DEAD" => pc'[i] = "panic" /\ ~object_id'[i]
           /\ ret'[i].res # "TARGET_DEAD" => pc'[i] = "free_id" /\ Control(i)'
           /\ transient_key'[i] = transient_key[i] /\ encrypt_op'[i] = encrypt_op[i]
           /\ key'[i] = key[i] /\ n'[i] = n[i] /\ stranded'[i] = stranded[i]
<1>1. /\ pc' \in [Instances -> Labels] /\ \A j \in Instances \ {i} : pc'[j] = pc[j]
      /\ ret'[i].res = "TARGET_DEAD" => pc'[i] = "panic"
      /\ ret'[i].res # "TARGET_DEAD" => pc'[i] = "free_id"
  <2>1. "free_id" \in Labels
    BY DEF Labels
  <2>2. QED
    BY <2>1, AfterGoes DEF IdUsed
<1>2. /\ object_id' \in [Instances -> BOOLEAN]
      /\ \A j \in Instances \ {i} : object_id'[j] = object_id[j]
      /\ object_id'[i] = (pc'[i] # "panic")
  BY DEF IdUsed, TypeInv
<1>3. UNCHANGED <<arg, transient_key, encrypt_op, key, n, stranded>>
  BY DEF IdUsed
<1>4. StepFrame(i)
  BY <1>1, <1>2, <1>3 DEF StepFrame, TypeInv
<1>5. Temporaries(i)' /\ key'[i] = NULL
  BY <1>1, <1>2, <1>3 DEF Local, Temporaries, KeyLabels, LoopLabels, KeyAllocated
<1>6. OwnObject(i)'
  BY <1>5 DEF OwnObject
<1>7. ret'[i].res # "TARGET_DEAD" => Control(i)'
  BY <1>1, <1>3 DEF Local, Control, Fits, KeyLabels, LoopLabels, Commands, IdCmds, ObjectCmds,
     EnumCmds, clientVars
<1>8. QED
  BY <1>1, <1>2, <1>3, <1>4, <1>5, <1>6, <1>7

\* The parameters of a command with an identifier.
LEMMA IdArgs ==
    ASSUME TypeInv, NEW i \in Instances, Local(i), pc[i] = "with_id"
    PROVE  /\ arg[i].cmd \in {"open", "create", "create_overwrite"} => arg[i].obj \in Objects
           /\ arg[i].cmd = "create" => arg[i].h \in HandleIds \cup {NULL}
           /\ arg[i].cmd = "rename" => arg[i].h \in HandleIds /\ arg[i].obj[2] \in Names
           /\ arg[i].flags \in SUBSET StorageFlags /\ arg[i].data \in Data \cup {NULL}
           /\ i \in Misusers \/ Permits(i)
<1>1. arg[i] \in Args
  BY DEF TypeInv
<1>2. i \in Misusers \/ Permits(i)
  BY DEF Local, Disciplined, Pending
<1>3. QED
  BY <1>1, <1>2 DEF Args, Local, Control, Fits

\* The steps of the commands with an identifier.
LEMMA WithIdStep ==
    ASSUME TypeInv, Stored, NEW i \in Instances, Local(i), WithId(i), UNCHANGED clientVars
    PROVE  StepFrame(i) /\ Local(i)'
<1> USE DEF IdCmds
<1>1. CASE CopyId(i)
  <2>1. /\ ApiFrame(i) /\ Same(i)
        /\ pc' \in [Instances -> Labels] /\ \A j \in Instances \ {i} : pc'[j] = pc[j]
        /\ \/ ret'[i].res = "SUCCESS" /\ pc'[i] = "with_id"
           \/ ret'[i].res = "OUT_OF_MEMORY" /\ pc'[i] = "return"
    BY <1>1, LocalCallGoes DEF CopyId, Labels, Results
  <2>2. StepFrame(i)
    <3>1. /\ object_id' \in [Instances -> BOOLEAN]
          /\ \A j \in Instances \ {i} : object_id'[j] = object_id[j]
      BY <1>1 DEF CopyId, TypeInv
    <3>2. UNCHANGED <<arg, transient_key, encrypt_op, key, n, stranded>>
      BY <1>1 DEF CopyId
    <3>3. QED
      BY <2>1, <3>1, <3>2 DEF StepFrame, TypeInv
  <2>3. /\ pc[i] \in IdCmds /\ arg[i].cmd = pc[i]
        /\ UNCHANGED <<arg, transient_key, encrypt_op, key, n, stranded>>
        /\ object_id'[i] = (pc'[i] = "with_id")
    BY <1>1 DEF CopyId, Local, Control, Commands, TypeInv
  <2>4. Control(i)'
    BY <2>1, <2>3 DEF Local, Control, Fits, KeyLabels, LoopLabels, Commands, ObjectCmds,
       EnumCmds, clientVars
  <2>5. Temporaries(i)' /\ key'[i] = NULL
    BY <2>1, <2>3 DEF Local, Temporaries, KeyLabels, LoopLabels, KeyAllocated
  <2>6. Quiet(i)
    BY <2>1, <2>3 DEF Quiet, Opened, Renamed, GivenUp, JustAllocated, JustFreed, Pending, Commands
  <2>7. QED
    BY <2>2, <2>4, <2>5, <2>6, QuietLocal DEF OwnObject
<1>2. CASE FreeId(i)
  <2>1. ApiFrame(i) /\ Same(i) /\ ret'[i] = ret[i]
    BY <1>2, StillApi DEF FreeId
  <2>2. StepFrame(i)
    BY <1>2, <2>1 DEF FreeId, Goto, StepFrame, TypeInv, Labels
  <2>3. /\ pc[i] = "free_id" /\ pc'[i] = "return" /\ arg[i].cmd \in IdCmds
        /\ UNCHANGED <<arg, transient_key, encrypt_op, key, n, stranded>> /\ ~object_id'[i]
    BY <1>2 DEF FreeId, Goto, Local, Control, TypeInv
  <2>4. Control(i)'
    BY <2>1, <2>3 DEF Local, Control, Fits, KeyLabels, LoopLabels, Commands, ObjectCmds,
       EnumCmds, clientVars
  <2>5. Temporaries(i)' /\ key'[i] = NULL
    BY <2>3 DEF Local, Temporaries, KeyLabels, LoopLabels, KeyAllocated
  <2>6. Quiet(i)
    BY <2>1, <2>3 DEF Quiet, Opened, Renamed, GivenUp, JustAllocated, JustFreed, Pending,
       Commands, ObjectCmds, EnumCmds
  <2>7. QED
    BY <2>2, <2>4, <2>5, <2>6, QuietLocal DEF OwnObject
<1>q. ASSUME pc[i] = "with_id", ApiFrame(i), IdUsed(i), Same(i), ret'[i].res # "TARGET_DEAD",
             ret'[i].res # "SUCCESS" \/ arg[i].cmd = "create_overwrite"
      PROVE  StepFrame(i) /\ Local(i)'
  <2>1. /\ StepFrame(i) /\ Temporaries(i)' /\ OwnObject(i)' /\ Control(i)'
        /\ pc'[i] = "free_id" /\ key'[i] = key[i] /\ stranded'[i] = stranded[i]
    BY <1>q, IdUsedGoes
  <2>2. arg'[i] = arg[i] /\ arg[i].cmd \in IdCmds
    BY <1>q, <2>1 DEF StepFrame, Local, Control
  <2>3. Quiet(i)
    BY <1>q, <2>1, <2>2 DEF Quiet, Opened, Renamed, GivenUp, JustAllocated, JustFreed, Pending,
       Commands, ObjectCmds, EnumCmds
  <2>4. QED
    BY <2>1, <2>3, QuietLocal
<1>p. ASSUME pc[i] = "with_id", ApiFrame(i), IdUsed(i), Dies(i), i \in Misusers
      PROVE  StepFrame(i) /\ Local(i)'
  <2>1. /\ StepFrame(i) /\ pc'[i] = "panic" /\ ~object_id'[i] /\ pc[i] \in Plain
        /\ transient_key'[i] = transient_key[i] /\ encrypt_op'[i] = encrypt_op[i]
        /\ key'[i] = key[i] /\ n'[i] = n[i] /\ stranded'[i] = stranded[i]
    BY <1>p, IdUsedGoes DEF Dies, Plain
  <2>2. QED
    BY <1>p, <2>1, PanicStep
<1>g. ASSUME pc[i] = "with_id", ApiFrame(i), IdUsed(i), arg[i].cmd \in {"open", "create"},
             NEW c \in Contents \cup {NULL}, Gets(i, arg[i].obj, arg[i].flags, c),
             OpenEnums(i)' = OpenEnums(i)
      PROVE  StepFrame(i) /\ Local(i)'
  <2>1. ret'[i].res # "TARGET_DEAD" /\ arg[i].obj \in Objects \cup {NULL}
    BY <1>g, IdArgs DEF Gets
  <2>2. /\ StepFrame(i) /\ Temporaries(i)' /\ Control(i)'
        /\ pc'[i] = "free_id" /\ key'[i] = key[i] /\ stranded'[i] = stranded[i]
    BY <1>g, <2>1, IdUsedGoes
  <2>3. QED
    BY <1>g, <2>1, <2>2, GetsLocal
<1>3. CASE ta_storage_cmd_open(i)
  <2>1. pc[i] = "with_id" /\ IdUsed(i) /\ arg[i].cmd = "open"
    BY <1>3 DEF ta_storage_cmd_open, Using
  <2>2. arg[i].obj \in Objects /\ arg[i].flags \in SUBSET StorageFlags
    BY <2>1, IdArgs
  <2>3. /\ ApiFrame(i)
        /\ \/ Refused(i) /\ Same(i)
           \/ Gets(i, arg[i].obj, arg[i].flags, store[arg[i].obj]) /\ OpenEnums(i)' = OpenEnums(i)
    BY <1>3, <2>2, OpenApi DEF ta_storage_cmd_open
  <2>4. store[arg[i].obj] \in Contents \cup {NULL}
    BY <2>2 DEF TypeInv
  <2>5. QED
    BY <1>q, <1>g, <2>1, <2>3, <2>4 DEF Refused
<1>4. CASE ta_storage_cmd_create(i)
  <2> DEFINE ref == arg[i].h
             bad == ref \notin {NULL} \cup {h \in OpenHandles(i) : handles[i][h].obj # NULL}
             attr == IF ref = NULL THEN NULL ELSE handles[i][ref].key.attr
  <2>1. /\ pc[i] = "with_id" /\ IdUsed(i) /\ arg[i].cmd = "create"
        /\ \/ bad /\ Panics(i)
           \/ ~bad /\ TEE_CreatePersistentObject(i, arg[i].obj, arg[i].flags,
                                                 Content(attr, arg[i].data))
    BY <1>4 DEF ta_storage_cmd_create, Using
  <2>2. /\ arg[i].obj \in Objects /\ arg[i].flags \in SUBSET StorageFlags
        /\ arg[i].data \in Data \cup {NULL} /\ ref \in HandleIds \cup {NULL}
        /\ i \in Misusers \/ Permits(i)
    BY <2>1, IdArgs
  <2>3. bad => i \in Misusers
    BY <2>1, <2>2 DEF Permits
  <2>4. CASE bad /\ Panics(i)
    BY <1>p, <2>1, <2>3, <2>4, PanicsApi
  <2>5. CASE /\ ~bad
             /\ TEE_CreatePersistentObject(i, arg[i].obj, arg[i].flags, Content(attr, arg[i].data))
    <3>1. attr \in Keys \cup {NULL}
      <4>1. CASE ref = NULL
        BY <4>1
      <4>2. CASE ref # NULL
        <5>1. ref \in OpenHandles(i) /\ handles[i][ref].obj # NULL
          BY <2>5, <4>2
        <5>2. handles[i][ref].key \in Contents
          BY <5>1 DEF Stored
        <5>3. QED
          BY <4>2, <5>2 DEF Contents
      <4>3. QED
        BY <4>1, <4>2
    <3> HIDE DEF attr, bad
    <3>2. Content(attr, arg[i].data) \in Contents
      BY <2>2, <3>1 DEF Content, Contents
    <3>3. PICK c \in Contents : c = Content(attr, arg[i].data)
      BY <3>2
    <3>4. /\ ApiFrame(i)
          /\ \/ Refused(i) /\ Same(i)
             \/ Gets(i, arg[i].obj, arg[i].flags, c) /\ OpenEnums(i)' = OpenEnums(i)
      BY <2>2, <2>5, <3>3, CreateApi
    <3>5. QED
      BY <1>q, <1>g, <2>1, <3>4 DEF Refused
  <2>6. QED
    BY <2>1, <2>4, <2>5
<1>5. CASE ta_storage_cmd_create_overwrite(i)
  <2>1. pc[i] = "with_id" /\ IdUsed(i) /\ arg[i].cmd = "create_overwrite"
    BY <1>5 DEF ta_storage_cmd_create_overwrite, Using
  <2>2. arg[i].obj \in Objects /\ Content(NULL, NULL) \in Contents
    BY <2>1, IdArgs DEF Content, Contents
  <2>3. ApiFrame(i) /\ Same(i) /\ ret'[i].res # "TARGET_DEAD"
    BY <1>5, <2>2, CreateClosedApi DEF ta_storage_cmd_create_overwrite
  <2>4. QED
    BY <1>q, <2>1, <2>3
<1>6. CASE ta_storage_cmd_rename(i)
  <2>1. pc[i] = "with_id" /\ IdUsed(i) /\ arg[i].cmd = "rename"
    BY <1>6 DEF ta_storage_cmd_rename, Using
  <2>2. /\ arg[i].h \in HandleIds /\ arg[i].obj[2] \in Names
        /\ i \in Misusers \/ arg[i].h \in Granted(i, "META")
    BY <2>1, IdArgs DEF Permits
  <2>3. /\ ApiFrame(i)
        /\ \/ arg[i].h \notin Granted(i, "META") /\ Dies(i)
           \/ Refused(i) /\ Same(i)
           \/ /\ arg[i].h \in Granted(i, "META") /\ Moves(i, arg[i].h, arg[i].obj[2])
              /\ ret'[i].res = "SUCCESS"
    BY <1>6, <2>2, RenameApi DEF ta_storage_cmd_rename
  <2>4. CASE arg[i].h \notin Granted(i, "META") /\ Dies(i)
    BY <1>p, <2>1, <2>2, <2>3, <2>4
  <2>5. CASE Refused(i) /\ Same(i)
    BY <1>q, <2>1, <2>3, <2>5 DEF Refused
  <2>6. CASE /\ arg[i].h \in Granted(i, "META") /\ Moves(i, arg[i].h, arg[i].obj[2])
             /\ ret'[i].res = "SUCCESS"
    <3>1. /\ StepFrame(i) /\ Temporaries(i)' /\ Control(i)'
          /\ pc'[i] = "free_id" /\ key'[i] = key[i] /\ stranded'[i] = stranded[i]
      BY <2>1, <2>3, <2>6, IdUsedGoes
    <3>2. QED
      BY <2>1, <2>6, <3>1, MovesLocal
  <2>7. QED
    BY <2>3, <2>4, <2>5, <2>6
<1>7. QED
  BY <1>1, <1>2, <1>3, <1>4, <1>5, <1>6 DEF WithId

\* Where a command with a handle or an enumerator is after its call.
LEMMA OneCallGoes ==
    ASSUME TypeInv, NEW i \in Instances, Local(i), ApiFrame(i), UNCHANGED clientVars,
           NEW next \in Labels, NEW exit \in Labels, After(i, next, exit), UNCHANGED <<arg, locals>>,
           pc[i] \in (ObjectCmds \cup EnumCmds \cup {"alloc_enum", "alloc_obj", "seek_info"}),
           next \in {"return", "seek_info"}, exit \in {"return", "ignore"},
           next = "seek_info" => arg[i].cmd = "seek",
           exit = "ignore" => arg[i].cmd \in {"unlink", "restrict_usage"}
    PROVE  /\ StepFrame(i) /\ Temporaries(i)' /\ OwnObject(i)' /\ arg'[i] = arg[i]
           /\ sess[i] = "open"
           /\ arg[i].cmd = pc[i] \/ (pc[i] = "seek_info" /\ arg[i].cmd = "seek")
           /\ ret'[i].res = "SUCCESS" => pc'[i] = next
           /\ ret'[i].res \notin {"SUCCESS", "TARGET_DEAD"} => pc'[i] = exit
           /\ ret'[i].res = "TARGET_DEAD" => pc'[i] = "panic"
           /\ ret'[i].res # "TARGET_DEAD" => Control(i)'
           /\ ~object_id'[i] /\ transient_key'[i] = transient_key[i]
           /\ encrypt_op'[i] = encrypt_op[i]
           /\ key'[i] = key[i] /\ n'[i] = n[i] /\ stranded'[i] = stranded[i]
<1> USE DEF ObjectCmds, EnumCmds
<1>1. /\ pc' \in [Instances -> Labels] /\ \A j \in Instances \ {i} : pc'[j] = pc[j]
      /\ ret'[i].res = "TARGET_DEAD" => pc'[i] = "panic"
      /\ ret'[i].res = "SUCCESS" => pc'[i] = next
      /\ ret'[i].res \notin {"SUCCESS", "TARGET_DEAD"} => pc'[i] = exit
  BY AfterGoes
<1>2. UNCHANGED <<arg, object_id, transient_key, encrypt_op, key, n, stranded>>
  BY DEF locals, kept
<1>3. StepFrame(i)
  BY <1>1, <1>2 DEF StepFrame, TypeInv
<1>4. pc'[i] \in {"panic", "return", "seek_info", "ignore"}
  BY <1>1
<1>5. Temporaries(i)' /\ key'[i] = NULL /\ ~object_id'[i]
  BY <1>2, <1>4 DEF Local, Temporaries, KeyLabels, LoopLabels, KeyAllocated
<1>6. OwnObject(i)'
  BY <1>5 DEF OwnObject
<1>7. /\ arg[i].cmd = pc[i] \/ (pc[i] = "seek_info" /\ arg[i].cmd = "seek")
      /\ sess[i] = "open"
  BY DEF Local, Control, Commands, TypeInv
<1>8. ret'[i].res # "TARGET_DEAD" => Control(i)'
  <2> SUFFICES ASSUME ret'[i].res # "TARGET_DEAD" PROVE Control(i)'
    OBVIOUS
  <2>1. /\ pc'[i] \in {"return", "seek_info", "ignore"}
        /\ pc'[i] = "seek_info" => arg[i].cmd = "seek"
        /\ pc'[i] = "ignore" => arg[i].cmd \in {"unlink", "restrict_usage"}
    BY <1>1
  <2>2. hpc'[i] = hpc[i] /\ sess'[i] = sess[i] /\ arg'[i] = arg[i]
    BY <1>2 DEF clientVars
  <2>3. Fits(arg'[i])
    BY <2>2 DEF Local, Control
  <2>4. QED
    BY <1>7, <2>1, <2>2, <2>3 DEF Local, Control, KeyLabels, LoopLabels, Commands, IdCmds
<1>9. QED
  BY <1>1, <1>2, <1>3, <1>5, <1>6, <1>7, <1>8

\* A command that changed nothing but its result.
LEMMA SameStep ==
    ASSUME TypeInv, NEW i \in Instances, Local(i), ApiFrame(i), UNCHANGED clientVars,
           NEW next \in Labels, NEW exit \in Labels, After(i, next, exit), UNCHANGED <<arg, locals>>,
           pc[i] \in (ObjectCmds \cup EnumCmds \cup {"alloc_enum", "alloc_obj", "seek_info"}),
           next \in {"return", "seek_info"}, exit \in {"return", "ignore"},
           next = "seek_info" => arg[i].cmd = "seek",
           exit = "ignore" => arg[i].cmd \in {"unlink", "restrict_usage"},
           Same(i), ret'[i].res # "TARGET_DEAD",
           pc[i] \notin {"close", "unlink", "free_obj", "free_enum"},
           pc[i] \in {"alloc_enum", "alloc_obj"} => ret'[i].res # "SUCCESS"
    PROVE  StepFrame(i) /\ Local(i)'
<1>1. /\ StepFrame(i) /\ Temporaries(i)' /\ OwnObject(i)' /\ Control(i)' /\ arg'[i] = arg[i]
      /\ arg[i].cmd = pc[i] \/ (pc[i] = "seek_info" /\ arg[i].cmd = "seek")
      /\ pc'[i] \in {next, exit}
      /\ key'[i] = key[i] /\ stranded'[i] = stranded[i]
  BY OneCallGoes
<1>2. Quiet(i)
  BY <1>1 DEF Quiet, Opened, Renamed, GivenUp, JustAllocated, JustFreed, Pending,
     Commands, IdCmds, ObjectCmds, EnumCmds
<1>3. QED
  BY <1>1, <1>2, QuietLocal

\* A command that made its instance panic.
LEMMA DeadStep ==
    ASSUME TypeInv, NEW i \in Instances, Local(i), ApiFrame(i), UNCHANGED clientVars,
           NEW next \in Labels, NEW exit \in Labels, After(i, next, exit), UNCHANGED <<arg, locals>>,
           pc[i] \in (ObjectCmds \cup EnumCmds \cup {"alloc_enum", "alloc_obj", "seek_info"}),
           next \in {"return", "seek_info"}, exit \in {"return", "ignore"},
           next = "seek_info" => arg[i].cmd = "seek",
           exit = "ignore" => arg[i].cmd \in {"unlink", "restrict_usage"},
           Dies(i), i \in Misusers
    PROVE  StepFrame(i) /\ Local(i)'
<1>1. /\ StepFrame(i) /\ ret'[i].res = "TARGET_DEAD" /\ pc'[i] = "panic"
      /\ ~object_id'[i] /\ transient_key'[i] = transient_key[i]
      /\ encrypt_op'[i] = encrypt_op[i]
      /\ key'[i] = key[i] /\ n'[i] = n[i] /\ stranded'[i] = stranded[i]
  BY OneCallGoes DEF Dies
<1>2. pc[i] \in Plain
  BY DEF Plain, Commands, ObjectCmds, EnumCmds
<1>3. QED
  BY <1>1, <1>2, PanicStep

\* What a client that keeps to the rules passes is open.
LEMMA Honest ==
    ASSUME TypeInv, NEW i \in Instances, Local(i),
           pc[i] \in (ObjectCmds \cup EnumCmds \cup {"seek_info"})
    PROVE  /\ arg[i].cmd = IF pc[i] = "seek_info" THEN "seek" ELSE pc[i]
           /\ arg[i].cmd \in ObjectCmds => arg[i].h \in HandleIds
           /\ arg[i].cmd \in EnumCmds => arg[i].h \in EnumIds
           /\ arg[i].cmd = "write" => arg[i].data \in Data
           /\ arg[i].cmd = "start_enum" => arg[i].obj[1] \in Storages
           /\ i \in Misusers \/ Permits(i)
<1>1. /\ arg[i].cmd = IF pc[i] = "seek_info" THEN "seek" ELSE pc[i]
      /\ i \in Misusers \/ Permits(i)
  BY DEF Local, Control, Disciplined, Pending, Commands, ObjectCmds, EnumCmds
<1>2. QED
  BY <1>1 DEF Local, Control, Fits

\* The commands that use a handle without opening or closing one.
LEMMA UseStep ==
    ASSUME TypeInv, Stored, NEW i \in Instances, Local(i), UNCHANGED clientVars,
           \/ ta_storage_cmd_read(i)
           \/ ta_storage_cmd_write(i)
           \/ ta_storage_cmd_trunc(i)
           \/ ta_storage_cmd_seek(i)
           \/ ta_storage_cmd_restrict_usage(i)
           \/ ta_storage_cmd_reset_obj(i)
           \/ ta_storage_cmd_get_obj_info(i)
    PROVE  StepFrame(i) /\ Local(i)'
<1> USE DEF ObjectCmds, EnumCmds, Labels
<1> DEFINE h == arg[i].h
<1>q. ASSUME ApiFrame(i), NEW next \in {"return", "seek_info"}, NEW exit \in {"return", "ignore"},
             After(i, next, exit), UNCHANGED <<arg, locals>>,
             next = "seek_info" => arg[i].cmd = "seek",
             exit = "ignore" => arg[i].cmd \in {"unlink", "restrict_usage"},
             pc[i] \in {"read", "write", "trunc", "seek", "seek_info", "restrict_usage",
                        "reset_obj", "get_obj_info"},
             \/ i \in Misusers /\ Dies(i)
             \/ Same(i) /\ ret'[i].res # "TARGET_DEAD"
      PROVE  StepFrame(i) /\ Local(i)'
  <2>1. next \in Labels /\ exit \in Labels
    OBVIOUS
  <2>2. CASE i \in Misusers /\ Dies(i)
    BY <1>q, <2>1, <2>2, DeadStep
  <2>3. CASE Same(i) /\ ret'[i].res # "TARGET_DEAD"
    BY <1>q, <2>1, <2>3, SameStep
  <2>4. QED
    BY <1>q, <2>2, <2>3
<1>1. CASE ta_storage_cmd_read(i)
  <2>1. /\ pc[i] = "read" /\ TEE_ReadObjectData(i, h) /\ After(i, "return", "return")
        /\ UNCHANGED <<arg, locals>>
    BY <1>1 DEF ta_storage_cmd_read, Done
  <2>2. h \in HandleIds /\ (i \in Misusers \/ h \in Granted(i, "READ"))
    BY <2>1, Honest DEF Permits
  <2>3. ApiFrame(i) /\ ((i \in Misusers /\ Dies(i)) \/ (Same(i) /\ ret'[i].res # "TARGET_DEAD"))
    BY <2>1, <2>2, ReadDataApi
  <2>4. QED
    BY <1>q, <2>1, <2>3
<1>2. ASSUME NEW d \in Data, ChangeData(i, h, d), Done(i), pc[i] \in {"write", "trunc"}
      PROVE  StepFrame(i) /\ Local(i)'
  <2>1. After(i, "return", "return") /\ UNCHANGED <<arg, locals>>
    BY <1>2 DEF Done
  <2>2. h \in HandleIds /\ (i \in Misusers \/ h \in Granted(i, "WRITE"))
    BY <1>2, Honest DEF Permits
  <2>3. ApiFrame(i) /\ ((i \in Misusers /\ Dies(i)) \/ (Same(i) /\ ret'[i].res # "TARGET_DEAD"))
    BY <1>2, <2>2, ChangeDataApi
  <2>4. QED
    BY <1>q, <1>2, <2>1, <2>3
<1>3. CASE ta_storage_cmd_write(i)
  <2>1. pc[i] = "write" /\ ChangeData(i, h, arg[i].data) /\ Done(i)
    BY <1>3 DEF ta_storage_cmd_write
  <2>2. arg[i].data \in Data
    BY <2>1, Honest
  <2>3. QED
    BY <1>2, <2>1, <2>2
<1>4. CASE ta_storage_cmd_trunc(i)
  BY <1>2, <1>4 DEF ta_storage_cmd_trunc
<1>5. CASE pc[i] = "seek" /\ ta_storage_cmd_seek(i)
  <2>1. /\ TEE_SeekObjectData(i, h) /\ After(i, "seek_info", "return")
        /\ UNCHANGED <<arg, locals>>
    BY <1>5 DEF ta_storage_cmd_seek
  <2>2. /\ h \in HandleIds /\ arg[i].cmd = "seek"
        /\ i \in Misusers \/ (h \in OpenHandles(i) /\ handles[i][h].obj # NULL)
    BY <1>5, Honest DEF Permits
  <2>3. ApiFrame(i) /\ ((i \in Misusers /\ Dies(i)) \/ (Same(i) /\ ret'[i].res # "TARGET_DEAD"))
    BY <2>1, <2>2, SeekApi
  <2>4. QED
    BY <1>5, <1>q, <2>1, <2>2, <2>3
<1>6. ASSUME ReadObject(i, h), NEW exit \in {"return", "ignore"}, After(i, "return", exit),
             UNCHANGED <<arg, locals>>, exit = "ignore" => arg[i].cmd = "restrict_usage",
             pc[i] \in {"seek_info", "restrict_usage", "get_obj_info"}
      PROVE  StepFrame(i) /\ Local(i)'
  <2>1. h \in HandleIds /\ (i \in Misusers \/ h \in OpenHandles(i))
    <3>1. /\ arg[i].cmd \in {"seek", "restrict_usage", "get_obj_info"}
          /\ i \in Misusers \/ Permits(i)
      BY <1>6, Honest
    <3>2. h \in HandleIds
      BY <1>6, <3>1, Honest
    <3>3. QED
      BY <3>1, <3>2 DEF Permits
  <2>2. ApiFrame(i) /\ ((i \in Misusers /\ Dies(i)) \/ (Same(i) /\ ret'[i].res # "TARGET_DEAD"))
    BY <1>6, <2>1, ReadApi
  <2>3. QED
    BY <1>q, <1>6, <2>2
<1>7. CASE pc[i] # "seek" /\ ta_storage_cmd_seek(i)
  BY <1>6, <1>7 DEF ta_storage_cmd_seek, Done
<1>8. CASE ta_storage_cmd_restrict_usage(i)
  <2>1. pc[i] = "restrict_usage" /\ arg[i].cmd = "restrict_usage"
    BY <1>8, Honest DEF ta_storage_cmd_restrict_usage
  <2>2. QED
    BY <1>6, <1>8, <2>1 DEF ta_storage_cmd_restrict_usage, DoneIgnoring
<1>9. CASE ta_storage_cmd_get_obj_info(i)
  BY <1>6, <1>9 DEF ta_storage_cmd_get_obj_info, Done
<1>10. CASE ta_storage_cmd_reset_obj(i)
  <2>1. /\ pc[i] = "reset_obj" /\ OnTransient(i, h, FALSE) /\ After(i, "return", "return")
        /\ UNCHANGED <<arg, locals>>
    BY <1>10 DEF ta_storage_cmd_reset_obj, Done
  <2>2. /\ h \in HandleIds
        /\ i \in Misusers \/ (h \in OpenHandles(i) /\ handles[i][h].obj = NULL)
    BY <2>1, Honest DEF Permits
  <2>3. ApiFrame(i) /\ ((i \in Misusers /\ Dies(i)) \/ (Same(i) /\ ret'[i].res # "TARGET_DEAD"))
    BY <2>1, <2>2, TransientApi
  <2>4. QED
    BY <1>q, <2>1, <2>3
<1>11. QED
  BY <1>1, <1>3, <1>4, <1>5, <1>7, <1>8, <1>9, <1>10

\* The commands that close a handle.
LEMMA CloseStep ==
    ASSUME TypeInv, Stored, NEW i \in Instances, Local(i), UNCHANGED clientVars,
           \/ ta_storage_cmd_close(i)
           \/ ta_storage_cmd_unlink(i)
           \/ ta_storage_cmd_free_obj(i)
    PROVE  StepFrame(i) /\ Local(i)'
<1> USE DEF ObjectCmds, EnumCmds, Labels
<1> DEFINE h == arg[i].h
<1>q. ASSUME ApiFrame(i), NEW exit \in {"return", "ignore"}, After(i, "return", exit),
             UNCHANGED <<arg, locals>>, exit = "ignore" => arg[i].cmd = "unlink",
             pc[i] \in {"close", "unlink", "free_obj"},
             \/ i \in Misusers /\ Dies(i)
             \/ /\ h \in OpenHandles(i) /\ GivesUp(i, h)
                /\ arg[i].cmd = "free_obj" => handles[i][h].obj = NULL
                /\ \/ ret'[i].res = "SUCCESS"
                   \/ exit = "ignore" /\ ret'[i].res = "STORAGE_NOT_AVAILABLE"
      PROVE  StepFrame(i) /\ Local(i)'
  <2>1. exit \in Labels /\ "return" \in Labels
    OBVIOUS
  <2>2. CASE i \in Misusers /\ Dies(i)
    BY <1>q, <2>1, <2>2, DeadStep
  <2>3. CASE /\ h \in OpenHandles(i) /\ GivesUp(i, h)
             /\ arg[i].cmd = "free_obj" => handles[i][h].obj = NULL
             /\ \/ ret'[i].res = "SUCCESS"
                \/ exit = "ignore" /\ ret'[i].res = "STORAGE_NOT_AVAILABLE"
    <3>1. /\ StepFrame(i) /\ Temporaries(i)' /\ arg[i].cmd = pc[i]
          /\ ret'[i].res = "SUCCESS" => pc'[i] = "return"
          /\ ret'[i].res \notin {"SUCCESS", "TARGET_DEAD"} => pc'[i] = exit
          /\ ret'[i].res # "TARGET_DEAD" => Control(i)'
          /\ key'[i] = key[i] /\ stranded'[i] = stranded[i]
      BY <1>q, <2>1, OneCallGoes
    <3>2. /\ pc'[i] \in {"ignore", "return"} /\ Control(i)'
          /\ pc'[i] = "return" => ret'[i].res = "SUCCESS"
      BY <2>3, <3>1
    <3>3. arg[i].cmd \in {"close", "unlink", "free_obj"}
      BY <1>q, <3>1
    <3>4. QED
      BY <2>3, <3>1, <3>2, <3>3, GivesUpLocal
  <2>4. QED
    BY <1>q, <2>2, <2>3
<1>1. CASE ta_storage_cmd_close(i)
  <2>1. /\ pc[i] = "close" /\ TEE_CloseObject(i, h) /\ After(i, "return", "return")
        /\ UNCHANGED <<arg, locals>>
    BY <1>1 DEF ta_storage_cmd_close, Done
  <2>2. h \in HandleIds /\ arg[i].cmd = "close" /\ (i \in Misusers \/ h \in OpenHandles(i))
    BY <2>1, Honest DEF Permits
  <2>3. /\ ApiFrame(i)
        /\ \/ i \in Misusers /\ Dies(i)
           \/ h \in OpenHandles(i) /\ GivesUp(i, h) /\ ret'[i].res = "SUCCESS"
    BY <2>1, <2>2, CloseApi
  <2>4. QED
    BY <1>q, <2>1, <2>2, <2>3
<1>2. CASE ta_storage_cmd_unlink(i)
  <2>1. /\ pc[i] = "unlink" /\ TEE_CloseAndDeletePersistentObject1(i, h)
        /\ After(i, "return", "ignore") /\ UNCHANGED <<arg, locals>>
    BY <1>2 DEF ta_storage_cmd_unlink, DoneIgnoring
  <2>2. h \in HandleIds /\ arg[i].cmd = "unlink" /\ (i \in Misusers \/ h \in Granted(i, "META"))
    BY <2>1, Honest DEF Permits
  <2>3. /\ ApiFrame(i)
        /\ \/ i \in Misusers /\ Dies(i)
           \/ /\ h \in OpenHandles(i) /\ GivesUp(i, h)
              /\ ret'[i].res \in {"SUCCESS", "STORAGE_NOT_AVAILABLE"}
    BY <2>1, <2>2, DeleteApi DEF Granted
  <2>4. QED
    BY <1>q, <2>1, <2>2, <2>3
<1>3. CASE ta_storage_cmd_free_obj(i)
  <2>1. /\ pc[i] = "free_obj" /\ OnTransient(i, h, TRUE) /\ After(i, "return", "return")
        /\ UNCHANGED <<arg, locals>>
    BY <1>3 DEF ta_storage_cmd_free_obj, Done
  <2>2. /\ h \in HandleIds /\ arg[i].cmd = "free_obj"
        /\ i \in Misusers \/ (h \in OpenHandles(i) /\ handles[i][h].obj = NULL)
    BY <2>1, Honest DEF Permits
  <2>3. /\ ApiFrame(i)
        /\ \/ i \in Misusers /\ Dies(i)
           \/ /\ h \in OpenHandles(i) /\ GivesUp(i, h) /\ handles[i][h].obj = NULL
              /\ ret'[i].res = "SUCCESS"
    BY <2>1, <2>2, TransientApi
  <2>4. QED
    BY <1>q, <2>1, <2>2, <2>3
<1>4. QED
  BY <1>1, <1>2, <1>3

\* A transient object is allocated.
LEMMA AllocObjStep ==
    ASSUME TypeInv, NEW i \in Instances, Local(i), UNCHANGED clientVars, ta_storage_cmd_alloc_obj(i)
    PROVE  StepFrame(i) /\ Local(i)'
<1> USE DEF ObjectCmds, EnumCmds, Labels
<1>1. /\ pc[i] = "alloc_obj" /\ TEE_AllocateTransientObject(i) /\ After(i, "return", "return")
      /\ UNCHANGED <<arg, locals>>
  BY DEF ta_storage_cmd_alloc_obj, Done
<1>2. arg[i].cmd = "alloc_obj" /\ arg[i].obj = NULL /\ arg[i].flags = {}
  BY <1>1 DEF Local, Control, Fits, Commands
<1>3. /\ ApiFrame(i)
      /\ \/ Refused(i) /\ Same(i)
         \/ Gets(i, NULL, {}, NULL) /\ OpenEnums(i)' = OpenEnums(i)
  BY <1>1, AllocateApi
<1>4. CASE Refused(i) /\ Same(i)
  BY <1>1, <1>3, <1>4, SameStep DEF Refused
<1>5. CASE Gets(i, NULL, {}, NULL) /\ OpenEnums(i)' = OpenEnums(i)
  <2>1. ret'[i].res = "SUCCESS"
    BY <1>5 DEF Gets
  <2>2. /\ StepFrame(i) /\ Temporaries(i)' /\ Control(i)' /\ pc'[i] = "return"
        /\ key'[i] = key[i] /\ stranded'[i] = stranded[i]
    BY <1>1, <1>3, <2>1, OneCallGoes
  <2>3. QED
    BY <1>1, <1>2, <1>5, <2>2, GetsLocal
<1>6. QED
  BY <1>3, <1>4, <1>5

\* The commands on an enumerator.
LEMMA EnumStep ==
    ASSUME TypeInv, NEW i \in Instances, Local(i), UNCHANGED clientVars,
           \/ ta_storage_cmd_alloc_enum(i)
           \/ ta_storage_cmd_free_enum(i)
           \/ ta_storage_cmd_reset_enum(i)
           \/ ta_storage_cmd_start_enum(i)
           \/ ta_storage_cmd_next_enum(i)
    PROVE  StepFrame(i) /\ Local(i)'
<1> USE DEF ObjectCmds, EnumCmds
<1> DEFINE e == arg[i].h
<1>0. "return" \in Labels
  BY DEF Labels
<1>q. ASSUME ApiFrame(i), Done(i), pc[i] \in {"alloc_enum", "reset_enum", "start_enum", "next_enum"},
             \/ i \in Misusers /\ Dies(i)
             \/ /\ Same(i) /\ ret'[i].res # "TARGET_DEAD"
                /\ pc[i] = "alloc_enum" => ret'[i].res # "SUCCESS"
      PROVE  StepFrame(i) /\ Local(i)'
  <2>1. After(i, "return", "return") /\ UNCHANGED <<arg, locals>>
    BY <1>q DEF Done
  <2>2. CASE i \in Misusers /\ Dies(i)
    BY <1>0, <1>q, <2>1, <2>2, DeadStep
  <2>3. CASE /\ Same(i) /\ ret'[i].res # "TARGET_DEAD"
             /\ pc[i] = "alloc_enum" => ret'[i].res # "SUCCESS"
    BY <1>0, <1>q, <2>1, <2>3, SameStep
  <2>4. QED
    BY <1>q, <2>2, <2>3
<1>p. ASSUME ApiFrame(i), Done(i), pc[i] \in {"alloc_enum", "free_enum"}, ret'[i].res = "SUCCESS",
             handles'[i] = handles[i],
             \/ /\ pc[i] = "alloc_enum" /\ ret'[i].val \in EnumIds \ OpenEnums(i)
                /\ OpenEnums(i)' = OpenEnums(i) \cup {ret'[i].val}
             \/ pc[i] = "free_enum" /\ OpenEnums(i)' = OpenEnums(i) \ {e}
      PROVE  StepFrame(i) /\ Local(i)'
  <2>1. After(i, "return", "return") /\ UNCHANGED <<arg, locals>>
    BY <1>p DEF Done
  <2>2. /\ StepFrame(i) /\ Temporaries(i)' /\ OwnObject(i)' /\ Control(i)' /\ arg'[i] = arg[i]
        /\ sess[i] = "open" /\ arg[i].cmd = pc[i] /\ pc'[i] = "return"
        /\ key'[i] = key[i] /\ stranded'[i] = stranded[i]
    BY <1>0, <1>p, <2>1, OneCallGoes
  <2>3. sess'[i] = sess[i] /\ held'[i] = held[i] /\ eheld'[i] = eheld[i]
    BY <2>2 DEF StepFrame, clientVars
  <2>4. ~JustAllocated(i) /\ ~JustFreed(i)
    BY <1>p DEF JustAllocated, JustFreed
  <2>5. OpenEnums(i) = eheld[i]
    BY <1>p, <2>4 DEF Local, Enumerators
  <2>6. Enumerators(i)'
    <3>1. /\ JustAllocated(i)' <=> pc[i] = "alloc_enum"
          /\ JustFreed(i)' <=> pc[i] = "free_enum"
      BY <1>p, <2>2 DEF JustAllocated, JustFreed
    <3>2. CASE pc[i] = "alloc_enum"
      BY <1>p, <2>2, <2>3, <2>5, <3>1, <3>2 DEF Enumerators
    <3>3. CASE pc[i] = "free_enum"
      <4>1. e \in EnumIds
        BY <3>3, Honest
      <4>2. QED
        BY <1>p, <2>2, <2>3, <2>5, <3>1, <3>3, <4>1 DEF Enumerators
    <3>4. QED
      BY <1>p, <3>2, <3>3
  <2>7. HandlesKnown(i)'
    <3>1. /\ ~Opened(i) /\ ~Renamed(i) /\ ~GivenUp(i) /\ ~Opened(i)' /\ ~Renamed(i)' /\ ~GivenUp(i)'
          /\ Spare(i)' = Spare(i) /\ pc[i] # "panic"
      BY <1>p, <2>2 DEF Opened, Renamed, GivenUp, Spare
    <3>2. \A h \in HandleIds : Agree(i, h) => Agree(i, h)'
      BY <1>p, <2>2, <2>3, <3>1 DEF Agree
    <3>3. QED
      BY <1>p, <2>2, <2>3, <3>1, <3>2 DEF Local, HandlesKnown
  <2>8. i \in Instances \ Misusers => Disciplined(i)'
    BY <2>2, <2>3 DEF Local, Disciplined, Pending, Commands, IdCmds
  <2>9. QED
    BY <2>2, <2>6, <2>7, <2>8 DEF Local
<1>1. CASE ta_storage_cmd_alloc_enum(i)
  <2>1. pc[i] = "alloc_enum" /\ Done(i) /\ TEE_AllocatePersistentObjectEnumerator(i)
    BY <1>1 DEF ta_storage_cmd_alloc_enum
  <2>2. /\ ApiFrame(i)
        /\ \/ Refused(i) /\ Same(i)
           \/ \E g \in EnumIds \ OpenEnums(i) :
                 /\ ret'[i].res = "SUCCESS" /\ ret'[i].val = g
                 /\ handles'[i] = handles[i]
                 /\ OpenEnums(i)' = OpenEnums(i) \cup {g}
    BY <2>1, AllocEnumApi
  <2>3. QED
    BY <1>q, <1>p, <2>1, <2>2 DEF Refused
<1>2. CASE ta_storage_cmd_free_enum(i)
  <2>1. pc[i] = "free_enum" /\ Done(i) /\ TEE_FreePersistentObjectEnumerator(i, e)
    BY <1>2 DEF ta_storage_cmd_free_enum
  <2>2. e \in EnumIds /\ (i \in Misusers \/ e \in OpenEnums(i))
    BY <2>1, Honest DEF Permits
  <2>3. /\ ApiFrame(i)
        /\ \/ i \in Misusers /\ Dies(i)
           \/ /\ OpenEnums(i)' = OpenEnums(i) \ {e}
              /\ handles'[i] = handles[i] /\ ret'[i].res = "SUCCESS"
    BY <2>1, <2>2, FreeEnumApi
  <2>4. CASE i \in Misusers /\ Dies(i)
    <3>1. After(i, "return", "return") /\ UNCHANGED <<arg, locals>>
      BY <2>1 DEF Done
    <3>2. QED
      BY <1>0, <2>1, <2>3, <2>4, <3>1, DeadStep
  <2>5. QED
    BY <1>p, <2>1, <2>3, <2>4
<1>u. ASSUME Done(i), pc[i] \in {"reset_enum", "start_enum", "next_enum"}, e \in EnumIds,
             \/ TEE_ResetPersistentObjectEnumerator(i, e)
             \/ \E sid \in Storages : TEE_StartPersistentObjectEnumerator(i, e, sid)
             \/ TEE_GetNextPersistentObject(i, e)
      PROVE  StepFrame(i) /\ Local(i)'
  <2>1. i \in Misusers \/ e \in OpenEnums(i)
    <3>1. arg[i].cmd = pc[i] /\ (i \in Misusers \/ Permits(i))
      BY <1>u, Honest
    <3>2. QED
      BY <1>u, <3>1 DEF Permits
  <2>2. /\ ApiFrame(i)
        /\ \/ e \notin OpenEnums(i) /\ Dies(i)
           \/ Same(i) /\ ret'[i].res # "TARGET_DEAD"
    BY <1>u, UseEnumApi
  <2>3. QED
    BY <1>q, <1>u, <2>1, <2>2
<1>3. CASE ta_storage_cmd_reset_enum(i)
  <2>1. /\ pc[i] = "reset_enum" /\ Done(i) /\ TEE_ResetPersistentObjectEnumerator(i, e)
    BY <1>3 DEF ta_storage_cmd_reset_enum
  <2>2. e \in EnumIds
    BY <2>1, Honest
  <2>3. QED
    BY <1>u, <2>1, <2>2
<1>4. CASE ta_storage_cmd_start_enum(i)
  <2>1. /\ pc[i] = "start_enum" /\ Done(i)
        /\ TEE_StartPersistentObjectEnumerator(i, e, arg[i].obj[1])
    BY <1>4 DEF ta_storage_cmd_start_enum
  <2>2. e \in EnumIds /\ arg[i].obj[1] \in Storages
    BY <2>1, Honest
  <2>3. QED
    BY <1>u, <2>1, <2>2
<1>5. CASE ta_storage_cmd_next_enum(i)
  <2>1. /\ pc[i] = "next_enum" /\ Done(i)
        /\ TEE_GetNextPersistentObject(i, e) \/ Fails(i, "SHORT_BUFFER")
    BY <1>5 DEF ta_storage_cmd_next_enum
  <2>2. e \in EnumIds
    BY <2>1, Honest
  <2>3. CASE TEE_GetNextPersistentObject(i, e)
    BY <1>u, <2>1, <2>2, <2>3
  <2>4. CASE Fails(i, "SHORT_BUFFER")
    <3>1. ApiFrame(i) /\ Same(i) /\ ret'[i].res = "SHORT_BUFFER"
      BY <2>4, FailsApi DEF Results
    <3>2. QED
      BY <1>q, <2>1, <3>1
  <2>5. QED
    BY <2>1, <2>3, <2>4
<1>6. QED
  BY <1>1, <1>2, <1>3, <1>4, <1>5

\* The result of a deletion or a restriction is replaced by success.
LEMMA IgnoreStep ==
    ASSUME TypeInv, NEW i \in Instances, Local(i), UNCHANGED clientVars, IgnoreResult(i)
    PROVE  StepFrame(i) /\ Local(i)'
<1>1. /\ pc[i] = "ignore" /\ Returns(i, "SUCCESS", NULL) /\ Goto(i, "return")
      /\ UNCHANGED <<store, handles, enums, arg, object_id, transient_key, encrypt_op, key, n,
                     stranded>>
  BY DEF IgnoreResult, Success, Returns, locals, kept
<1>2. ApiFrame(i) /\ Same(i) /\ ret'[i].res = "SUCCESS"
  <2>1. "SUCCESS" \in Results /\ NULL \in Values
    BY DEF Results, Values
  <2>2. QED
    BY <1>1, <2>1, PassiveApi
<1>3. /\ StepFrame(i) /\ pc'[i] = "return" /\ arg'[i] = arg[i]
      /\ arg[i].cmd \in {"unlink", "restrict_usage"}
      /\ key'[i] = key[i] /\ stranded'[i] = stranded[i]
  BY <1>1, <1>2 DEF StepFrame, Goto, TypeInv, Labels, Local, Control
<1>4. Control(i)'
  BY <1>1, <1>3 DEF Local, Control, Fits, StepFrame, KeyLabels, LoopLabels, Commands, IdCmds,
     ObjectCmds, EnumCmds, clientVars
<1>5. Temporaries(i)' /\ key'[i] = NULL
  BY <1>1, <1>3 DEF Local, Temporaries, KeyLabels, LoopLabels, KeyAllocated
<1>6. Quiet(i)
  BY <1>1, <1>2, <1>3 DEF Quiet, Opened, Renamed, GivenUp, JustAllocated, JustFreed, Pending,
     Commands, IdCmds, ObjectCmds, EnumCmds
<1>7. QED
  BY <1>3, <1>4, <1>5, <1>6, QuietLocal DEF OwnObject

\* The commands with one call.
LEMMA OneCallStep ==
    ASSUME TypeInv, Stored, NEW i \in Instances, Local(i), OneCall(i), UNCHANGED clientVars
    PROVE  StepFrame(i) /\ Local(i)'
BY UseStep, CloseStep, AllocObjStep, EnumStep, IgnoreStep DEF OneCall

-----------------------------------------------------------------------------
(***************************************************************************)
(* key_in_persistent and loop.                                             *)
(***************************************************************************)

\* The client knows all that is open but what is stranded or in use by the command.
Known(i) ==
    /\ key[i] \notin stranded[i]
    /\ \A h \in HandleIds :
        IF h \in Spare(i)
        THEN held[i][h] = NULL /\ handles[i][h] # NULL /\ handles[i][h].obj # NULL
        ELSE /\ handles[i][h] = NULL <=> held[i][h] = NULL
             /\ held[i][h] # NULL => /\ handles[i][h].flags = held[i][h].flags
                                     /\ handles[i][h].obj = held[i][h].obj

\* The labels of a command that uses objects of its own.
OwnLabels(cmd) == IF cmd = "loop" THEN LoopLabels ELSE KeyLabels

\* What such a command starts from.
LEMMA OwnKnown ==
    ASSUME TypeInv, NEW i \in Instances, Local(i), pc[i] \in KeyLabels \cup LoopLabels
    PROVE  /\ Known(i) /\ sess[i] = "open" /\ arg[i].cmd \in {"key_in_persistent", "loop"}
           /\ arg[i].cmd = IF pc[i] \in LoopLabels THEN "loop" ELSE "key_in_persistent"
           /\ arg[i].obj \in Storages \X {NULL} /\ OpenEnums(i) = eheld[i]
           /\ pc[i] \in OwnLabels(arg[i].cmd)
<1> USE DEF KeyLabels, LoopLabels
<1>1. /\ arg[i].cmd = IF pc[i] \in LoopLabels THEN "loop" ELSE "key_in_persistent"
      /\ sess[i] = "open"
  BY DEF Local, Control, TypeInv
<1>2. arg[i].obj \in Storages \X {NULL} /\ pc[i] \in OwnLabels(arg[i].cmd)
  BY <1>1 DEF Local, Control, Fits, OwnLabels
<1>3. ~Opened(i) /\ ~Renamed(i) /\ ~GivenUp(i) /\ ~JustAllocated(i) /\ ~JustFreed(i)
  BY <1>1 DEF Opened, Renamed, GivenUp, JustAllocated, JustFreed
<1>4. Known(i)
  BY <1>3 DEF Local, HandlesKnown, Known, Agree
<1>5. OpenEnums(i) = eheld[i]
  BY <1>3 DEF Local, Enumerators
<1>6. QED
  BY <1>1, <1>2, <1>4, <1>5

\* What is left to show of a step of such a command.
LEMMA OwnLocal ==
    ASSUME TypeInv, NEW i \in Instances, Local(i), StepFrame(i),
           pc[i] \in KeyLabels \cup LoopLabels,
           pc'[i] \in OwnLabels(arg[i].cmd) \cup {"return"},
           pc'[i] \notin {"key_in_persistent"}, OpenEnums(i)' = OpenEnums(i),
           Temporaries(i)', OwnObject(i)', Known(i)'
    PROVE  Local(i)'
<1>1. /\ sess[i] = "open" /\ arg[i].cmd \in {"key_in_persistent", "loop"}
      /\ OpenEnums(i) = eheld[i]
  BY OwnKnown
<1>2. /\ arg'[i] = arg[i] /\ sess'[i] = sess[i] /\ held'[i] = held[i] /\ eheld'[i] = eheld[i]
      /\ hpc'[i] = hpc[i]
  BY DEF StepFrame, clientVars
<1>3. pc'[i] \in KeyLabels \cup LoopLabels \cup {"return"}
  BY DEF OwnLabels
<1>4. Control(i)'
  BY <1>1, <1>2 DEF Local, Control, Fits, OwnLabels, KeyLabels, LoopLabels, Commands, IdCmds,
     ObjectCmds, EnumCmds
<1>5. /\ ~Opened(i)' /\ ~Renamed(i)' /\ ~GivenUp(i)' /\ ~JustAllocated(i)' /\ ~JustFreed(i)'
      /\ pc'[i] # "panic"
  BY <1>1, <1>2, <1>3 DEF Opened, Renamed, GivenUp, JustAllocated, JustFreed, KeyLabels, LoopLabels
<1>6. Enumerators(i)'
  BY <1>1, <1>2, <1>5 DEF Enumerators
<1>7. HandlesKnown(i)'
  BY <1>1, <1>2, <1>5 DEF HandlesKnown, Known, Agree
<1>8. i \in Instances \ Misusers => Disciplined(i)'
  BY <1>1, <1>2, <1>5 DEF Disciplined, Permits, ObjectCmds, EnumCmds
<1>9. QED
  BY <1>4, <1>6, <1>7, <1>8 DEF Local

\* An object that the command opened.
LEMMA KnownGets ==
    ASSUME TypeInv, NEW i \in Instances, Known(i), NEW obj \in Objects,
           NEW flags \in SUBSET StorageFlags, NEW c \in Contents \cup {NULL},
           Gets(i, obj, flags, c), key[i] = NULL, key'[i] = ret'[i].val,
           stranded'[i] = stranded[i], held'[i] = held[i]
    PROVE  /\ Known(i)' /\ key'[i] \in HandleIds /\ handles'[i][key'[i]] # NULL
           /\ handles'[i][key'[i]].obj = obj /\ handles'[i][key'[i]].flags = flags
           /\ handles'[i][key'[i]].key = c
<1>1. PICK h \in HandleIds :
        /\ handles[i][h] = NULL
        /\ handles'[i] = [handles[i] EXCEPT ![h] = [obj |-> obj, flags |-> flags, key |-> c]]
        /\ ret'[i].val = h
  BY DEF Gets
<1>2. [obj |-> obj, flags |-> flags, key |-> c] \in ObjectHandles
  BY DEF ObjectHandles
<1>3. /\ handles'[i][h] = [obj |-> obj, flags |-> flags, key |-> c]
      /\ [obj |-> obj, flags |-> flags, key |-> c] # NULL
      /\ \A g \in HandleIds \ {h} : handles'[i][g] = handles[i][g]
  BY <1>1, <1>2, StorageTaAssumption DEF TypeInv
<1>4. /\ handles'[i][h] # NULL /\ handles'[i][h].obj = obj /\ handles'[i][h].flags = flags
      /\ handles'[i][h].key = c /\ obj # NULL /\ h # NULL
  BY <1>3, StorageTaAssumption, StorageAssumption
<1>5. h \notin stranded[i] /\ held[i][h] = NULL
  BY <1>1 DEF Known, Spare
<1>6. Spare(i)' = Spare(i) \cup {h}
  BY <1>1, <1>4 DEF Spare
<1>7. Known(i)'
  BY <1>1, <1>3, <1>4, <1>5, <1>6 DEF Known
<1>8. QED
  BY <1>1, <1>4, <1>7

\* An object that the command gave up.
LEMMA KnownGivesUp ==
    ASSUME TypeInv, NEW i \in Instances, Known(i), key[i] \in HandleIds,
           GivesUp(i, key[i]), key'[i] = NULL, stranded'[i] = stranded[i], held'[i] = held[i]
    PROVE  Known(i)'
<1>1. /\ handles'[i][key[i]] = NULL
      /\ \A g \in HandleIds \ {key[i]} : handles'[i][g] = handles[i][g]
  BY DEF GivesUp, TypeInv
<1>2. /\ key[i] # NULL /\ NULL \notin HandleIds /\ key[i] \notin stranded[i]
      /\ held[i][key[i]] = NULL
  BY StorageAssumption DEF Known, Spare
<1>3. Spare(i)' = Spare(i) \ {key[i]} /\ NULL \notin stranded[i]
  BY <1>2 DEF Spare, TypeInv
<1>4. QED
  BY <1>1, <1>2, <1>3 DEF Known

\* An object that the command leaves open.
LEMMA KnownStrands ==
    ASSUME TypeInv, NEW i \in Instances, Known(i), key[i] \in HandleIds,
           handles'[i] = handles[i], key'[i] = NULL,
           stranded'[i] = stranded[i] \cup {key[i]}, held'[i] = held[i]
    PROVE  Known(i)'
<1>1. Spare(i)' = Spare(i) /\ NULL \notin stranded'[i]
  BY StorageAssumption DEF Spare, TypeInv
<1>2. QED
  BY <1>1 DEF Known

\* A step that opens and closes nothing.
LEMMA KnownSame ==
    ASSUME NEW i \in Instances, Known(i), handles'[i] = handles[i], key'[i] = key[i],
           stranded'[i] = stranded[i], held'[i] = held[i]
    PROVE  Known(i)'
BY DEF Known, Spare

\* The object a command has open is its own, with meta access.
LEMMA OwnHeld ==
    ASSUME TypeInv, Stored, NEW i \in Instances, Local(i), key[i] # NULL
    PROVE  key[i] \in HandleIds /\ key[i] \in OpenHandles(i) /\ key[i] \in Granted(i, "META")
<1>1. key[i] \in HandleIds /\ key[i] \in OpenHandles(i) /\ "META" \in handles[i][key[i]].flags
  BY DEF TypeInv, Local, OwnObject, OpenHandles
<1>2. QED
  BY <1>1, MetaGranted

\* The steps of ta_storage_cmd_key_in_persistent.
LEMMA KeyStep ==
    ASSUME TypeInv, Stored, NEW i \in Instances, Local(i), UNCHANGED clientVars,
           ta_storage_cmd_key_in_persistent(i)
    PROVE  StepFrame(i) /\ Local(i)'
<1> DEFINE Before == pc[i] \in KeyLabels
<1>0. ASSUME Before
      PROVE  /\ Known(i) /\ arg[i].cmd = "key_in_persistent" /\ held'[i] = held[i]
             /\ OwnLabels(arg[i].cmd) = KeyLabels /\ KeyObject(i) \in Objects
             /\ pc[i] \in KeyLabels \cup LoopLabels /\ n[i] = 0 /\ ~object_id[i]
  <2>1. Known(i) /\ arg[i].cmd = "key_in_persistent" /\ arg[i].obj \in Storages \X {NULL}
    BY <1>0, OwnKnown DEF KeyLabels, LoopLabels
  <2>2. KeyObject(i) \in Objects
    BY <2>1, StorageTaAssumption DEF KeyObject, Objects
  <2>3. n[i] = 0 /\ ~object_id[i]
    BY <1>0 DEF Local, Temporaries, KeyLabels, LoopLabels
  <2>4. QED
    BY <1>0, <2>1, <2>2, <2>3 DEF OwnLabels, clientVars
<1>q. ASSUME Before, StepFrame(i), Same(i), Temporaries(i)',
             pc'[i] \in (KeyLabels \ {"key_in_persistent"}) \cup {"return"},
             key'[i] = key[i], stranded'[i] = stranded[i]
      PROVE  Local(i)'
  <2>1. Known(i)'
    BY <1>0, <1>q, KnownSame DEF Same
  <2>2. OwnObject(i)'
    <3>1. handles'[i] = handles[i] /\ arg'[i] = arg[i] /\ pc[i] # "loop_delete" /\ pc'[i] # "loop_delete"
      BY <1>q DEF Same, StepFrame, KeyLabels
    <3>2. QED
      BY <1>q, <3>1 DEF Local, OwnObject, Target, KeyObject
  <2>3. QED
    BY <1>0, <1>q, <2>1, <2>2, OwnLocal DEF Same
<1>g. ASSUME Before, StepFrame(i), Temporaries(i)', NEW c \in Contents \cup {NULL},
             Gets(i, KeyObject(i), KeyFlags, c), OpenEnums(i)' = OpenEnums(i),
             key[i] = NULL, key'[i] = ret'[i].val, stranded'[i] = stranded[i],
             pc'[i] \in {"check_created", "check_opened"}
      PROVE  Local(i)'
  <2>1. KeyFlags \in SUBSET StorageFlags /\ "META" \in KeyFlags
    BY DEF KeyFlags, StorageFlags
  <2>2. /\ Known(i)' /\ key'[i] \in HandleIds /\ handles'[i][key'[i]] # NULL
        /\ handles'[i][key'[i]].obj = KeyObject(i) /\ handles'[i][key'[i]].flags = KeyFlags
    BY <1>0, <1>g, <2>1, KnownGets
  <2>3. OwnObject(i)'
    BY <1>g, <2>1, <2>2 DEF OwnObject, Target, KeyObject, StepFrame
  <2>4. QED
    BY <1>0, <1>g, <2>2, <2>3, OwnLocal DEF KeyLabels
<1>c. ASSUME Before, StepFrame(i), Temporaries(i)', key[i] # NULL, GivesUp(i, key[i]),
             key'[i] = NULL, stranded'[i] = stranded[i], pc'[i] \in {"open_key", "cleanup2"}
      PROVE  Local(i)'
  <2>1. Known(i)'
    BY <1>0, <1>c, OwnHeld, KnownGivesUp
  <2>2. OwnObject(i)' /\ OpenEnums(i)' = OpenEnums(i)
    BY <1>c DEF OwnObject, GivesUp
  <2>3. QED
    BY <1>0, <1>c, <2>1, <2>2, OwnLocal DEF KeyLabels
<1> USE DEF KeyLabels, Labels, Results
<1>1. CASE KeyAllocate(i)
  <2>1. /\ ApiFrame(i) /\ Same(i)
        /\ pc' \in [Instances -> Labels] /\ \A j \in Instances \ {i} : pc'[j] = pc[j]
        /\ \/ ret'[i].res = "SUCCESS" /\ pc'[i] = "generate_key"
           \/ ret'[i].res = "OUT_OF_MEMORY" /\ pc'[i] = "return"
    BY <1>1, LocalCallGoes DEF KeyAllocate
  <2>2. /\ pc[i] = "key_in_persistent"
        /\ transient_key' = [transient_key EXCEPT ![i] = IF pc'[i] = "return" THEN NULL ELSE NoKey]
        /\ UNCHANGED <<arg, object_id, encrypt_op, key, n, stranded>>
    BY <1>1 DEF KeyAllocate
  <2>3. StepFrame(i)
    BY <2>1, <2>2 DEF StepFrame, TypeInv
  <2>4. Temporaries(i)'
    BY <2>1, <2>2 DEF Local, Temporaries, KeyAllocated, LoopLabels, TypeInv
  <2>5. QED
    BY <1>q, <2>1, <2>2, <2>3, <2>4
<1>2. CASE KeyGenerate(i)
  <2>1. /\ ApiFrame(i) /\ Same(i)
        /\ pc' \in [Instances -> Labels] /\ \A j \in Instances \ {i} : pc'[j] = pc[j]
        /\ \/ ret'[i].res = "SUCCESS" /\ pc'[i] = "create_key"
           \/ ret'[i].res = "GENERIC" /\ pc'[i] = "cleanup2"
    BY <1>2, LocalCallGoes DEF KeyGenerate
  <2>2. PICK k \in Keys :
          transient_key' = [transient_key EXCEPT ![i] = IF pc'[i] = "create_key" THEN k ELSE NoKey]
    BY <1>2 DEF KeyGenerate
  <2>3. pc[i] = "generate_key" /\ UNCHANGED <<arg, object_id, encrypt_op, key, n, stranded>>
    BY <1>2 DEF KeyGenerate
  <2>4. StepFrame(i)
    BY <2>1, <2>2, <2>3 DEF StepFrame, TypeInv
  <2>5. Temporaries(i)'
    BY <2>1, <2>2, <2>3 DEF Local, Temporaries, KeyAllocated, LoopLabels, TypeInv
  <2>6. QED
    BY <1>q, <2>1, <2>3, <2>4, <2>5
<1>a. ASSUME NEW at \in {"create_key", "open_key"}, NEW next \in {"check_created", "check_opened"},
             pc[i] = at, ApiFrame(i), After(i, next, "cleanup2"),
             key' = [key EXCEPT ![i] = ret'[i].val],
             UNCHANGED <<arg, object_id, transient_key, encrypt_op, n, stranded>>,
             NEW c \in Contents \cup {NULL},
             \/ Refused(i) /\ Same(i)
             \/ Gets(i, KeyObject(i), KeyFlags, c) /\ OpenEnums(i)' = OpenEnums(i)
      PROVE  StepFrame(i) /\ Local(i)'
  <2>1. next \in Labels /\ "cleanup2" \in Labels
    OBVIOUS
  <2>2. /\ pc' \in [Instances -> Labels] /\ \A j \in Instances \ {i} : pc'[j] = pc[j]
        /\ ret'[i].res = "SUCCESS" => pc'[i] = next
        /\ ret'[i].res \notin {"SUCCESS", "TARGET_DEAD"} => pc'[i] = "cleanup2"
    BY <1>a, <2>1, AfterGoes
  <2>3. key[i] = NULL /\ transient_key[i] \in Keys /\ ~encrypt_op[i] /\ ~object_id[i] /\ n[i] = 0
    BY <1>a DEF Local, Temporaries, KeyAllocated, LoopLabels
  <2>4. CASE Refused(i) /\ Same(i)
    <3>1. pc'[i] = "cleanup2" /\ ret'[i].val = NULL
      BY <2>2, <2>4 DEF Refused
    <3>2. key'[i] = NULL
      BY <1>a, <3>1 DEF TypeInv
    <3>3. StepFrame(i)
      BY <1>a, <2>2, <3>1 DEF StepFrame, TypeInv
    <3>4. Temporaries(i)'
      BY <1>a, <2>3, <3>1, <3>2 DEF Temporaries, KeyAllocated, LoopLabels
    <3>5. QED
      BY <1>a, <1>q, <2>3, <2>4, <3>1, <3>2, <3>3, <3>4
  <2>5. CASE Gets(i, KeyObject(i), KeyFlags, c) /\ OpenEnums(i)' = OpenEnums(i)
    <3>1. pc'[i] = next /\ ret'[i].val \in HandleIds
      BY <2>2, <2>5 DEF Gets
    <3>2. key'[i] = ret'[i].val /\ ret'[i].val # NULL
      BY <1>a, <3>1, StorageAssumption DEF TypeInv
    <3>3. StepFrame(i)
      BY <1>a, <2>2, <3>1 DEF StepFrame, TypeInv
    <3>4. Temporaries(i)'
      BY <1>a, <2>3, <3>1, <3>2 DEF Temporaries, KeyAllocated, LoopLabels
    <3>5. QED
      BY <1>a, <1>g, <2>3, <2>5, <3>1, <3>2, <3>3, <3>4
  <2>6. QED
    BY <1>a, <2>4, <2>5
<1>3. CASE KeyCreate(i)
  <2>1. /\ pc[i] = "create_key" /\ After(i, "check_created", "cleanup2")
        /\ key' = [key EXCEPT ![i] = ret'[i].val]
        /\ UNCHANGED <<arg, object_id, transient_key, encrypt_op, n, stranded>>
        /\ TEE_CreatePersistentObject(i, KeyObject(i), KeyFlags, Content(transient_key[i], NULL))
    BY <1>3 DEF KeyCreate
  <2>2. Content(transient_key[i], NULL) \in Contents
    BY <2>1 DEF Content, Contents, Local, Temporaries
  <2>3. PICK c \in Contents : c = Content(transient_key[i], NULL)
    BY <2>2
  <2>4. KeyFlags \in SUBSET StorageFlags /\ KeyObject(i) \in Objects
    BY <1>0, <2>1 DEF KeyFlags, StorageFlags
  <2>5. /\ ApiFrame(i)
        /\ \/ Refused(i) /\ Same(i)
           \/ Gets(i, KeyObject(i), KeyFlags, c) /\ OpenEnums(i)' = OpenEnums(i)
    BY <2>1, <2>3, <2>4, CreateApi
  <2>6. QED
    BY <1>a, <2>1, <2>5
<1>4. CASE KeyOpen(i)
  <2>1. /\ pc[i] = "open_key" /\ After(i, "check_opened", "cleanup2")
        /\ key' = [key EXCEPT ![i] = ret'[i].val]
        /\ UNCHANGED <<arg, object_id, transient_key, encrypt_op, n, stranded>>
        /\ TEE_OpenPersistentObject(i, KeyObject(i), KeyFlags)
    BY <1>4 DEF KeyOpen
  <2>2. KeyFlags \in SUBSET StorageFlags /\ KeyObject(i) \in Objects
    BY <1>0, <2>1 DEF KeyFlags, StorageFlags
  <2>3. store[KeyObject(i)] \in Contents \cup {NULL}
    BY <2>2 DEF TypeInv
  <2>4. /\ ApiFrame(i)
        /\ \/ Refused(i) /\ Same(i)
           \/ Gets(i, KeyObject(i), KeyFlags, store[KeyObject(i)]) /\ OpenEnums(i)' = OpenEnums(i)
    BY <2>1, <2>2, OpenApi
  <2>5. QED
    BY <1>a, <2>1, <2>3, <2>4
<1>k. ASSUME NEW at \in {"check_created", "check_opened"},
             NEW next \in {"close_created", "allocate_op"}, check_obj(i, at, next)
      PROVE  StepFrame(i) /\ Local(i)'
  <2>1. /\ pc[i] = at
        /\ UNCHANGED <<store, handles, enums, arg, object_id, transient_key, encrypt_op, n>>
        /\ \/ /\ Returns(i, "SUCCESS", NULL) /\ Goto(i, next)
              /\ UNCHANGED <<key, stranded>>
           \/ /\ Returns(i, "GENERIC", NULL) /\ Goto(i, "cleanup2")
              /\ stranded' = [stranded EXCEPT ![i] = @ \cup {key[i]}]
              /\ key' = [key EXCEPT ![i] = NULL]
    BY <1>k DEF check_obj, Returns, Success
  <2>2. ApiFrame(i) /\ Same(i)
    <3>1. NULL \in Values
      BY DEF Values
    <3>2. QED
      BY <2>1, <3>1, PassiveApi
  <2>3. /\ key[i] # NULL /\ transient_key[i] \in Keys /\ ~encrypt_op[i] /\ ~object_id[i] /\ n[i] = 0
        /\ key[i] \in HandleIds
    BY <2>1 DEF Local, Temporaries, KeyAllocated, LoopLabels, TypeInv
  <2>4. CASE Goto(i, next) /\ UNCHANGED <<key, stranded>>
    <3>1. StepFrame(i) /\ pc'[i] = next
      BY <2>1, <2>2, <2>4 DEF StepFrame, TypeInv, Goto
    <3>2. Temporaries(i)'
      BY <2>1, <2>3, <2>4, <3>1 DEF Temporaries, KeyAllocated, LoopLabels
    <3>3. QED
      BY <1>q, <2>1, <2>2, <2>4, <3>1, <3>2
  <2>5. CASE /\ Goto(i, "cleanup2")
             /\ stranded' = [stranded EXCEPT ![i] = @ \cup {key[i]}]
             /\ key' = [key EXCEPT ![i] = NULL]
    <3>1. StepFrame(i) /\ pc'[i] = "cleanup2"
      BY <2>1, <2>2, <2>3, <2>5 DEF StepFrame, TypeInv, Goto
    <3>2. key'[i] = NULL /\ stranded'[i] = stranded[i] \cup {key[i]}
      BY <2>5 DEF TypeInv
    <3>3. Temporaries(i)'
      BY <2>1, <2>3, <3>1, <3>2 DEF Temporaries, KeyAllocated, LoopLabels
    <3>4. Known(i)'
      BY <1>0, <2>1, <2>3, <3>2, KnownStrands
    <3>5. OwnObject(i)' /\ OpenEnums(i)' = OpenEnums(i)
      BY <2>2, <3>2 DEF OwnObject, Same
    <3>6. QED
      BY <1>0, <2>1, <3>1, <3>3, <3>4, <3>5, OwnLocal
  <2>6. QED
    BY <2>1, <2>4, <2>5
<1>5. CASE KeyClose(i)
  <2>1. /\ pc[i] = "close_created" /\ TEE_CloseObject(i, key[i])
        /\ key' = [key EXCEPT ![i] = NULL] /\ Goto(i, "open_key")
        /\ UNCHANGED <<arg, object_id, transient_key, encrypt_op, n, stranded>>
    BY <1>5 DEF KeyClose
  <2>2. /\ key[i] # NULL /\ transient_key[i] \in Keys /\ ~encrypt_op[i] /\ ~object_id[i] /\ n[i] = 0
        /\ key[i] \in HandleIds /\ key[i] \in OpenHandles(i)
    BY <2>1, OwnHeld DEF Local, Temporaries, KeyAllocated, LoopLabels
  <2>3. ApiFrame(i) /\ GivesUp(i, key[i])
    BY <2>1, <2>2, CloseApi
  <2>4. StepFrame(i) /\ pc'[i] = "open_key" /\ key'[i] = NULL
    BY <2>1, <2>3 DEF StepFrame, TypeInv, Goto
  <2>5. Temporaries(i)'
    BY <2>1, <2>2, <2>4 DEF Temporaries, KeyAllocated, LoopLabels
  <2>6. QED
    BY <1>c, <2>1, <2>2, <2>3, <2>4, <2>5
<1>6. CASE AllocateOperation(i)
  <2>1. /\ ApiFrame(i) /\ Same(i)
        /\ pc' \in [Instances -> Labels] /\ \A j \in Instances \ {i} : pc'[j] = pc[j]
        /\ \/ ret'[i].res = "SUCCESS" /\ pc'[i] = "set_key"
           \/ ret'[i].res = "OUT_OF_MEMORY" /\ pc'[i] = "cleanup3"
    BY <1>6, LocalCallGoes DEF AllocateOperation
  <2>2. /\ pc[i] = "allocate_op"
        /\ encrypt_op' = [encrypt_op EXCEPT ![i] = pc'[i] = "set_key"]
        /\ UNCHANGED <<arg, object_id, transient_key, key, n, stranded>>
    BY <1>6 DEF AllocateOperation
  <2>3. /\ encrypt_op' \in [Instances -> BOOLEAN] /\ encrypt_op'[i] = (pc'[i] = "set_key")
        /\ \A j \in Instances \ {i} : encrypt_op'[j] = encrypt_op[j]
    BY <2>2 DEF TypeInv
  <2>4. StepFrame(i)
    BY <2>1, <2>2, <2>3 DEF StepFrame, TypeInv
  <2>5. Temporaries(i)'
    BY <2>1, <2>2, <2>3 DEF Local, Temporaries, KeyAllocated, LoopLabels
  <2>6. QED
    BY <1>q, <2>1, <2>2, <2>4, <2>5
<1>7. CASE SetOperationKey(i)
  <2>1. PICK error \in {"GENERIC", "OUT_OF_MEMORY"} : LocalCall(i, error, "cleanup4", "cleanup4")
    BY <1>7 DEF SetOperationKey
  <2>2. /\ pc[i] = "set_key"
        /\ UNCHANGED <<store, handles, enums, arg, object_id, transient_key, encrypt_op, key, n,
                       stranded>>
    BY <1>7 DEF SetOperationKey, locals, kept
  <2>3. /\ ApiFrame(i) /\ Same(i)
        /\ pc' \in [Instances -> Labels] /\ \A j \in Instances \ {i} : pc'[j] = pc[j]
        /\ pc'[i] = "cleanup4"
    <3>1. error \in Results /\ "cleanup4" \in Labels
      OBVIOUS
    <3> HIDE DEF Results, Labels, KeyLabels
    <3>2. QED
      BY <2>1, <2>2, <3>1, LocalCallGoes
  <2>4. StepFrame(i)
    BY <2>2, <2>3 DEF StepFrame, TypeInv
  <2>5. Temporaries(i)'
    BY <2>2, <2>3 DEF Local, Temporaries, KeyAllocated, LoopLabels
  <2>6. QED
    BY <1>q, <2>2, <2>3, <2>4, <2>5
<1>8. CASE Cleanup4(i)
  <2>1. /\ pc[i] = "cleanup4" /\ pc'[i] = "cleanup3" /\ Goto(i, "cleanup3")
        /\ encrypt_op' = [encrypt_op EXCEPT ![i] = FALSE] /\ ~encrypt_op'[i]
        /\ UNCHANGED <<teeVars, arg, object_id, transient_key, key, n, stranded>>
    BY <1>8 DEF Cleanup4, Goto, TypeInv
  <2>2. ApiFrame(i) /\ Same(i)
    BY <2>1, StillApi
  <2>3. StepFrame(i)
    BY <2>1, <2>2 DEF StepFrame, TypeInv, Goto
  <2>4. Temporaries(i)'
    BY <2>1 DEF Local, Temporaries, KeyAllocated, LoopLabels
  <2>5. QED
    BY <1>q, <2>1, <2>2, <2>3, <2>4
<1>9. CASE Cleanup3(i)
  <2>1. /\ pc[i] = "cleanup3" /\ (Removes(i, key[i]) \/ RemovesNot(i, key[i]))
        /\ key' = [key EXCEPT ![i] = NULL] /\ Goto(i, "cleanup2")
        /\ UNCHANGED <<ret, arg, object_id, transient_key, encrypt_op, n, stranded>>
    BY <1>9 DEF Cleanup3
  <2>2. /\ key[i] # NULL /\ transient_key[i] \in Keys /\ ~encrypt_op[i] /\ ~object_id[i] /\ n[i] = 0
        /\ key[i] \in Granted(i, "META")
    BY <2>1, OwnHeld DEF Local, Temporaries, KeyAllocated, LoopLabels
  <2>3. ApiFrame(i) /\ GivesUp(i, key[i])
    <3>1. /\ ret[i].res \in Results /\ ret[i].val \in Values
          /\ [res |-> ret[i].res, val |-> ret[i].val] = ret[i]
      BY DEF TypeInv
    <3>2. PICK r \in Results, v \in Values : r = ret[i].res /\ v = ret[i].val
      BY <3>1
    <3>3. Returns(i, r, v)
      BY <2>1, <3>1, <3>2 DEF Returns, TypeInv
    <3>4. QED
      BY <2>1, <2>2, <3>3, RemovesApi
  <2>4. StepFrame(i) /\ pc'[i] = "cleanup2" /\ key'[i] = NULL
    BY <2>1, <2>3 DEF StepFrame, TypeInv, Goto
  <2>5. Temporaries(i)'
    BY <2>1, <2>2, <2>4 DEF Temporaries, KeyAllocated, LoopLabels
  <2>6. QED
    BY <1>c, <2>1, <2>2, <2>3, <2>4, <2>5
<1>10. CASE Cleanup2(i)
  <2>1. /\ pc[i] = "cleanup2" /\ pc'[i] = "return" /\ Goto(i, "return")
        /\ transient_key' = [transient_key EXCEPT ![i] = NULL] /\ transient_key'[i] = NULL
        /\ UNCHANGED <<teeVars, arg, object_id, encrypt_op, key, n, stranded>>
    BY <1>10 DEF Cleanup2, Goto, TypeInv
  <2>2. ApiFrame(i) /\ Same(i)
    BY <2>1, StillApi
  <2>3. StepFrame(i)
    BY <2>1, <2>2 DEF StepFrame, TypeInv, Goto
  <2>4. Temporaries(i)'
    BY <2>1 DEF Local, Temporaries, KeyAllocated, LoopLabels
  <2>5. QED
    BY <1>q, <2>1, <2>2, <2>3, <2>4
<1>11. QED
  BY <1>1, <1>2, <1>3, <1>4, <1>k, <1>5, <1>6, <1>7, <1>8, <1>9, <1>10
     DEF ta_storage_cmd_key_in_persistent

\* The steps of ta_storage_cmd_loop.
LEMMA LoopStep ==
    ASSUME TypeInv, Stored, NEW i \in Instances, Local(i), UNCHANGED clientVars,
           ta_storage_cmd_loop(i)
    PROVE  StepFrame(i) /\ Local(i)'
<1> USE DEF LoopLabels, Labels
<1>0. pc[i] \in LoopLabels
  BY DEF ta_storage_cmd_loop, LoopCreate, LoopDelete, LoopEnd
<1>1. /\ Known(i) /\ arg[i].cmd = "loop" /\ OwnLabels(arg[i].cmd) = LoopLabels
      /\ arg[i].obj[1] \in Storages /\ sess[i] = "open" /\ held'[i] = held[i]
      /\ pc[i] \in KeyLabels \cup LoopLabels
  BY <1>0, OwnKnown DEF OwnLabels, clientVars
<1>2. /\ ~object_id[i] /\ transient_key[i] = NULL /\ ~encrypt_op[i] /\ n[i] \in 0..LoopCount
      /\ LoopCount \in Nat
  BY <1>0, StorageTaAssumption DEF Local, Temporaries, KeyLabels, TypeInv
<1>3. CASE LoopCreate(i)
  <2> DEFINE obj == <<arg[i].obj[1], n[i]>>
  <2>1. /\ pc[i] = "loop" /\ n[i] < LoopCount /\ After(i, "loop_delete", "return")
        /\ key' = [key EXCEPT ![i] = ret'[i].val]
        /\ n' = [n EXCEPT ![i] = IF ret'[i].res = "SUCCESS" THEN @ ELSE 0]
        /\ UNCHANGED <<arg, object_id, transient_key, encrypt_op, stranded>>
        /\ TEE_CreatePersistentObject(i, obj, LoopFlags, Content(NULL, NULL))
    BY <1>3 DEF LoopCreate
  <2>2. /\ n[i] \in 0..(LoopCount - 1) /\ key[i] = NULL
    BY <1>2, <2>1 DEF Local, Temporaries, KeyAllocated
  <2>3. /\ obj \in Objects /\ LoopFlags \in SUBSET StorageFlags /\ "META" \in LoopFlags
        /\ Content(NULL, NULL) \in Contents
    BY <1>1, <2>2, StorageTaAssumption
       DEF Objects, LoopFlags, StorageFlags, Content, Contents
  <2>4. PICK o \in Objects, c \in Contents : o = obj /\ c = Content(NULL, NULL)
    BY <2>3
  <2>5. /\ ApiFrame(i)
        /\ \/ Refused(i) /\ Same(i)
           \/ Gets(i, o, LoopFlags, c) /\ OpenEnums(i)' = OpenEnums(i)
    BY <2>1, <2>3, <2>4, CreateApi
  <2>6. /\ pc' \in [Instances -> Labels] /\ \A j \in Instances \ {i} : pc'[j] = pc[j]
        /\ ret'[i].res = "SUCCESS" => pc'[i] = "loop_delete"
        /\ ret'[i].res \notin {"SUCCESS", "TARGET_DEAD"} => pc'[i] = "return"
    BY <2>1, AfterGoes
  <2>7. /\ n' \in [Instances -> 0..LoopCount] /\ \A j \in Instances \ {i} : n'[j] = n[j]
        /\ ret'[i].res = "SUCCESS" => n'[i] = n[i]
        /\ ret'[i].res # "SUCCESS" => n'[i] = 0
    <3>1. 0 \in 0..LoopCount
      BY <1>2
    <3>2. QED
      BY <2>1, <3>1 DEF TypeInv
  <2>8. ASSUME ret'[i].val \in HandleIds \cup {NULL} PROVE StepFrame(i)
    BY <2>1, <2>5, <2>6, <2>7, <2>8 DEF StepFrame, TypeInv
  <2>9. key'[i] = ret'[i].val
    BY <2>1 DEF TypeInv
  <2>10. CASE Refused(i) /\ Same(i)
    <3>1. pc'[i] = "return" /\ key'[i] = NULL /\ n'[i] = 0 /\ StepFrame(i)
      BY <2>6, <2>7, <2>8, <2>9, <2>10 DEF Refused
    <3>2. Known(i)'
      BY <1>1, <2>1, <2>2, <2>10, <3>1, KnownSame DEF Same
    <3>3. Temporaries(i)' /\ OwnObject(i)' /\ OpenEnums(i)' = OpenEnums(i)
      BY <1>2, <2>1, <2>10, <3>1 DEF Temporaries, OwnObject, KeyLabels, KeyAllocated, Same
    <3>4. QED
      BY <1>1, <3>1, <3>2, <3>3, OwnLocal
  <2>11. CASE Gets(i, o, LoopFlags, c) /\ OpenEnums(i)' = OpenEnums(i)
    <3>1. ret'[i].res = "SUCCESS" /\ ret'[i].val \in HandleIds /\ ret'[i].val # NULL
      BY <2>11, StorageAssumption DEF Gets
    <3>2. pc'[i] = "loop_delete" /\ n'[i] = n[i] /\ StepFrame(i) /\ key'[i] # NULL
      BY <2>6, <2>7, <2>8, <2>9, <3>1
    <3>3. /\ Known(i)' /\ handles'[i][key'[i]] # NULL
          /\ handles'[i][key'[i]].obj = obj /\ handles'[i][key'[i]].flags = LoopFlags
      BY <1>1, <2>1, <2>2, <2>3, <2>4, <2>9, <2>11, KnownGets
    <3>4. OwnObject(i)'
      BY <2>1, <2>3, <3>2, <3>3 DEF OwnObject, Target
    <3>5. Temporaries(i)'
      BY <1>2, <2>1, <2>2, <3>2 DEF Temporaries, KeyLabels, KeyAllocated
    <3>6. QED
      BY <1>1, <2>11, <3>2, <3>3, <3>4, <3>5, OwnLocal
  <2>12. QED
    BY <2>5, <2>8, <2>10, <2>11
<1>4. CASE LoopDelete(i)
  <2>1. /\ pc[i] = "loop_delete" /\ TEE_CloseAndDeletePersistentObject1(i, key[i])
        /\ key' = [key EXCEPT ![i] = NULL]
        /\ n' = [n EXCEPT ![i] = IF ret'[i].res = "SUCCESS" THEN @ + 1 ELSE 0]
        /\ After(i, "loop", "return")
        /\ UNCHANGED <<arg, object_id, transient_key, encrypt_op, stranded>>
    BY <1>4 DEF LoopDelete
  <2>2. /\ n[i] \in 0..(LoopCount - 1) /\ key[i] \in HandleIds /\ key[i] \in Granted(i, "META")
    BY <1>2, <2>1, OwnHeld DEF Local, Temporaries
  <2>3. ApiFrame(i) /\ GivesUp(i, key[i]) /\ ret'[i].res \in {"SUCCESS", "STORAGE_NOT_AVAILABLE"}
    BY <2>1, <2>2, DeleteApi
  <2>4. /\ pc' \in [Instances -> Labels] /\ \A j \in Instances \ {i} : pc'[j] = pc[j]
        /\ ret'[i].res = "SUCCESS" => pc'[i] = "loop"
        /\ ret'[i].res = "STORAGE_NOT_AVAILABLE" => pc'[i] = "return"
    BY <2>1, AfterGoes
  <2>5. /\ n' \in [Instances -> 0..LoopCount] /\ \A j \in Instances \ {i} : n'[j] = n[j]
        /\ ret'[i].res # "SUCCESS" => n'[i] = 0
    <3>1. n[i] + 1 \in 0..LoopCount /\ 0 \in 0..LoopCount
      BY <1>2, <2>2
    <3>2. QED
      BY <2>1, <3>1 DEF TypeInv
  <2>6. StepFrame(i) /\ key'[i] = NULL /\ pc'[i] \in {"loop", "return"}
    BY <2>1, <2>3, <2>4, <2>5 DEF StepFrame, TypeInv
  <2>7. Temporaries(i)' /\ OwnObject(i)' /\ OpenEnums(i)' = OpenEnums(i)
    BY <1>2, <2>1, <2>3, <2>4, <2>5, <2>6
       DEF Temporaries, OwnObject, KeyLabels, KeyAllocated, GivesUp
  <2>8. Known(i)'
    BY <1>1, <2>1, <2>2, <2>3, <2>6, KnownGivesUp
  <2>9. QED
    BY <1>1, <2>6, <2>7, <2>8, OwnLocal
<1>5. CASE LoopEnd(i)
  <2>1. /\ pc[i] = "loop" /\ n' = [n EXCEPT ![i] = 0] /\ Returns(i, "SUCCESS", NULL)
        /\ Goto(i, "return")
        /\ UNCHANGED <<store, handles, enums, arg, object_id, transient_key, encrypt_op, key,
                       stranded>>
    BY <1>5 DEF LoopEnd, Success, Returns
  <2>2. ApiFrame(i) /\ Same(i)
    <3>1. "SUCCESS" \in Results /\ NULL \in Values
      BY DEF Results, Values
    <3>2. QED
      BY <2>1, <3>1, PassiveApi
  <2>3. StepFrame(i) /\ pc'[i] = "return" /\ n'[i] = 0
    <3>1. 0 \in 0..LoopCount
      BY <1>2
    <3>2. QED
      BY <2>1, <2>2, <3>1 DEF StepFrame, TypeInv, Goto
  <2>4. key[i] = NULL
    BY <2>1 DEF Local, Temporaries, KeyAllocated
  <2>5. Temporaries(i)' /\ OwnObject(i)' /\ OpenEnums(i)' = OpenEnums(i)
    BY <1>2, <2>1, <2>2, <2>3, <2>4 DEF Temporaries, OwnObject, KeyLabels, KeyAllocated, Same
  <2>6. Known(i)'
    BY <1>1, <2>1, KnownSame
  <2>7. QED
    BY <1>1, <2>3, <2>5, <2>6, OwnLocal
<1>6. QED
  BY <1>3, <1>4, <1>5 DEF ta_storage_cmd_loop

\* Every step of the TA keeps what is known of its instance, and concerns no other.
LEMMA TaStepKeeps ==
    ASSUME TypeInv, Stored, NEW i \in Instances, Local(i), TaStep(i), UNCHANGED clientVars
    PROVE  StepFrame(i) /\ Local(i)'
BY WithIdStep, OneCallStep, KeyStep, LoopStep DEF TaStep

-----------------------------------------------------------------------------
(***************************************************************************)
(* The steps of a client.                                                  *)
(***************************************************************************)

\* What a step of client i leaves alone, with the types of what it changes.
ClientFrame(i) ==
    /\ UNCHANGED <<store, kept>>
    /\ \A h \in HandleIds : handles'[i][h] \in {handles[i][h], NULL}
    /\ handles' \in [Instances -> [HandleIds -> ObjectHandles \cup {NULL}]]
    /\ enums' \in [Instances -> [EnumIds -> EnumRecords \cup {NULL}]]
    /\ ret' \in [Instances -> [res : Results, val : Values]]
    /\ pc' \in [Instances -> Labels]
    /\ arg' \in [Instances -> Args]
    /\ stranded' \in [Instances -> SUBSET HandleIds]
    /\ sess' \in [Instances -> {"closed", "open", "dead"}]
    /\ hpc' \in [Instances -> {"idle", "call"}]
    /\ held' \in [Instances -> [HandleIds -> ClientHandles \cup {NULL}]]
    /\ eheld' \in [Instances -> SUBSET EnumIds]
    /\ \A j \in Instances \ {i} :
        /\ handles'[j] = handles[j] /\ enums'[j] = enums[j] /\ ret'[j] = ret[j]
        /\ pc'[j] = pc[j] /\ arg'[j] = arg[j] /\ stranded'[j] = stranded[j]
        /\ sess'[j] = sess[j] /\ hpc'[j] = hpc[j]
        /\ held'[j] = held[j] /\ eheld'[j] = eheld[j]

\* Such a step keeps the types and the other instances, and opens nothing.
LEMMA ClientFrameKeeps ==
    ASSUME TypeInv, NEW i \in Instances, ClientFrame(i)
    PROVE  TypeInv' /\ Shrinks /\ \A j \in Instances \ {i} : Mine(j)' = Mine(j)
<1>1. TypeInv'
  BY DEF ClientFrame, TypeInv, kept
<1>2. Shrinks
  BY DEF ClientFrame, Shrinks
<1>3. \A j \in Instances \ {i} : Mine(j)' = Mine(j)
  BY DEF ClientFrame, Mine, kept, OpenEnums
<1>4. QED
  BY <1>1, <1>2, <1>3

\* TEEC_InvokeCommand starts the command, or answers for an instance that is dead.
LEMMA Invokes ==
    ASSUME TypeInv, NEW i \in Instances, NEW params \in Args, params.cmd \in Labels,
           TEEC_InvokeCommand(i, params)
    PROVE  /\ UNCHANGED <<store, handles, enums>>
           /\ ret' \in [Instances -> [res : Results, val : Values]]
           /\ pc' \in [Instances -> Labels]
           /\ arg' \in [Instances -> Args] /\ arg'[i] = params
           /\ \A j \in Instances \ {i} : ret'[j] = ret[j] /\ pc'[j] = pc[j] /\ arg'[j] = arg[j]
           /\ sess[i] = "open" => pc'[i] = params.cmd /\ ret'[i].res = "SUCCESS"
           /\ sess[i] # "open" => pc'[i] = "return" /\ ret'[i].res = "TARGET_DEAD"
<1>1. UNCHANGED <<store, handles, enums>>
  BY DEF TEEC_InvokeCommand
<1>2. CASE sess[i] = "open"
  <2>1. Returns(i, "SUCCESS", NULL) /\ Goto(i, params.cmd) /\ arg' = [arg EXCEPT ![i] = params]
    BY <1>2 DEF TEEC_InvokeCommand, TA_InvokeCommandEntryPoint, Returns, Success
  <2>2. QED
    BY <1>1, <1>2, <2>1, ReturnsFrame DEF Goto, TypeInv, Results, Values
<1>3. CASE sess[i] # "open"
  <2>1. /\ Returns(i, "TARGET_DEAD", NULL) /\ Goto(i, "return")
        /\ arg' = [arg EXCEPT ![i] = params]
    BY <1>3 DEF TEEC_InvokeCommand
  <2>2. QED
    BY <1>1, <1>3, <2>1, ReturnsFrame DEF Goto, TypeInv, Results, Values, Labels
<1>4. QED
  BY <1>2, <1>3

\* What a disciplined client passes: only what it holds and has the right for.
Allowed(i, a) ==
    /\ a.cmd \in ObjectCmds => a.h \in Holding(i)
    /\ a.cmd = "read" => "READ" \in held[i][a.h].flags /\ held[i][a.h].obj # NULL
    /\ a.cmd \in {"write", "trunc"} => "WRITE" \in held[i][a.h].flags /\ held[i][a.h].obj # NULL
    /\ a.cmd \in {"unlink", "rename"} =>
        a.h \in Holding(i) /\ "META" \in held[i][a.h].flags /\ held[i][a.h].obj # NULL
    /\ a.cmd = "seek" => held[i][a.h].obj # NULL
    /\ a.cmd \in {"free_obj", "reset_obj"} => held[i][a.h].obj = NULL
    /\ a.cmd = "create" => a.h = NULL \/ (a.h \in Holding(i) /\ held[i][a.h].obj # NULL)
    /\ a.cmd \in EnumCmds => a.h \in eheld[i]

MayPass(i, a) ==
    /\ a \in Args
    /\ a.cmd \in Commands \ {"none"}
    /\ Fits(a)
    /\ i \in Misusers \/ Allowed(i, a)

\* Between calls the client knows all that is open, but for what is stranded.
LEMMA IdleKnown ==
    ASSUME TypeInv, NEW i \in Instances, Local(i), pc[i] = "idle"
    PROVE  /\ ~object_id[i] /\ transient_key[i] = NULL /\ ~encrypt_op[i]
           /\ key[i] = NULL /\ n[i] = 0
           /\ OpenEnums(i) = eheld[i]
           /\ \A h \in HandleIds : IF h \in stranded[i]
                                   THEN held[i][h] = NULL /\ handles[i][h] # NULL /\ handles[i][h].obj # NULL
                                   ELSE Agree(i, h)
           /\ ~JustAllocated(i) /\ ~JustFreed(i) /\ ~Opened(i) /\ ~Renamed(i) /\ ~GivenUp(i)
<1>1. /\ ~object_id[i] /\ transient_key[i] = NULL /\ ~encrypt_op[i]
      /\ key[i] = NULL /\ n[i] = 0
  BY DEF Local, Temporaries, KeyAllocated, KeyLabels, LoopLabels
<1>2. ~JustAllocated(i) /\ ~JustFreed(i) /\ ~Opened(i) /\ ~Renamed(i) /\ ~GivenUp(i)
  BY DEF JustAllocated, JustFreed, Opened, Renamed, GivenUp
<1>3. Spare(i) = stranded[i]
  BY <1>1, StorageAssumption DEF Spare, TypeInv
<1>4. OpenEnums(i) = eheld[i]
  BY <1>2 DEF Local, Enumerators
<1>5. QED
  BY <1>1, <1>2, <1>3, <1>4 DEF Local, HandlesKnown

\* What a disciplined client may pass the TA permits.
LEMMA AllowedPermits ==
    ASSUME TypeInv, NEW i \in Instances, Local(i), pc[i] = "idle", NEW params \in Args,
           Allowed(i, params), arg'[i] = params, UNCHANGED <<handles, enums>>
    PROVE  Permits(i)'
<1>1. /\ OpenEnums(i)' = eheld[i]
      /\ \A h \in HandleIds : IF h \in stranded[i]
                              THEN held[i][h] = NULL /\ handles[i][h] # NULL /\ handles[i][h].obj # NULL
                              ELSE Agree(i, h)
      /\ ~Renamed(i)
  BY IdleKnown DEF OpenEnums
<1>2. \A h \in Holding(i) : /\ h \in HandleIds /\ handles'[i][h] # NULL
                            /\ handles'[i][h].obj = held[i][h].obj
                            /\ handles'[i][h].flags = held[i][h].flags
  BY <1>1 DEF Holding, Agree
<1>3. Holding(i) \subseteq OpenHandles(i)'
  BY <1>2 DEF OpenHandles
<1> DEFINE cmd == params.cmd
           h == params.h
<1>4. /\ cmd \in ObjectCmds => h \in OpenHandles(i)'
      /\ cmd \in EnumCmds => h \in OpenEnums(i)'
      /\ cmd = "create" => h = NULL \/ (h \in OpenHandles(i)' /\ handles'[i][h].obj # NULL)
  BY <1>1, <1>2, <1>3 DEF Allowed
<1>5. /\ cmd = "read" => h \in Granted(i, "READ")'
      /\ cmd \in {"write", "trunc"} => h \in Granted(i, "WRITE")'
      /\ cmd \in {"unlink", "rename"} => h \in Granted(i, "META")'
  BY <1>2, <1>3 DEF Allowed, Granted, ObjectCmds
<1>6. /\ cmd = "seek" => handles'[i][h].obj # NULL
      /\ cmd \in {"free_obj", "reset_obj"} => handles'[i][h].obj = NULL
  BY <1>2 DEF Allowed, ObjectCmds
<1>7. QED
  BY <1>4, <1>5, <1>6 DEF Permits

\* A command is sent: it starts, or is answered for an instance that is dead.
Sent(i) ==
    /\ ClientFrame(i) /\ Local(i)'
    /\ pc'[i] # pc[i]
    /\ pc'[i] = "return" => ret'[i].res = "TARGET_DEAD"

\* A client calls a function that sends one command.
LEMMA SendKeeps ==
    ASSUME TypeInv, NEW i \in Instances, Local(i), NEW params, MayPass(i, params), Send(i, params)
    PROVE  Sent(i)
<1>1. /\ hpc[i] = "idle" /\ sess[i] # "closed" /\ pc[i] = "idle" /\ hpc'[i] = "call"
      /\ hpc' \in [Instances -> {"idle", "call"}] /\ \A j \in Instances \ {i} : hpc'[j] = hpc[j]
      /\ UNCHANGED <<sess, held, eheld, kept, stranded>>
      /\ TEEC_InvokeCommand(i, params)
  BY DEF Send, Call, Idle, HGoto, TypeInv, Local, Control, locals
<1>2. params \in Args /\ Fits(params) /\ params.cmd \in Commands \ {"none"}
  BY DEF MayPass
<1>3. Commands \ {"none"} \subseteq Labels \ {"idle", "panic", "return", "with_id", "free_id",
                                               "seek_info", "ignore"}
      /\ (Commands \cap KeyLabels = {"key_in_persistent"}) /\ (Commands \cap LoopLabels = {"loop"})
      /\ "return" \notin Commands \cup KeyLabels \cup LoopLabels
  BY DEF Commands, Labels, IdCmds, ObjectCmds, EnumCmds, KeyLabels, LoopLabels
<1>4. /\ UNCHANGED <<store, handles, enums>>
      /\ ret' \in [Instances -> [res : Results, val : Values]]
      /\ pc' \in [Instances -> Labels]
      /\ arg' \in [Instances -> Args] /\ arg'[i] = params
      /\ \A j \in Instances \ {i} : ret'[j] = ret[j] /\ pc'[j] = pc[j] /\ arg'[j] = arg[j]
      /\ sess[i] = "open" => pc'[i] = params.cmd /\ ret'[i].res = "SUCCESS"
      /\ sess[i] # "open" => pc'[i] = "return" /\ ret'[i].res = "TARGET_DEAD"
  BY <1>1, <1>2, <1>3, Invokes
<1>5. ClientFrame(i)
  BY <1>1, <1>4 DEF ClientFrame, TypeInv
<1>6. /\ ~object_id[i] /\ transient_key[i] = NULL /\ ~encrypt_op[i]
      /\ key[i] = NULL /\ n[i] = 0
      /\ OpenEnums(i) = eheld[i]
      /\ \A h \in HandleIds : IF h \in stranded[i]
                              THEN held[i][h] = NULL /\ handles[i][h] # NULL /\ handles[i][h].obj # NULL
                              ELSE Agree(i, h)
      /\ ~Renamed(i)
  BY <1>1, IdleKnown
<1>7. /\ ~object_id'[i] /\ transient_key'[i] = NULL /\ ~encrypt_op'[i]
      /\ key'[i] = NULL /\ n'[i] = 0
  BY <1>1, <1>6 DEF kept
<1>8. /\ pc'[i] \in {params.cmd, "return"} /\ pc'[i] \notin {"idle", "panic"}
      /\ pc'[i] = "return" => ret'[i].res = "TARGET_DEAD" /\ sess'[i] = "dead"
      /\ pc'[i] # "return" => pc'[i] = params.cmd /\ sess'[i] = "open"
  BY <1>1, <1>2, <1>3, <1>4 DEF TypeInv
<1>9. Control(i)'
  <2>1. /\ pc'[i] \in KeyLabels => params.cmd = "key_in_persistent"
        /\ pc'[i] \in LoopLabels => params.cmd = "loop"
        /\ pc'[i] \in Commands => params.cmd = pc'[i]
    BY <1>2, <1>3, <1>8
  <2>2. pc'[i] \notin {"with_id", "free_id", "seek_info", "ignore", "panic", "idle"}
    BY <1>2, <1>3, <1>8
  <2>3. QED
    BY <1>1, <1>2, <1>4, <1>8, <2>1, <2>2 DEF Control
<1>10. Temporaries(i)'
  <2>1. pc'[i] \notin KeyAllocated \cup {"create_key", "open_key", "loop_delete"}
    BY <1>2, <1>8 DEF KeyAllocated, Commands, IdCmds, ObjectCmds, EnumCmds
  <2>2. QED
    BY <1>7, <2>1 DEF Temporaries
<1>11. OwnObject(i)'
  BY <1>7 DEF OwnObject
<1>12. ~JustAllocated(i)' /\ ~JustFreed(i)' /\ ~Opened(i)' /\ ~Renamed(i)' /\ ~GivenUp(i)'
  BY <1>2, <1>3, <1>4, <1>8 DEF JustAllocated, JustFreed, Opened, Renamed, GivenUp
<1>13. Enumerators(i)'
  <2>1. OpenEnums(i)' = OpenEnums(i)
    BY <1>4 DEF OpenEnums
  <2>2. QED
    BY <1>1, <1>6, <1>8, <1>12, <2>1 DEF Local, Enumerators
<1>14. HandlesKnown(i)'
  <2>1. Spare(i)' = stranded'[i]
    BY <1>1, <1>5, <1>7, StorageAssumption DEF Spare, ClientFrame
  <2>2. \A h \in HandleIds : Agree(i, h) => Agree(i, h)'
    BY <1>1, <1>4, <1>6, <1>12 DEF Agree
  <2>3. key'[i] \notin stranded'[i]
    BY <1>1, <1>7, StorageAssumption DEF TypeInv
  <2>4. QED
    BY <1>1, <1>4, <1>6, <1>8, <1>12, <2>1, <2>2, <2>3 DEF Local, HandlesKnown
<1>15. i \in Instances \ Misusers => Disciplined(i)'
  <2> SUFFICES ASSUME i \notin Misusers PROVE Disciplined(i)'
    OBVIOUS
  <2>1. sess[i] # "dead"
    BY DEF Local, Disciplined
  <2>2. Permits(i)'
    BY <1>1, <1>2, <1>4, AllowedPermits DEF MayPass
  <2>3. QED
    BY <1>1, <1>8, <2>1, <2>2 DEF Disciplined
<1>16. QED
  BY <1>1, <1>5, <1>8, <1>9, <1>10, <1>11, <1>13, <1>14, <1>15 DEF Local, Sent

\* What the arguments of a function are.
LEMMA HoldingTypes ==
    ASSUME TypeInv, NEW i \in Instances
    PROVE  /\ Persistent(i) \subseteq HandleIds /\ Transient(i) \subseteq HandleIds
           /\ \A right : With(i, right) \subseteq HandleIds
           /\ PassedEnums(i) \subseteq EnumIds
           /\ i \notin Misusers =>
                /\ \A h \in Persistent(i) : h \in Holding(i) /\ held[i][h].obj # NULL
                /\ \A h \in Transient(i) : h \in Holding(i) /\ held[i][h].obj = NULL
                /\ \A right : \A h \in With(i, right) :
                      h \in Holding(i) /\ held[i][h].obj # NULL /\ right \in held[i][h].flags
                /\ PassedEnums(i) = eheld[i]
BY DEF Persistent, Transient, With, PassedEnums, Holding, TypeInv

\* The functions with an identifier.
LEMMA IdFunctionKeeps ==
    ASSUME TypeInv, NEW i \in Instances, Local(i),
           fs_open(i) \/ fs_create(i) \/ fs_create_overwrite(i) \/ fs_rename(i)
    PROVE  Sent(i)
<1>1. CASE fs_open(i)
  <2>1. PICK obj \in Objects, flags \in FlagChoices :
          Send(i, [Params("open") EXCEPT !.obj = obj, !.flags = flags])
    BY <1>1 DEF fs_open
  <2>2. MayPass(i, [Params("open") EXCEPT !.obj = obj, !.flags = flags])
    BY HoldingTypes, ClientAssumption
       DEF Params, NoArg, MayPass, Args, Fits, Allowed, Commands, IdCmds, ObjectCmds, EnumCmds
  <2>3. QED
    BY <2>1, <2>2, SendKeeps
<1>2. CASE fs_create(i)
  <2>1. PICK obj \in Objects, flags \in FlagChoices, attr \in Persistent(i) \cup {NULL}, data \in Data :
          Send(i, [Params("create") EXCEPT !.obj = obj, !.flags = flags, !.h = attr, !.data = data])
    BY <1>2 DEF fs_create
  <2>2. MayPass(i, [Params("create") EXCEPT !.obj = obj, !.flags = flags, !.h = attr, !.data = data])
    BY HoldingTypes, ClientAssumption
       DEF Params, NoArg, MayPass, Args, Fits, Allowed, Commands, IdCmds, ObjectCmds, EnumCmds
  <2>3. QED
    BY <2>1, <2>2, SendKeeps
<1>3. CASE fs_create_overwrite(i)
  <2>1. PICK obj \in Objects : Send(i, [Params("create_overwrite") EXCEPT !.obj = obj])
    BY <1>3 DEF fs_create_overwrite
  <2>2. MayPass(i, [Params("create_overwrite") EXCEPT !.obj = obj])
    BY HoldingTypes, ClientAssumption
       DEF Params, NoArg, MayPass, Args, Fits, Allowed, Commands, IdCmds, ObjectCmds, EnumCmds
  <2>3. QED
    BY <2>1, <2>2, SendKeeps
<1>4. CASE fs_rename(i)
  <2>1. PICK h \in With(i, "META"), name \in Names :
          Send(i, [Params("rename") EXCEPT !.h = h, !.obj = <<NULL, name>>])
    BY <1>4 DEF fs_rename
  <2>2. /\ h \in HandleIds
        /\ i \notin Misusers =>
              h \in Holding(i) /\ held[i][h].obj # NULL /\ "META" \in held[i][h].flags
    BY HoldingTypes
  <2>3. MayPass(i, [Params("rename") EXCEPT !.h = h, !.obj = <<NULL, name>>])
    BY <2>2
       DEF Params, NoArg, MayPass, Args, Fits, Allowed, Commands, IdCmds, ObjectCmds, EnumCmds
  <2>4. QED
    BY <2>1, <2>3, SendKeeps
<1>5. QED
  BY <1>1, <1>2, <1>3, <1>4

\* The functions on a handle.
HandleSent(i, cmd, h) ==
    \/ cmd = "close" /\ h \in Persistent(i)
    \/ cmd = "read" /\ h \in With(i, "READ")
    \/ cmd = "seek" /\ h \in Persistent(i)
    \/ cmd = "trunc" /\ h \in With(i, "WRITE")
    \/ cmd = "unlink" /\ h \in With(i, "META")
    \/ cmd \in {"restrict_usage", "get_obj_info"} /\ h \in Persistent(i) \cup Transient(i)
    \/ cmd \in {"free_obj", "reset_obj"} /\ h \in Transient(i)
    \/ cmd \in {"free_enum", "reset_enum"} /\ h \in PassedEnums(i)

\* A function of the library that names a handle keeps its session's part.
LEMMA HandleFunctionKeeps ==
    ASSUME TypeInv, NEW i \in Instances, Local(i), NEW cmd, NEW h, HandleSent(i, cmd, h),
           Send(i, [Params(cmd) EXCEPT !.h = h])
    PROVE  Sent(i)
<1> DEFINE params == [Params(cmd) EXCEPT !.h = h]
<1>1. /\ cmd \in ObjectCmds \cup {"free_enum", "reset_enum"} /\ cmd # "write"
      /\ cmd \in ObjectCmds => h \in HandleIds
      /\ cmd \in EnumCmds => h \in EnumIds
  BY HoldingTypes DEF HandleSent, ObjectCmds, EnumCmds
<1>2. /\ params \in Args /\ params.cmd = cmd /\ params.h = h
      /\ params.cmd \in Commands \ {"none"}
  BY <1>1 DEF Params, NoArg, Args, Commands, EnumCmds, ObjectCmds
<1> HIDE DEF params
<1>3. Fits(params)
  BY <1>1, <1>2 DEF Fits, ObjectCmds, EnumCmds
<1>4. i \notin Misusers => Allowed(i, params)
  <2> SUFFICES ASSUME i \notin Misusers PROVE Allowed(i, params)
    OBVIOUS
  <2>1. /\ \A g \in Persistent(i) : g \in Holding(i) /\ held[i][g].obj # NULL
        /\ \A g \in Transient(i) : g \in Holding(i) /\ held[i][g].obj = NULL
        /\ \A right : \A g \in With(i, right) :
              g \in Holding(i) /\ held[i][g].obj # NULL /\ right \in held[i][g].flags
        /\ PassedEnums(i) = eheld[i]
    BY HoldingTypes
  <2>2. QED
    BY <1>1, <1>2, <2>1 DEF HandleSent, Allowed, ObjectCmds, EnumCmds
<1>5. MayPass(i, params)
  BY <1>2, <1>3, <1>4 DEF MayPass
<1>6. QED
  BY <1>5, SendKeeps DEF params

\* Every function of the library passes what its client may pass.
LEMMA FunctionKeeps ==
    ASSUME TypeInv, NEW i \in Instances, Local(i), Calls(i), ~Open(i), ~Close(i)
    PROVE  Sent(i)
<1>1. CASE fs_open(i) \/ fs_create(i) \/ fs_create_overwrite(i) \/ fs_rename(i)
  BY <1>1, IdFunctionKeeps
<1>2. ASSUME NEW cmd, NEW hs, OnHandle(i, cmd, hs), \A h \in hs : HandleSent(i, cmd, h)
      PROVE  Sent(i)
  BY <1>2, HandleFunctionKeeps DEF OnHandle
<1>3. CASE \/ fs_close(i) \/ fs_read(i) \/ fs_seek(i) \/ fs_trunc(i) \/ fs_unlink(i)
           \/ fs_restrict_usage(i) \/ fs_get_obj_info(i) \/ fs_free_obj(i) \/ fs_reset_obj(i)
           \/ fs_free_enum(i) \/ fs_reset_enum(i)
  <2> USE DEF HandleSent
  <2>1. CASE fs_close(i)
    BY <1>2, <2>1 DEF fs_close
  <2>2. CASE fs_read(i)
    BY <1>2, <2>2 DEF fs_read
  <2>3. CASE fs_seek(i)
    BY <1>2, <2>3 DEF fs_seek
  <2>4. CASE fs_trunc(i)
    BY <1>2, <2>4 DEF fs_trunc
  <2>5. CASE fs_unlink(i)
    BY <1>2, <2>5 DEF fs_unlink
  <2>6. CASE fs_restrict_usage(i)
    BY <1>2, <2>6 DEF fs_restrict_usage
  <2>7. CASE fs_get_obj_info(i)
    BY <1>2, <2>7 DEF fs_get_obj_info
  <2>8. CASE fs_free_obj(i)
    BY <1>2, <2>8 DEF fs_free_obj
  <2>9. CASE fs_reset_obj(i)
    BY <1>2, <2>9 DEF fs_reset_obj
  <2>10. CASE fs_free_enum(i)
    BY <1>2, <2>10 DEF fs_free_enum
  <2>11. CASE fs_reset_enum(i)
    BY <1>2, <2>11 DEF fs_reset_enum
  <2>12. QED
    BY <1>3, <2>1, <2>2, <2>3, <2>4, <2>5, <2>6, <2>7, <2>8, <2>9, <2>10, <2>11
<1>4. CASE fs_write(i)
  <2>1. PICK h \in With(i, "WRITE"), data \in Data :
          Send(i, [Params("write") EXCEPT !.h = h, !.data = data])
    BY <1>4 DEF fs_write
  <2>2. /\ h \in HandleIds
        /\ i \notin Misusers =>
              h \in Holding(i) /\ held[i][h].obj # NULL /\ "WRITE" \in held[i][h].flags
    BY HoldingTypes
  <2>3. MayPass(i, [Params("write") EXCEPT !.h = h, !.data = data])
    BY <2>2
       DEF Params, NoArg, MayPass, Args, Fits, Allowed, Commands, IdCmds, ObjectCmds, EnumCmds
  <2>4. QED
    BY <2>1, <2>3, SendKeeps
<1>5. CASE fs_alloc_obj(i) \/ fs_alloc_enum(i)
  <2>1. MayPass(i, Params("alloc_obj")) /\ MayPass(i, Params("alloc_enum"))
    BY DEF Params, NoArg, MayPass, Args, Fits, Allowed, Commands, IdCmds, ObjectCmds, EnumCmds
  <2>2. QED
    BY <1>5, <2>1, SendKeeps DEF fs_alloc_obj, fs_alloc_enum
<1>6. CASE fs_next_enum(i)
  <2>1. PICK e \in PassedEnums(i), size \in BOOLEAN :
          Send(i, [Params("next_enum") EXCEPT !.h = e, !.size = size])
    BY <1>6 DEF fs_next_enum
  <2>2. MayPass(i, [Params("next_enum") EXCEPT !.h = e, !.size = size])
    BY HoldingTypes
       DEF Params, NoArg, MayPass, Args, Fits, Allowed, Commands, IdCmds, ObjectCmds, EnumCmds
  <2>3. QED
    BY <2>1, <2>2, SendKeeps
<1>7. CASE fs_start_enum(i)
  <2>1. PICK e \in PassedEnums(i), s \in Storages :
          Send(i, [Params("start_enum") EXCEPT !.h = e, !.obj = <<s, NULL>>])
    BY <1>7 DEF fs_start_enum, OnStorage
  <2>2. MayPass(i, [Params("start_enum") EXCEPT !.h = e, !.obj = <<s, NULL>>])
    BY HoldingTypes
       DEF Params, NoArg, MayPass, Args, Fits, Allowed, Commands, IdCmds, ObjectCmds, EnumCmds
  <2>3. QED
    BY <2>1, <2>2, SendKeeps
<1>8. CASE InvokeKeyInPersistent(i)
  <2>1. PICK s \in Storages :
          Send(i, [Params("key_in_persistent") EXCEPT !.h = NULL, !.obj = <<s, NULL>>])
    BY <1>8 DEF InvokeKeyInPersistent, OnStorage
  <2>2. MayPass(i, [Params("key_in_persistent") EXCEPT !.h = NULL, !.obj = <<s, NULL>>])
    BY HoldingTypes
       DEF Params, NoArg, MayPass, Args, Fits, Allowed, Commands, IdCmds, ObjectCmds, EnumCmds
  <2>3. QED
    BY <2>1, <2>2, SendKeeps
<1>9. CASE InvokeLoop(i)
  <2>1. PICK s \in Storages : Send(i, [Params("loop") EXCEPT !.h = NULL, !.obj = <<s, NULL>>])
    BY <1>9 DEF InvokeLoop, OnStorage
  <2>2. MayPass(i, [Params("loop") EXCEPT !.h = NULL, !.obj = <<s, NULL>>])
    BY HoldingTypes
       DEF Params, NoArg, MayPass, Args, Fits, Allowed, Commands, IdCmds, ObjectCmds, EnumCmds
  <2>3. QED
    BY <2>1, <2>2, SendKeeps
<1>10. QED
  BY <1>1, <1>3, <1>4, <1>5, <1>6, <1>7, <1>8, <1>9 DEF Calls

\* Between calls, with everything accounted for.
Settled(i) ==
    /\ pc[i] = "idle" /\ hpc[i] = "idle" /\ Fits(arg[i])
    /\ ~object_id[i] /\ transient_key[i] = NULL /\ ~encrypt_op[i] /\ key[i] = NULL /\ n[i] = 0
    /\ OpenEnums(i) = eheld[i]
    /\ sess[i] # "open" => /\ eheld[i] = {} /\ stranded[i] = {}
                           /\ \A h \in HandleIds : held[i][h] = NULL
    /\ sess[i] = "dead" => i \in Misusers
    /\ stranded[i] \subseteq HandleIds
    /\ \A h \in HandleIds :
        IF h \in stranded[i]
        THEN held[i][h] = NULL /\ handles[i][h] # NULL /\ handles[i][h].obj # NULL
        ELSE /\ handles[i][h] = NULL <=> held[i][h] = NULL
             /\ held[i][h] # NULL => /\ handles[i][h].flags = held[i][h].flags
                                     /\ handles[i][h].obj = held[i][h].obj

\* A settled session satisfies its part of the invariant.
LEMMA SettledLocal ==
    ASSUME NEW i \in Instances, Settled(i)
    PROVE  Local(i)
<1>1. Control(i)
  BY DEF Settled, Control, Commands, IdCmds, ObjectCmds, EnumCmds, KeyLabels, LoopLabels
<1>2. Temporaries(i) /\ OwnObject(i)
  BY DEF Settled, Temporaries, OwnObject, KeyAllocated
<1>3. ~JustAllocated(i) /\ ~JustFreed(i) /\ ~Opened(i) /\ ~Renamed(i) /\ ~GivenUp(i)
  BY DEF Settled, JustAllocated, JustFreed, Opened, Renamed, GivenUp
<1>4. Enumerators(i)
  BY <1>3 DEF Settled, Enumerators
<1>5. HandlesKnown(i)
  <2>1. Spare(i) = stranded[i] /\ key[i] \notin stranded[i]
    BY StorageAssumption DEF Settled, Spare
  <2>2. \A h \in HandleIds \ stranded[i] : Agree(i, h)
    BY <1>3 DEF Settled, Agree
  <2>3. QED
    BY <1>3, <2>1, <2>2 DEF Settled, HandlesKnown
<1>6. i \in Instances \ Misusers => Disciplined(i)
  BY DEF Settled, Disciplined, Pending, Commands, IdCmds, ObjectCmds, EnumCmds
<1>7. QED
  BY <1>1, <1>2, <1>4, <1>5, <1>6 DEF Local

\* The same after a step.
LEMMA SettledLocalNext ==
    ASSUME NEW i \in Instances, Settled(i)'
    PROVE  Local(i)'
BY SettledLocal, PTL

\* Between calls everything is accounted for.
LEMMA IdleSettled ==
    ASSUME TypeInv, NEW i \in Instances, Local(i), pc[i] = "idle"
    PROVE  Settled(i)
<1>1. hpc[i] = "idle" /\ Fits(arg[i])
  BY DEF Local, Control
<1>2. /\ sess[i] # "open" => /\ eheld[i] = {} /\ stranded[i] = {}
                             /\ \A h \in HandleIds : held[i][h] = NULL
      /\ sess[i] = "dead" => i \in Misusers
      /\ stranded[i] \subseteq HandleIds
  BY DEF Local, Enumerators, HandlesKnown, Disciplined, TypeInv
<1>3. QED
  BY <1>1, <1>2, IdleKnown DEF Settled, Agree

\* Opening and closing a session.
LEMMA SessionKeeps ==
    ASSUME TypeInv, NEW i \in Instances, Local(i), Open(i) \/ Close(i)
    PROVE  ClientFrame(i) /\ Local(i)' /\ sess'[i] # sess[i]
<1>1. CASE Open(i)
  <2>1. /\ UNCHANGED <<teeVars, callVars, kept, stranded, hpc, held, eheld>>
        /\ sess[i] = "closed" /\ sess'[i] = "open"
        /\ sess' \in [Instances -> {"closed", "open", "dead"}]
        /\ \A j \in Instances \ {i} : sess'[j] = sess[j]
    BY <1>1 DEF Open, openSession, locals, TypeInv
  <2>2. ClientFrame(i)
    BY <2>1 DEF ClientFrame, teeVars, callVars, TypeInv
  <2>3. Settled(i)
    BY <2>1, IdleSettled DEF Local, Control
  <2>4. OpenEnums(i)' = OpenEnums(i)
    BY <2>1 DEF OpenEnums, teeVars
  <2>5. Settled(i)'
    BY <2>1, <2>3, <2>4 DEF Settled, teeVars, callVars, kept
  <2>6. QED
    BY <2>1, <2>2, <2>5, SettledLocalNext
<1>2. CASE Close(i)
  <2>1. /\ UNCHANGED <<store, ret, callVars, kept, hpc>>
        /\ hpc[i] = "idle" /\ sess[i] # "closed" /\ sess'[i] = "closed"
        /\ sess' \in [Instances -> {"closed", "open", "dead"}]
        /\ \A j \in Instances \ {i} : sess'[j] = sess[j]
    BY <1>2 DEF Close, closeSession, Idle, TypeInv
  <2>2. /\ handles' \in [Instances -> [HandleIds -> ObjectHandles \cup {NULL}]]
        /\ enums' \in [Instances -> [EnumIds -> EnumRecords \cup {NULL}]]
        /\ \A h \in HandleIds : handles'[i][h] = NULL
        /\ \A e \in EnumIds : enums'[i][e] = NULL
        /\ \A j \in Instances \ {i} : handles'[j] = handles[j] /\ enums'[j] = enums[j]
    BY <1>2 DEF Close, closeSession, TypeInv
  <2>3. /\ held' \in [Instances -> [HandleIds -> ClientHandles \cup {NULL}]]
        /\ \A h \in HandleIds : held'[i][h] = NULL
        /\ eheld' \in [Instances -> SUBSET EnumIds] /\ eheld'[i] = {}
        /\ stranded' \in [Instances -> SUBSET HandleIds] /\ stranded'[i] = {}
        /\ \A j \in Instances \ {i} : /\ held'[j] = held[j] /\ eheld'[j] = eheld[j]
                                      /\ stranded'[j] = stranded[j]
    BY <1>2 DEF Close, closeSession, NothingHeld, TypeInv
  <2>4. ClientFrame(i)
    BY <2>1, <2>2, <2>3 DEF ClientFrame, callVars, TypeInv
  <2>5. Settled(i)
    BY <2>1, IdleSettled DEF Local, Control
  <2>6. OpenEnums(i)' = {}
    BY <2>2 DEF OpenEnums
  <2>7. Settled(i)'
    BY <2>1, <2>2, <2>3, <2>5, <2>6 DEF Settled, callVars, kept
  <2>8. QED
    BY <2>1, <2>4, <2>7, SettledLocalNext
<1>3. QED
  BY <1>1, <1>2

\* The end of a library function.
LEMMA BackFrame ==
    ASSUME TypeInv, NEW i \in Instances, Back(i, "idle")
    PROVE  /\ UNCHANGED <<store, handles, enums>>
           /\ ret' \in [Instances -> [res : Results, val : Values]]
           /\ pc' \in [Instances -> Labels] /\ pc'[i] = "idle"
           /\ arg' \in [Instances -> Args] /\ Fits(arg'[i])
           /\ hpc' \in [Instances -> {"idle", "call"}] /\ hpc'[i] = "idle"
           /\ \A j \in Instances \ {i} : /\ ret'[j] = ret[j] /\ pc'[j] = pc[j]
                                         /\ arg'[j] = arg[j] /\ hpc'[j] = hpc[j]
<1>1. NoArg \in Args /\ Fits(NoArg)
  BY DEF NoArg, Args, Commands, Fits, ObjectCmds, EnumCmds
<1>2. Returns(i, "SUCCESS", NULL)
  BY DEF Back, Returns, Success
<1>3. /\ ret' \in [Instances -> [res : Results, val : Values]]
      /\ \A j \in Instances \ {i} : ret'[j] = ret[j]
  BY <1>2, ReturnsFrame DEF Results, Values
<1>4. QED
  BY <1>1, <1>3 DEF Back, HGoto, Goto, TypeInv, Labels

\* What the client learns of its handles: nothing, one more, one less or a new name.
LearnsNothing(i) == held'[i] = held[i]

LearnsOpened(i) ==
    /\ Opened(i)
    /\ held'[i] = [held[i] EXCEPT ![ret[i].val] = [obj |-> arg[i].obj, flags |-> arg[i].flags]]

LearnsGivenUp(i) == GivenUp(i) /\ held'[i] = [held[i] EXCEPT ![arg[i].h] = NULL]

LearnsRenamed(i) ==
    /\ Renamed(i) /\ held[i][arg[i].h] # NULL
    /\ held'[i] = [held[i] EXCEPT ![arg[i].h] =
                     [obj |-> <<@.obj[1], arg[i].obj[2]>>, flags |-> @.flags]]

\* The new name in what the client knows of a handle.
LEMMA NewName ==
    ASSUME NEW f \in [HandleIds -> ClientHandles \cup {NULL}], NEW h \in HandleIds, f[h] # NULL,
           f[h].obj \in Objects, NEW name \in Names
    PROVE  /\ [f EXCEPT ![h].obj[2] = name] =
                 [f EXCEPT ![h] = [obj |-> <<@.obj[1], name>>, flags |-> @.flags]]
           /\ [obj |-> <<f[h].obj[1], name>>, flags |-> f[h].flags] \in ClientHandles
<1>1. PICK s \in Storages, m \in Names : f[h].obj = <<s, m>>
  BY DEF Objects
<1>2. PICK r \in ClientHandles : f[h] = r
  OBVIOUS
<1>3. [f[h].obj EXCEPT ![2] = name] = <<s, name>> /\ f[h].obj[1] = s
  BY <1>1
<1>4. [f[h] EXCEPT !.obj[2] = name] = [obj |-> <<f[h].obj[1], name>>, flags |-> f[h].flags]
  <2>1. [r EXCEPT !.obj = <<s, name>>] = [obj |-> <<s, name>>, flags |-> r.flags]
    BY <1>2 DEF ClientHandles
  <2>2. [f[h] EXCEPT !.obj[2] = name] = [r EXCEPT !.obj = [r.obj EXCEPT ![2] = name]]
    BY <1>2 DEF ClientHandles
  <2>3. QED
    BY <1>2, <1>3, <2>1, <2>2
<1>5. <<s, name>> \in Objects
  BY DEF Objects
<1>6. QED
  BY <1>2, <1>3, <1>4, <1>5 DEF ClientHandles

\* Learn, by the command that was answered.
LEMMA LearnCases ==
    ASSUME TypeInv, NEW i \in Instances, Local(i), Answered(i, "call"), Learn(i)
    PROVE  /\ held' \in [Instances -> [HandleIds -> ClientHandles \cup {NULL}]]
           /\ \A j \in Instances \ {i} : held'[j] = held[j]
           /\ IF pc[i] = "panic" THEN held'[i] = NothingHeld
              ELSE IF Opened(i) THEN LearnsOpened(i)
              ELSE IF GivenUp(i) THEN LearnsGivenUp(i)
              ELSE IF Renamed(i) /\ held[i][arg[i].h] # NULL THEN LearnsRenamed(i)
              ELSE LearnsNothing(i)
<1> DEFINE a == arg[i]
           r == ret[i]
<1>1. /\ pc[i] \in {"return", "panic"} /\ a.cmd \in Commands
      /\ pc[i] = "panic" => r.res = "TARGET_DEAD"
  BY DEF Answered, TypeInv, Args, Local, Control
<1>2. held' = [held EXCEPT ![i] =
                 IF pc[i] = "panic" THEN NothingHeld
                 ELSE IF r.res = "SUCCESS" /\ a.cmd \in {"open", "create", "alloc_obj"}
                      THEN [held[i] EXCEPT ![r.val] = [obj |-> a.obj, flags |-> a.flags]]
                 ELSE IF r.res = "SUCCESS" /\ a.cmd \in {"close", "unlink", "free_obj"}
                      THEN [held[i] EXCEPT ![a.h] = NULL]
                 ELSE IF r.res = "SUCCESS" /\ a.cmd = "rename" /\ held[i][a.h] # NULL
                      THEN [held[i] EXCEPT ![a.h].obj[2] = a.obj[2]]
                 ELSE held[i]]
  BY <1>1 DEF Learn, Commands, IdCmds, ObjectCmds, EnumCmds
<1>3. /\ \A j \in Instances \ {i} : held'[j] = held[j]
      /\ DOMAIN held' = Instances /\ held' = [j \in Instances |-> held'[j]]
      /\ held'[i] = IF pc[i] = "panic" THEN NothingHeld
                    ELSE IF r.res = "SUCCESS" /\ a.cmd \in {"open", "create", "alloc_obj"}
                         THEN [held[i] EXCEPT ![r.val] = [obj |-> a.obj, flags |-> a.flags]]
                    ELSE IF r.res = "SUCCESS" /\ a.cmd \in {"close", "unlink", "free_obj"}
                         THEN [held[i] EXCEPT ![a.h] = NULL]
                    ELSE IF r.res = "SUCCESS" /\ a.cmd = "rename" /\ held[i][a.h] # NULL
                         THEN [held[i] EXCEPT ![a.h].obj[2] = a.obj[2]]
                    ELSE held[i]
  BY <1>2 DEF TypeInv
<1>4. SUFFICES /\ held'[i] \in [HandleIds -> ClientHandles \cup {NULL}]
               /\ IF pc[i] = "panic" THEN held'[i] = NothingHeld
                  ELSE IF Opened(i) THEN LearnsOpened(i)
                  ELSE IF GivenUp(i) THEN LearnsGivenUp(i)
                  ELSE IF Renamed(i) /\ held[i][arg[i].h] # NULL THEN LearnsRenamed(i)
                  ELSE LearnsNothing(i)
  <2>1. ASSUME held'[i] \in [HandleIds -> ClientHandles \cup {NULL}]
        PROVE  held' \in [Instances -> [HandleIds -> ClientHandles \cup {NULL}]]
    BY <1>3, <2>1 DEF TypeInv
  <2>2. QED
    BY <1>3, <2>1
<1>5. CASE pc[i] = "panic"
  BY <1>3, <1>5 DEF NothingHeld
<1>6. CASE pc[i] = "return"
  <2>1. /\ Opened(i) <=> r.res = "SUCCESS" /\ a.cmd \in {"open", "create", "alloc_obj"}
        /\ GivenUp(i) <=> r.res = "SUCCESS" /\ a.cmd \in {"close", "unlink", "free_obj"}
        /\ Renamed(i) <=> r.res = "SUCCESS" /\ a.cmd = "rename"
    BY <1>6 DEF Opened, GivenUp, Renamed
  <2>2. held[i] \in [HandleIds -> ClientHandles \cup {NULL}]
    BY DEF TypeInv
  <2>3. CASE Opened(i)
    <3>1. /\ r.val \in HandleIds /\ handles[i][r.val] \in ObjectHandles
          /\ handles[i][r.val].obj = a.obj /\ handles[i][r.val].flags = a.flags
      BY <2>3 DEF Local, HandlesKnown, TypeInv
    <3>2. [obj |-> a.obj, flags |-> a.flags] \in ClientHandles
      BY <3>1 DEF ClientHandles, ObjectHandles
    <3>3. LearnsOpened(i)
      BY <1>3, <1>6, <2>1, <2>3 DEF LearnsOpened
    <3>4. QED
      BY <1>6, <2>2, <2>3, <3>1, <3>2, <3>3 DEF LearnsOpened
  <2>4. CASE ~Opened(i) /\ GivenUp(i)
    <3>1. LearnsGivenUp(i)
      BY <1>3, <1>6, <2>1, <2>4 DEF LearnsGivenUp
    <3>2. QED
      BY <1>6, <2>2, <2>4, <3>1 DEF LearnsGivenUp
  <2>5. CASE ~Opened(i) /\ ~GivenUp(i) /\ Renamed(i) /\ held[i][a.h] # NULL
    <3>1. a.h \in HandleIds /\ a.obj[2] \in Names
      BY <2>1, <2>5 DEF Local, Control, Fits
    <3>2. held[i][a.h].obj \in Objects
      BY <2>5 DEF Local, HandlesKnown
    <3>3. held'[i] = [held[i] EXCEPT ![a.h].obj[2] = a.obj[2]]
      BY <1>3, <1>6, <2>1, <2>5
    <3>4. /\ [held[i] EXCEPT ![a.h].obj[2] = a.obj[2]] =
                 [held[i] EXCEPT ![a.h] = [obj |-> <<@.obj[1], a.obj[2]>>, flags |-> @.flags]]
          /\ [obj |-> <<held[i][a.h].obj[1], a.obj[2]>>, flags |-> held[i][a.h].flags] \in ClientHandles
      BY <2>2, <2>5, <3>1, <3>2, NewName
    <3>5. LearnsRenamed(i)
      BY <2>5, <3>3, <3>4 DEF LearnsRenamed
    <3>6. held'[i] \in [HandleIds -> ClientHandles \cup {NULL}]
      BY <2>2, <3>3, <3>4
    <3>7. QED
      BY <1>6, <2>5, <3>5, <3>6
  <2>6. CASE ~Opened(i) /\ ~GivenUp(i) /\ ~(Renamed(i) /\ held[i][a.h] # NULL)
    BY <1>3, <1>6, <2>1, <2>2, <2>6 DEF LearnsNothing
  <2>7. QED
    BY <2>3, <2>4, <2>5, <2>6
<1>7. QED
  BY <1>1, <1>5, <1>6

\* Learn brings what the client knows of its handles up to date.
LEMMA LearnAgrees ==
    ASSUME TypeInv, NEW i \in Instances, Local(i), Returned(i)
    PROVE  /\ stranded' \in [Instances -> SUBSET HandleIds]
           /\ \A j \in Instances \ {i} : stranded'[j] = stranded[j]
           /\ \A h \in HandleIds :
                IF h \in stranded'[i]
                THEN held'[i][h] = NULL /\ handles[i][h] # NULL /\ handles[i][h].obj # NULL
                ELSE /\ handles[i][h] = NULL <=> held'[i][h] = NULL
                     /\ held'[i][h] # NULL => /\ handles[i][h].flags = held'[i][h].flags
                                              /\ handles[i][h].obj = held'[i][h].obj
           /\ pc[i] = "panic" => stranded'[i] = {} /\ \A h \in HandleIds : held'[i][h] = NULL
           /\ sess[i] # "open" /\ pc[i] = "return" =>
                stranded'[i] = {} /\ \A h \in HandleIds : held'[i][h] = NULL
<1> DEFINE a == arg[i]
           r == ret[i]
<1>1. /\ pc[i] \in {"return", "panic"} /\ Answered(i, "call") /\ Learn(i)
  BY DEF Returned, CallReturns, Answered
<1>2. /\ held' \in [Instances -> [HandleIds -> ClientHandles \cup {NULL}]]
      /\ IF pc[i] = "panic" THEN held'[i] = NothingHeld
         ELSE IF Opened(i) THEN LearnsOpened(i)
         ELSE IF GivenUp(i) THEN LearnsGivenUp(i)
         ELSE IF Renamed(i) /\ held[i][arg[i].h] # NULL THEN LearnsRenamed(i)
         ELSE LearnsNothing(i)
  BY <1>1, LearnCases
<1>3. stranded' = [stranded EXCEPT ![i] =
                     IF pc[i] = "panic" THEN {}
                     ELSE IF a.cmd \in {"close", "unlink"} THEN stranded[i] \ {a.h}
                     ELSE stranded[i]]
  BY DEF Returned
<1>4. /\ stranded' \in [Instances -> SUBSET HandleIds]
      /\ \A j \in Instances \ {i} : stranded'[j] = stranded[j]
      /\ stranded'[i] = IF pc[i] = "panic" THEN {}
                        ELSE IF a.cmd \in {"close", "unlink"} THEN stranded[i] \ {a.h}
                        ELSE stranded[i]
  BY <1>3 DEF TypeInv
<1>5. CASE pc[i] = "panic"
  <2>1. \A h \in HandleIds : handles[i][h] = NULL /\ held'[i][h] = NULL
    BY <1>2, <1>5 DEF NothingHeld, Local, HandlesKnown
  <2>2. QED
    BY <1>4, <1>5, <2>1
<1>6. CASE pc[i] = "return"
  <2>0. pc[i] # "panic" /\ pc[i] # "ignore" /\ pc[i] # "free_id"
    BY <1>6
  <2>1. key[i] = NULL
    BY <1>6 DEF Local, Temporaries, KeyAllocated
  <2>2. Spare(i) = stranded[i]
    BY <2>1, StorageAssumption DEF Spare, TypeInv
  <2>3. \A h \in HandleIds :
            IF h \in stranded[i]
            THEN /\ held[i][h] = NULL
                 /\ handles[i][h] # NULL => handles[i][h].obj # NULL
                 /\ handles[i][h] = NULL => GivenUp(i) /\ h = arg[i].h
            ELSE \/ Agree(i, h)
                 \/ Opened(i) /\ h = ret[i].val
                 \/ GivenUp(i) /\ h = arg[i].h
    BY <2>0, <2>2 DEF Local, HandlesKnown
  <2>4. held[i] \in [HandleIds -> ClientHandles \cup {NULL}]
    BY DEF TypeInv
  <2>5. CASE Opened(i)
    <3>1. /\ ~GivenUp(i) /\ ~Renamed(i) /\ stranded'[i] = stranded[i]
      BY <1>4, <1>6, <2>5 DEF Opened, GivenUp, Renamed
    <3>2. /\ r.val \in HandleIds \ stranded[i] /\ handles[i][r.val] # NULL
          /\ handles[i][r.val].obj = a.obj /\ handles[i][r.val].flags = a.flags
      BY <2>2, <2>5 DEF Local, HandlesKnown
    <3>3. [obj |-> a.obj, flags |-> a.flags] \in ClientHandles
      BY <3>2 DEF ClientHandles, ObjectHandles, TypeInv
    <3>4. held'[i] = [held[i] EXCEPT ![r.val] = [obj |-> a.obj, flags |-> a.flags]]
      BY <1>2, <2>0, <2>5 DEF LearnsOpened
    <3>5. /\ \A h \in HandleIds \ {r.val} : held'[i][h] = held[i][h]
          /\ held'[i][r.val] # NULL
          /\ held'[i][r.val].obj = a.obj /\ held'[i][r.val].flags = a.flags
      BY <2>4, <3>2, <3>3, <3>4, StorageTaAssumption
    <3>6. r.res = "SUCCESS"
      BY <2>5 DEF Opened
    <3>7. sess[i] = "open"
      BY <1>6, <3>6 DEF Local, Control, TypeInv
    <3>8. ASSUME NEW h \in HandleIds
          PROVE  IF h \in stranded'[i]
                 THEN held'[i][h] = NULL /\ handles[i][h] # NULL /\ handles[i][h].obj # NULL
                 ELSE /\ handles[i][h] = NULL <=> held'[i][h] = NULL
                      /\ held'[i][h] # NULL => /\ handles[i][h].flags = held'[i][h].flags
                                               /\ handles[i][h].obj = held'[i][h].obj
      <4>1. CASE h = r.val
        BY <3>1, <3>2, <3>5, <4>1
      <4>2. CASE h # r.val
        <5>1. held'[i][h] = held[i][h]
          BY <3>5, <4>2
        <5>2. h \notin stranded[i] => Agree(i, h)
          BY <2>3, <3>1, <4>2
        <5>3. QED
          BY <2>3, <3>1, <5>1, <5>2 DEF Agree
      <4>3. QED
        BY <4>1, <4>2
    <3>9. QED
      BY <1>4, <2>0, <3>7, <3>8
  <2>6. CASE GivenUp(i)
    <3>1. /\ ~Opened(i) /\ ~Renamed(i)
          /\ a.cmd \in {"close", "unlink", "free_obj"} /\ r.res = "SUCCESS"
      BY <1>6, <2>6 DEF Opened, GivenUp, Renamed
    <3>2. /\ a.h \in HandleIds /\ handles[i][a.h] = NULL /\ a.h \notin stranded'[i]
          /\ stranded'[i] = stranded[i] \ {a.h}
      BY <1>4, <2>0, <2>6, <3>1 DEF Local, HandlesKnown, Control, Fits, ObjectCmds
    <3>3. held'[i] = [held[i] EXCEPT ![a.h] = NULL]
      BY <1>2, <2>0, <2>6, <3>1 DEF LearnsGivenUp
    <3>4. /\ \A h \in HandleIds \ {a.h} : held'[i][h] = held[i][h]
          /\ held'[i][a.h] = NULL
      BY <2>4, <3>2, <3>3
    <3>5. sess[i] = "open"
      BY <1>6, <3>1 DEF Local, Control, TypeInv
    <3>6. ASSUME NEW h \in HandleIds
          PROVE  IF h \in stranded'[i]
                 THEN held'[i][h] = NULL /\ handles[i][h] # NULL /\ handles[i][h].obj # NULL
                 ELSE /\ handles[i][h] = NULL <=> held'[i][h] = NULL
                      /\ held'[i][h] # NULL => /\ handles[i][h].flags = held'[i][h].flags
                                               /\ handles[i][h].obj = held'[i][h].obj
      <4>1. CASE h = a.h
        BY <3>2, <3>4, <4>1
      <4>2. CASE h # a.h
        <5>1. held'[i][h] = held[i][h] /\ (h \in stranded'[i] <=> h \in stranded[i])
          BY <3>2, <3>4, <4>2
        <5>2. h \notin stranded[i] => Agree(i, h)
          BY <2>3, <3>1, <4>2
        <5>3. QED
          BY <2>3, <3>1, <4>2, <5>1, <5>2 DEF Agree
      <4>3. QED
        BY <4>1, <4>2
    <3>7. QED
      BY <1>4, <2>0, <3>5, <3>6
  <2>7. CASE ~Opened(i) /\ ~GivenUp(i)
    <3>1. stranded'[i] = stranded[i]
      <4>1. a.cmd \in {"close", "unlink"} => sess[i] # "open"
        BY <1>6, <2>7 DEF Local, HandlesKnown, GivenUp
      <4>2. QED
        BY <1>4, <2>0, <4>1 DEF Local, HandlesKnown
    <3>2. \A h \in HandleIds :
             IF h \in stranded[i]
             THEN held[i][h] = NULL /\ handles[i][h] # NULL /\ handles[i][h].obj # NULL
             ELSE Agree(i, h)
      BY <2>3, <2>7
    <3>3. ASSUME ~Renamed(i) \/ held[i][a.h] = NULL
          PROVE  \A h \in HandleIds :
                IF h \in stranded'[i]
                THEN held'[i][h] = NULL /\ handles[i][h] # NULL /\ handles[i][h].obj # NULL
                ELSE /\ handles[i][h] = NULL <=> held'[i][h] = NULL
                     /\ held'[i][h] # NULL => /\ handles[i][h].flags = held'[i][h].flags
                                              /\ handles[i][h].obj = held'[i][h].obj
      <4>1. held'[i] = held[i]
        BY <1>2, <2>0, <2>7, <3>3 DEF LearnsNothing
      <4>2. QED
        BY <3>1, <3>2, <3>3, <4>1 DEF Agree
    <3>4. ASSUME Renamed(i), held[i][a.h] # NULL
          PROVE  /\ sess[i] = "open"
                 /\ \A h \in HandleIds :
                      IF h \in stranded'[i]
                      THEN held'[i][h] = NULL /\ handles[i][h] # NULL /\ handles[i][h].obj # NULL
                      ELSE /\ handles[i][h] = NULL <=> held'[i][h] = NULL
                           /\ held'[i][h] # NULL => /\ handles[i][h].flags = held'[i][h].flags
                                                    /\ handles[i][h].obj = held'[i][h].obj
      <4>1. a.cmd = "rename" /\ r.res = "SUCCESS"
        BY <3>4 DEF Renamed
      <4>2. sess[i] = "open" /\ a.h \in HandleIds /\ a.obj[2] \in Names
        BY <1>6, <4>1 DEF Local, Control, Fits, TypeInv
      <4>3. held[i][a.h].obj \in Objects
        BY <3>4 DEF Local, HandlesKnown
      <4>4. held'[i] = [held[i] EXCEPT ![a.h] = [obj |-> <<@.obj[1], a.obj[2]>>, flags |-> @.flags]]
        BY <1>2, <2>0, <2>7, <3>4 DEF LearnsRenamed
      <4>5. [obj |-> <<held[i][a.h].obj[1], a.obj[2]>>, flags |-> held[i][a.h].flags] \in ClientHandles
        BY <2>4, <3>4, <4>2, <4>3, NewName
      <4>6. /\ \A h \in HandleIds \ {a.h} : held'[i][h] = held[i][h]
            /\ held'[i][a.h] # NULL
            /\ held'[i][a.h].obj = <<held[i][a.h].obj[1], a.obj[2]>>
            /\ held'[i][a.h].flags = held[i][a.h].flags
        BY <2>4, <4>2, <4>4, <4>5, StorageTaAssumption
      <4>7. a.h \notin stranded[i] /\ Agree(i, a.h)
        BY <3>2, <3>4, <4>2
      <4>8. ASSUME NEW h \in HandleIds, h # a.h
            PROVE  IF h \in stranded'[i]
                   THEN held'[i][h] = NULL /\ handles[i][h] # NULL /\ handles[i][h].obj # NULL
                   ELSE /\ handles[i][h] = NULL <=> held'[i][h] = NULL
                        /\ held'[i][h] # NULL => /\ handles[i][h].flags = held'[i][h].flags
                                                 /\ handles[i][h].obj = held'[i][h].obj
        BY <3>1, <3>2, <4>6, <4>8 DEF Agree
      <4>9. /\ a.h \notin stranded'[i] /\ handles[i][a.h] # NULL
            /\ handles[i][a.h].flags = held'[i][a.h].flags
            /\ handles[i][a.h].obj = held'[i][a.h].obj
        BY <3>1, <3>4, <4>6, <4>7 DEF Agree
      <4>10. QED
        BY <4>2, <4>6, <4>8, <4>9
    <3>5. sess[i] # "open" => stranded'[i] = {} /\ \A h \in HandleIds : held'[i][h] = NULL
      <4> SUFFICES ASSUME sess[i] # "open"
                   PROVE  stranded'[i] = {} /\ \A h \in HandleIds : held'[i][h] = NULL
        OBVIOUS
      <4>1. stranded[i] = {} /\ (\A h \in HandleIds : held[i][h] = NULL)
        BY DEF Local, HandlesKnown
      <4>2. held'[i] = held[i]
        BY <1>2, <2>0, <2>7, <3>4 DEF LearnsNothing
      <4>3. QED
        BY <3>1, <4>1, <4>2
    <3>6. QED
      BY <1>4, <2>0, <3>3, <3>4, <3>5
  <2>8. QED
    BY <2>5, <2>6, <2>7
<1>7. QED
  BY <1>1, <1>5, <1>6

\* The client is told what its command did.
LEMMA ReturnedKeeps ==
    ASSUME TypeInv, NEW i \in Instances, Local(i), Returned(i)
    PROVE  ClientFrame(i) /\ Local(i)' /\ pc'[i] # pc[i]
<1> DEFINE a == arg[i]
           r == ret[i]
<1>1. /\ pc[i] \in {"return", "panic"} /\ Answered(i, "call") /\ Learn(i) /\ Back(i, "idle")
      /\ UNCHANGED kept
  BY DEF Returned, CallReturns, Answered
<1>2. /\ UNCHANGED <<store, handles, enums>>
      /\ ret' \in [Instances -> [res : Results, val : Values]]
      /\ pc' \in [Instances -> Labels] /\ pc'[i] = "idle"
      /\ arg' \in [Instances -> Args] /\ Fits(arg'[i])
      /\ hpc' \in [Instances -> {"idle", "call"}] /\ hpc'[i] = "idle"
      /\ \A j \in Instances \ {i} : /\ ret'[j] = ret[j] /\ pc'[j] = pc[j]
                                    /\ arg'[j] = arg[j] /\ hpc'[j] = hpc[j]
  BY <1>1, BackFrame
<1>3. /\ ~object_id[i] /\ transient_key[i] = NULL /\ ~encrypt_op[i]
      /\ key[i] = NULL /\ n[i] = 0
  BY <1>1 DEF Local, Temporaries, KeyAllocated, KeyLabels, LoopLabels
<1>4. pc[i] = "panic" => r.res = "TARGET_DEAD" /\ sess[i] = "open"
  BY DEF Local, Control, TypeInv
<1>5. /\ sess' \in [Instances -> {"closed", "open", "dead"}]
      /\ sess'[i] = IF pc[i] = "panic" THEN "dead" ELSE sess[i]
      /\ \A j \in Instances \ {i} : sess'[j] = sess[j]
  BY <1>1 DEF Learn, TypeInv
<1>6. /\ eheld' = [eheld EXCEPT ![i] =
                     IF pc[i] = "panic" THEN {}
                     ELSE IF r.res = "SUCCESS" /\ a.cmd = "alloc_enum" THEN eheld[i] \cup {r.val}
                     ELSE IF r.res = "SUCCESS" /\ a.cmd = "free_enum" THEN eheld[i] \ {a.h}
                     ELSE eheld[i]]
  BY <1>1, <1>4 DEF Learn
<1>7. /\ eheld' \in [Instances -> SUBSET EnumIds]
      /\ \A j \in Instances \ {i} : eheld'[j] = eheld[j]
      /\ OpenEnums(i) = eheld'[i]
      /\ sess[i] # "open" \/ pc[i] = "panic" => eheld'[i] = {}
  <2>1. CASE pc[i] = "panic"
    <3>1. OpenEnums(i) = {}
      BY <2>1 DEF Local, Enumerators
    <3>2. QED
      BY <1>6, <2>1, <3>1 DEF TypeInv
  <2>2. CASE pc[i] = "return"
    <3>1. /\ JustAllocated(i) <=> r.res = "SUCCESS" /\ a.cmd = "alloc_enum"
          /\ JustFreed(i) <=> r.res = "SUCCESS" /\ a.cmd = "free_enum"
      BY <2>2 DEF JustAllocated, JustFreed
    <3>2. OpenEnums(i) = (eheld[i] \cup {e \in EnumIds : JustAllocated(i) /\ e = ret[i].val})
                             \ {e \in EnumIds : JustFreed(i) /\ e = arg[i].h}
      BY <2>2 DEF Local, Enumerators
    <3>3. /\ JustAllocated(i) => r.val \in EnumIds
          /\ eheld[i] \subseteq EnumIds
          /\ sess[i] # "open" => eheld[i] = {} /\ r.res # "SUCCESS"
      BY <2>2 DEF Local, Control, Enumerators, TypeInv
    <3>4. CASE JustAllocated(i)
      <4>1. eheld'[i] = eheld[i] \cup {r.val} /\ ~JustFreed(i) /\ sess[i] = "open"
        BY <1>6, <2>2, <3>1, <3>3, <3>4 DEF TypeInv
      <4>2. OpenEnums(i) = eheld'[i]
        BY <3>2, <3>3, <3>4, <4>1
      <4>3. QED
        BY <1>6, <2>2, <3>1, <3>3, <3>4, <4>1, <4>2 DEF TypeInv
    <3>5. CASE JustFreed(i)
      <4>1. eheld'[i] = eheld[i] \ {a.h} /\ ~JustAllocated(i) /\ sess[i] = "open"
        BY <1>6, <2>2, <3>1, <3>3, <3>5 DEF TypeInv
      <4>2. OpenEnums(i) = eheld'[i]
        BY <3>2, <3>3, <3>5, <4>1
      <4>3. QED
        BY <1>6, <2>2, <3>1, <3>3, <3>5, <4>1, <4>2 DEF TypeInv
    <3>6. CASE ~JustAllocated(i) /\ ~JustFreed(i)
      <4>1. eheld' = eheld /\ eheld'[i] = eheld[i]
        BY <1>6, <2>2, <3>1, <3>6 DEF TypeInv
      <4>2. OpenEnums(i) = eheld[i]
        BY <3>2, <3>6
      <4>3. QED
        BY <2>2, <3>3, <4>1, <4>2 DEF TypeInv
    <3>7. QED
      BY <3>4, <3>5, <3>6
  <2>3. QED
    BY <1>1, <2>1, <2>2
<1>8. /\ held' \in [Instances -> [HandleIds -> ClientHandles \cup {NULL}]]
      /\ \A j \in Instances \ {i} : held'[j] = held[j]
  BY <1>1, LearnCases
<1>9. /\ stranded' \in [Instances -> SUBSET HandleIds]
      /\ \A j \in Instances \ {i} : stranded'[j] = stranded[j]
      /\ \A h \in HandleIds :
            IF h \in stranded'[i]
            THEN held'[i][h] = NULL /\ handles[i][h] # NULL /\ handles[i][h].obj # NULL
            ELSE /\ handles[i][h] = NULL <=> held'[i][h] = NULL
                 /\ held'[i][h] # NULL => /\ handles[i][h].flags = held'[i][h].flags
                                          /\ handles[i][h].obj = held'[i][h].obj
      /\ pc[i] = "panic" => stranded'[i] = {} /\ \A h \in HandleIds : held'[i][h] = NULL
      /\ sess[i] # "open" /\ pc[i] = "return" =>
            stranded'[i] = {} /\ \A h \in HandleIds : held'[i][h] = NULL
  BY LearnAgrees
<1>10. ClientFrame(i)
  BY <1>1, <1>2, <1>5, <1>7, <1>8, <1>9 DEF ClientFrame, TypeInv
<1>11. Settled(i)'
  <2>1. OpenEnums(i)' = eheld'[i]
    BY <1>2, <1>7 DEF OpenEnums
  <2>2. /\ ~object_id'[i] /\ transient_key'[i] = NULL /\ ~encrypt_op'[i]
        /\ key'[i] = NULL /\ n'[i] = 0
    BY <1>1, <1>3 DEF kept
  <2>3. sess'[i] = "dead" => i \in Misusers
    BY <1>5 DEF Local, Disciplined
  <2>4. sess'[i] # "open" => /\ eheld'[i] = {} /\ stranded'[i] = {}
                             /\ \A h \in HandleIds : held'[i][h] = NULL
    BY <1>1, <1>5, <1>7, <1>9
  <2>5. stranded'[i] \subseteq HandleIds
    BY <1>9
  <2>6. QED
    BY <1>2, <1>9, <2>1, <2>2, <2>3, <2>4, <2>5 DEF Settled
<1>12. QED
  BY <1>1, <1>2, <1>10, <1>11, SettledLocalNext

-----------------------------------------------------------------------------
(***************************************************************************)
(* The invariant.                                                          *)
(***************************************************************************)

\* Nothing is stored, open or running at first.
LEMMA FInvInit == Init => FInv
<1> SUFFICES ASSUME Init PROVE FInv
  OBVIOUS
<1> USE DEF Init, TaInit, InstanceInit, StorageInit, ClientInit
<1>1. TypeInv
  <2>1. NoArg \in Args /\ Success \in [res : Results, val : Values]
    BY DEF NoArg, Args, Commands, Success, Results, Values
  <2>2. "idle" \in Labels /\ 0 \in 0..LoopCount
    BY StorageTaAssumption DEF Labels
  <2>3. QED
    BY <2>1, <2>2 DEF TypeInv, NothingHeld
<1>2. ASSUME NEW i \in Instances
      PROVE  Local(i)
  <2>1. Fits(NoArg)
    BY DEF NoArg, Fits, ObjectCmds, EnumCmds
  <2>2. OpenEnums(i) = {}
    BY DEF OpenEnums
  <2>3. Settled(i)
    BY <2>1, <2>2 DEF Settled, NothingHeld
  <2>4. QED
    BY <2>3, SettledLocal
<1>3. \A i \in Instances : OpenHandles(i) = {}
  BY DEF OpenHandles
<1>4. QED
  BY <1>1, <1>2, <1>3 DEF FInv, ExclusiveMeta, Stored

\* What a step of one session does: it keeps the invariant and leaves alone what others
\* have meta access to.
LEMMA SessionStepKeeps ==
    ASSUME FInv, NEW i \in Instances, Calls(i) \/ Progress(i)
    PROVE  FInv' /\ OthersKept(i)
<1>0. TypeInv /\ Local(i) /\ ExclusiveMeta /\ Stored
  BY DEF FInv
<1>1. /\ TypeInv' /\ Local(i)' /\ Kept(i)
      /\ \A j \in Instances \ {i} : Mine(j)' = Mine(j)
  <2>1. CASE TaStep(i) /\ UNCHANGED clientVars
    <3>1. StepFrame(i) /\ Local(i)'
      BY <1>0, <2>1, TaStepKeeps
    <3>2. TypeInv' /\ \A j \in Instances \ {i} : Mine(j)' = Mine(j)
      BY <1>0, <3>1, StepFrameKeeps
    <3>3. Kept(i)
      BY <1>0, <3>1, EffectKeeps DEF StepFrame
    <3>4. QED
      BY <3>1, <3>2, <3>3
  <2>2. CASE Calls(i) \/ Returned(i)
    <3>1. ClientFrame(i) /\ Local(i)'
      BY <1>0, <2>2, FunctionKeeps, SessionKeeps, ReturnedKeeps DEF Sent
    <3>2. TypeInv' /\ Shrinks /\ \A j \in Instances \ {i} : Mine(j)' = Mine(j)
      BY <1>0, <3>1, ClientFrameKeeps
    <3>3. Kept(i)
      BY <1>0, <3>2, ShrinksKeeps
    <3>4. QED
      BY <3>1, <3>2, <3>3
  <2>3. QED
    BY <2>1, <2>2 DEF Progress
<1>2. \A j \in Instances \ {i} : Local(j)'
  BY <1>1, LocalFrame DEF FInv
<1>3. QED
  BY <1>1, <1>2 DEF FInv, Kept

\* The invariant is inductive.
LEMMA FInvStep == FInv /\ [Next]_vars => FInv'
<1> SUFFICES ASSUME FInv, [Next]_vars PROVE FInv'
  OBVIOUS
<1>1. CASE Next
  BY <1>1, SessionStepKeeps DEF Next
<1>2. CASE UNCHANGED vars
  <2>0. /\ UNCHANGED <<store, handles, enums, ret, pc, arg, kept, stranded, sess, hpc, held, eheld>>
    BY <1>2 DEF vars, teeVars, callVars, locals, clientVars
  <2>1. TypeInv'
    BY <2>0 DEF FInv, TypeInv, kept
  <2>2. \A i \in Instances : Mine(i)' = Mine(i)
    BY <2>0 DEF Mine, kept, OpenEnums
  <2>3. \A i \in Instances : Local(i)'
    BY <2>2, LocalFrame DEF FInv
  <2>4. ExclusiveMeta' /\ Stored'
    BY <2>0 DEF FInv, ExclusiveMeta, Stored, OpenHandles
  <2>5. QED
    BY <2>1, <2>3, <2>4 DEF FInv
<1>3. QED
  BY <1>1, <1>2

\* FInv is an invariant of every instance of the model.
THEOREM FsInvariant == Spec => []FInv
BY FInvInit, FInvStep, PTL DEF Spec

\* Whatever call of the TEE fails, ta_storage_cmd_key_in_persistent and the commands with
\* an identifier have freed what they allocated when they return.
THEOREM FsTemporariesFreed == Spec => []TemporariesFreed
<1>1. FInv => TemporariesFreed
  BY DEF FInv, Local, Temporaries, TemporariesFreed, KeyLabels
<1>2. QED
  BY <1>1, FsInvariant, PTL

\* Between the calls of a client of libfs its handles and enumerators are all that its
\* instance has open, but for the handles that key_in_persistent left behind.
THEOREM FsHandlesAccounted == Spec => []HandlesAccounted
<1>1. ASSUME FInv PROVE HandlesAccounted
  <2> SUFFICES ASSUME NEW i \in Instances, hpc[i] = "idle"
               PROVE  /\ OpenEnums(i) = eheld[i]
                      /\ OpenHandles(i) = Holding(i) \cup stranded[i]
                      /\ \A h \in Holding(i) : /\ handles[i][h].obj = held[i][h].obj
                                               /\ handles[i][h].flags = held[i][h].flags
    BY DEF HandlesAccounted
  <2>1. TypeInv /\ Local(i) /\ pc[i] = "idle"
    BY <1>1 DEF FInv, Local, Control
  <2>2. Settled(i)
    BY <2>1, IdleSettled
  <2>3. OpenHandles(i) = Holding(i) \cup stranded[i]
    BY <2>2 DEF Settled, OpenHandles, Holding
  <2>4. QED
    BY <2>2, <2>3 DEF Settled, Holding
<1>2. QED
  BY <1>1, FsInvariant, PTL

\* A client of libfs that passes only handles it holds, with the access it asked for,
\* never makes the storage TA panic, whatever the clients of other sessions pass.
THEOREM FsDisciplineNeverPanics == Spec => []DisciplineNeverPanics
<1>1. FInv => DisciplineNeverPanics
  BY DEF FInv, Local, Disciplined, DisciplineNeverPanics
<1>2. QED
  BY <1>1, FsInvariant, PTL

\* Every step of a command goes on in the command.
LEMMA TaStepMoves ==
    ASSUME TypeInv, NEW i \in Instances, TaStep(i)
    PROVE  pc'[i] # pc[i]
<1>1. ASSUME NEW label, Goto(i, label) PROVE pc'[i] = label
  BY <1>1 DEF Goto, TypeInv
<1>2. ASSUME NEW next, NEW exit, After(i, next, exit) PROVE pc'[i] \in {next, "panic", exit}
  BY <1>1, <1>2 DEF After
<1>3. ASSUME NEW error, NEW next, NEW exit, LocalCall(i, error, next, exit)
      PROVE  pc'[i] \in {next, exit}
  BY <1>1, <1>3 DEF LocalCall
<1>4. CASE WithId(i)
  BY <1>1, <1>2, <1>3, <1>4
     DEF WithId, CopyId, IdUsed, FreeId, Using, ta_storage_cmd_open, ta_storage_cmd_create,
         ta_storage_cmd_create_overwrite, ta_storage_cmd_rename
<1>5. CASE OneCall(i)
  <2>1. pc[i] # "return" /\ pc[i] # "panic" /\ Done(i) => pc'[i] # pc[i]
    BY <1>2 DEF Done
  <2>2. pc[i] # "return" /\ pc[i] # "panic" /\ pc[i] # "ignore" /\ DoneIgnoring(i) => pc'[i] # pc[i]
    BY <1>2 DEF DoneIgnoring
  <2>3. ta_storage_cmd_seek(i) => pc'[i] # pc[i]
    BY <1>2, <2>1 DEF ta_storage_cmd_seek
  <2>4. IgnoreResult(i) => pc'[i] # pc[i]
    BY <1>1 DEF IgnoreResult
  <2>5. QED
    BY <1>5, <2>1, <2>2, <2>3, <2>4
       DEF OneCall, ta_storage_cmd_close, ta_storage_cmd_read, ta_storage_cmd_write,
           ta_storage_cmd_trunc, ta_storage_cmd_unlink, ta_storage_cmd_alloc_enum,
           ta_storage_cmd_free_enum, ta_storage_cmd_reset_enum, ta_storage_cmd_start_enum,
           ta_storage_cmd_next_enum, ta_storage_cmd_restrict_usage, ta_storage_cmd_alloc_obj,
           ta_storage_cmd_free_obj, ta_storage_cmd_reset_obj, ta_storage_cmd_get_obj_info
<1>6. CASE ta_storage_cmd_key_in_persistent(i)
  BY <1>1, <1>2, <1>3, <1>6
     DEF ta_storage_cmd_key_in_persistent, KeyAllocate, KeyGenerate, KeyCreate, check_obj, KeyClose,
         KeyOpen, AllocateOperation, SetOperationKey, Cleanup4, Cleanup3, Cleanup2
<1>7. CASE ta_storage_cmd_loop(i)
  BY <1>1, <1>2, <1>7 DEF ta_storage_cmd_loop, LoopCreate, LoopDelete, LoopEnd
<1>8. QED
  BY <1>4, <1>5, <1>6, <1>7 DEF TaStep

\* What a client knows of a handle that is still open is true, but for its name.
LEMMA HeldTrue ==
    ASSUME FInv, NEW i \in Instances, NEW h \in Holding(i) \cap OpenHandles(i)
    PROVE  h \in HandleIds /\ handles[i][h].flags = held[i][h].flags
<1>1. /\ h \in HandleIds /\ held[i][h] # NULL /\ handles[i][h] # NULL /\ HandlesKnown(i)
  BY DEF FInv, Local, Holding, OpenHandles
<1>2. pc[i] # "panic"
  BY <1>1 DEF HandlesKnown
<1>3. Agree(i, h)
  BY <1>1, <1>2 DEF HandlesKnown
<1>4. QED
  BY <1>1, <1>3 DEF Agree

\* An object that a client has open with meta access changes only by steps of its own
\* session: no command of another one renames, replaces, rewrites or deletes it.
THEOREM FsExclusiveObjectsStable == Spec => ExclusiveObjectsStable
<1> DEFINE Stable == \A i \in Instances : \A h \in Holding(i) \cap OpenHandles(i) :
                        "META" \in held[i][h].flags /\ pc'[i] = pc[i] /\ sess'[i] = sess[i] =>
                            store'[handles[i][h].obj] = store[handles[i][h].obj]
<1>1. ASSUME FInv, Next PROVE Stable
  <2> SUFFICES ASSUME NEW j \in Instances, NEW h \in Holding(j) \cap OpenHandles(j),
                      "META" \in held[j][h].flags, pc'[j] = pc[j], sess'[j] = sess[j]
               PROVE  store'[handles[j][h].obj] = store[handles[j][h].obj]
    OBVIOUS
  <2>1. h \in HandleIds /\ h \in OpenHandles(j) /\ "META" \in handles[j][h].flags
    BY <1>1, HeldTrue
  <2>2. handles[j][h].obj # NULL
    BY <1>1, <2>1 DEF FInv, Stored
  <2>3. h \in Granted(j, "META")
    BY <2>1, <2>2 DEF Granted
  <2>4. PICK i \in Instances : Calls(i) \/ Progress(i)
    BY <1>1 DEF Next
  <2>5. OthersKept(i)
    BY <1>1, <2>4, SessionStepKeeps
  <2>6. i # j
    <3> SUFFICES ASSUME i = j PROVE FALSE
      OBVIOUS
    <3>1. TypeInv /\ Local(i)
      BY <1>1 DEF FInv
    <3>2. CASE TaStep(i)
      BY <3>1, <3>2, TaStepMoves
    <3>3. CASE Calls(i) \/ Returned(i)
      BY <3>1, <3>3, FunctionKeeps, SessionKeeps, ReturnedKeeps DEF Sent
    <3>4. QED
      BY <2>4, <3>2, <3>3 DEF Progress
  <2>7. QED
    BY <2>3, <2>5, <2>6 DEF OthersKept
<1>2. ASSUME UNCHANGED vars PROVE Stable
  BY <1>2 DEF vars, teeVars
<1>3. FInv /\ [Next]_vars => [Stable]_vars
  BY <1>1, <1>2
<1>4. QED
  BY <1>3, FsInvariant, PTL DEF Spec, ExclusiveObjectsStable

-----------------------------------------------------------------------------
(***************************************************************************)
(* The keys that key_in_persistent stores.                                 *)
(***************************************************************************)

\* An object that exists keeps its key, unless cleanup3 of instance i deletes its own.
KeysPersist(i) ==
    \A o \in Objects : store[o] # NULL =>
        \/ store'[o] # NULL /\ store'[o].attr = store[o].attr
        \/ pc[i] = "cleanup3" /\ o = KeyObject(i)

\* Writing and truncating leave the key of an object alone.
LEMMA ChangeDataPersists ==
    ASSUME TypeInv, Stored, NEW i \in Instances, NEW h \in HandleIds, NEW d \in Data,
           ChangeData(i, h, d)
    PROVE  KeysPersist(i)
<1>1. CASE Panics(i) \/ Fails(i, "STORAGE_NO_SPACE")
  BY <1>1 DEF Panics, Fails, KeysPersist
<1>2. CASE /\ h \in Granted(i, "WRITE")
           /\ store' = [store EXCEPT ![handles[i][h].obj].data = d]
  <2>1. PICK o \in Objects : o = handles[i][h].obj
    BY <1>2, GrantedFacts
  <2>2. store[o] \in Contents
    BY <1>2, <2>1, GrantedFacts
  <2>3. [store[o] EXCEPT !.data = d] = [attr |-> store[o].attr, data |-> d]
    BY <2>2 DEF Contents
  <2>4. [attr |-> store[o].attr, data |-> d] \in Contents
    BY <2>2 DEF Contents
  <2>5. store' = [store EXCEPT ![o] = [attr |-> store[o].attr, data |-> d]]
    BY <1>2, <2>1, <2>3
  <2>6. store'[o] # NULL /\ store'[o].attr = store[o].attr
    BY <2>4, <2>5, StorageTaAssumption DEF TypeInv
  <2>7. \A p \in Objects \ {o} : store'[p] = store[p]
    BY <2>5 DEF TypeInv
  <2>8. QED
    BY <2>6, <2>7 DEF KeysPersist
<1>3. QED
  BY <1>1, <1>2 DEF ChangeData

\* Without the flag to overwrite only objects that do not exist are created.
LEMMA CreatePersists ==
    ASSUME TypeInv, NEW i \in Instances, NEW obj \in Objects, NEW flags \in SUBSET StorageFlags,
           NEW c \in Contents, TEE_CreatePersistentObject(i, obj, flags, c), "OVERWRITE" \notin flags
    PROVE  /\ KeysPersist(i)
           /\ ret'[i].res = "SUCCESS" => store[obj] = NULL /\ store'[obj] = c
<1>1. CASE Refused(i) /\ UNCHANGED store
  BY <1>1 DEF KeysPersist, Refused
<1>2. CASE ~Refuses(obj, flags) /\ store' = [store EXCEPT ![obj] = c]
  <2>1. store[obj] = NULL
    BY <1>2 DEF Refuses, Present
  <2>2. QED
    BY <1>2, <2>1 DEF KeysPersist, TypeInv
<1>3. QED
  BY <1>1, <1>2, CreateApi

\* The commands that OwnKeys rules out.
Forbidden == {"rename", "unlink", "create_overwrite", "loop"}

\* The commands other than key_in_persistent do not touch the keys of objects.
LEMMA OthersPersist ==
    ASSUME TypeInv, Stored, NEW i \in Instances, Local(i), arg[i].cmd \notin Forbidden,
           arg[i].cmd = "create" => "OVERWRITE" \notin arg[i].flags,
           WithId(i) \/ OneCall(i)
    PROVE  KeysPersist(i)
<1> USE DEF Forbidden
<1>0. UNCHANGED store => KeysPersist(i)
  BY DEF KeysPersist
<1>1. CASE WithId(i)
  <2>1. CASE CopyId(i) \/ FreeId(i)
    BY <1>0, <2>1 DEF CopyId, FreeId, teeVars
  <2>2. CASE ta_storage_cmd_open(i)
    <3>1. arg[i].obj \in Objects /\ arg[i].flags \in SUBSET StorageFlags
      BY <2>2 DEF ta_storage_cmd_open, Using, Local, Control, Fits, TypeInv, Args
    <3>2. QED
      BY <1>0, <2>2, <3>1, OpenApi DEF ta_storage_cmd_open
  <2>3. CASE ta_storage_cmd_create(i)
    <3>1. CASE Panics(i)
      BY <1>0, <3>1 DEF Panics
    <3>2. CASE ~Panics(i)
      <4> DEFINE ref == arg[i].h
                 attr == IF ref = NULL THEN NULL ELSE handles[i][ref].key.attr
      <4>1. /\ arg[i].cmd = "create" /\ arg[i].obj \in Objects /\ arg[i].flags \in SUBSET StorageFlags
            /\ arg[i].data \in Data \cup {NULL}
            /\ arg[i].h \in {NULL} \cup {h \in OpenHandles(i) : handles[i][h].obj # NULL}
            /\ TEE_CreatePersistentObject(i, arg[i].obj, arg[i].flags, Content(attr, arg[i].data))
        BY <2>3, <3>2 DEF ta_storage_cmd_create, Using, Local, Control, Fits, TypeInv, Args
      <4>2. attr \in Keys \cup {NULL}
        BY <4>1 DEF Stored, Contents
      <4>3. Content(attr, arg[i].data) \in Contents
        BY <4>1, <4>2 DEF Content, Contents
      <4> HIDE DEF attr
      <4>4. QED
        BY <4>1, <4>3, CreatePersists
    <3>3. QED
      BY <3>1, <3>2
  <2>4. CASE ta_storage_cmd_create_overwrite(i) \/ ta_storage_cmd_rename(i)
    BY <2>4 DEF ta_storage_cmd_create_overwrite, ta_storage_cmd_rename, Using
  <2>5. QED
    BY <1>1, <2>1, <2>2, <2>3, <2>4 DEF WithId
<1>2. CASE OneCall(i)
  <2>1. pc[i] # "unlink"
    BY DEF Local, Control, Commands, ObjectCmds
  <2>2. CASE pc[i] = "write"
    <3>1. arg[i].h \in HandleIds /\ arg[i].data \in Data
      BY <2>2 DEF Local, Control, Fits, ObjectCmds, Commands
    <3>2. ta_storage_cmd_write(i)
      BY <1>2, <2>2 DEF OneCall, ta_storage_cmd_close, ta_storage_cmd_read, ta_storage_cmd_write,
           ta_storage_cmd_trunc, ta_storage_cmd_seek, ta_storage_cmd_unlink, ta_storage_cmd_alloc_enum,
           ta_storage_cmd_free_enum, ta_storage_cmd_reset_enum, ta_storage_cmd_start_enum,
           ta_storage_cmd_next_enum, ta_storage_cmd_restrict_usage, ta_storage_cmd_alloc_obj,
           ta_storage_cmd_free_obj, ta_storage_cmd_reset_obj, ta_storage_cmd_get_obj_info, IgnoreResult
    <3>3. QED
      BY <3>1, <3>2, ChangeDataPersists DEF ta_storage_cmd_write
  <2>3. CASE ta_storage_cmd_trunc(i)
    <3>1. arg[i].h \in HandleIds
      BY <2>3 DEF ta_storage_cmd_trunc, Local, Control, Fits, ObjectCmds, Commands
    <3>2. QED
      BY <2>3, <3>1, ChangeDataPersists DEF ta_storage_cmd_trunc
  <2>4. CASE ~ta_storage_cmd_trunc(i) /\ pc[i] # "write"
    <3>1. \/ \E h : \/ TEE_CloseObject(i, h) \/ TEE_ReadObjectData(i, h) \/ TEE_SeekObjectData(i, h)
                    \/ ReadObject(i, h) \/ OnTransient(i, h, TRUE) \/ OnTransient(i, h, FALSE)
                    \/ TEE_FreePersistentObjectEnumerator(i, h)
                    \/ TEE_ResetPersistentObjectEnumerator(i, h)
                    \/ TEE_StartPersistentObjectEnumerator(i, h, arg[i].obj[1])
                    \/ TEE_GetNextPersistentObject(i, h)
          \/ TEE_AllocatePersistentObjectEnumerator(i) \/ TEE_AllocateTransientObject(i)
          \/ Fails(i, "SHORT_BUFFER") \/ IgnoreResult(i)
      BY <1>2, <2>1, <2>4 DEF OneCall, ta_storage_cmd_close, ta_storage_cmd_read, ta_storage_cmd_write,
           ta_storage_cmd_seek, ta_storage_cmd_unlink, ta_storage_cmd_alloc_enum,
           ta_storage_cmd_free_enum, ta_storage_cmd_reset_enum, ta_storage_cmd_start_enum,
           ta_storage_cmd_next_enum, ta_storage_cmd_restrict_usage, ta_storage_cmd_alloc_obj,
           ta_storage_cmd_free_obj, ta_storage_cmd_reset_obj, ta_storage_cmd_get_obj_info
    <3>2. UNCHANGED store
      BY <3>1 DEF TEE_CloseObject, TEE_ReadObjectData, TEE_SeekObjectData, ReadObject, OnTransient,
           TEE_FreePersistentObjectEnumerator, TEE_ResetPersistentObjectEnumerator,
           TEE_StartPersistentObjectEnumerator, TEE_GetNextPersistentObject,
           TEE_AllocatePersistentObjectEnumerator, TEE_AllocateTransientObject, IgnoreResult,
           SetEnum, Fails, Panics
    <3>3. QED
      BY <1>0, <3>2
  <2>5. QED
    BY <2>2, <2>3, <2>4
<1>3. QED
  BY <1>1, <1>2

\* A session owns an object after a step: it exists with the key of the session, which
\* is also the key in the open object, and the session owned it before, or it is new.
OwnsNext(i) ==
    /\ pc'[i] \in Owning => /\ store'[KeyObject(i)] # NULL
                            /\ store'[KeyObject(i)].attr = transient_key'[i]
                            /\ pc[i] \in Owning \/ store[KeyObject(i)] = NULL
    /\ pc'[i] \in KeyAllocated => handles'[i][key'[i]].key.attr = transient_key'[i]

\* The steps of key_in_persistent touch no key but that of their own object.
LEMMA KeyStepOwns ==
    ASSUME TypeInv, Stored, NEW i \in Instances, Local(i), OwnKeys,
           ta_storage_cmd_key_in_persistent(i)
    PROVE  KeysPersist(i) /\ OwnsNext(i)
<1>0. UNCHANGED store => KeysPersist(i)
  BY DEF KeysPersist
<1>1. pc[i] \in KeyLabels
  BY DEF ta_storage_cmd_key_in_persistent, KeyAllocate, KeyGenerate, KeyCreate, check_obj, KeyClose,
         KeyOpen, AllocateOperation, SetOperationKey, Cleanup4, Cleanup3, Cleanup2, KeyLabels
<1>2. KeyObject(i) \in Objects
  <2>1. arg[i].obj \in Storages \X {NULL}
    BY <1>1 DEF Local, Control, Fits
  <2>2. QED
    BY <2>1, StorageTaAssumption DEF KeyObject, Objects
<1>3. /\ pc[i] \in Owning => /\ store[KeyObject(i)] # NULL
                             /\ store[KeyObject(i)].attr = transient_key[i]
      /\ pc[i] \in KeyAllocated => handles[i][key[i]].key.attr = transient_key[i]
  BY DEF OwnKeys
<1>4. KeyFlags \in SUBSET StorageFlags /\ "OVERWRITE" \notin KeyFlags
  BY DEF KeyFlags, StorageFlags
<1>5. ASSUME NEW label, Goto(i, label) PROVE pc'[i] = label
  BY <1>5 DEF Goto, TypeInv
<1>6. ASSUME NEW next, NEW exit, After(i, next, exit)
      PROVE  /\ pc'[i] \in {next, "panic", exit}
             /\ ret'[i].res \notin {"SUCCESS", "TARGET_DEAD"} => pc'[i] = exit
             /\ pc'[i] = next /\ next \notin {"panic", exit} => ret'[i].res = "SUCCESS"
  BY <1>5, <1>6 DEF After
<1>7. ASSUME NEW error, NEW next, NEW exit, LocalCall(i, error, next, exit)
      PROVE  pc'[i] \in {next, exit}
  BY <1>5, <1>7 DEF LocalCall
<1> USE DEF Owning, KeyAllocated
\* Steps that neither take nor give the object, nor touch the open one.
<1>8. ASSUME UNCHANGED <<store, handles, transient_key>>,
             \/ pc'[i] \notin Owning
             \/ pc'[i] \in KeyAllocated /\ pc[i] \in KeyAllocated /\ key'[i] = key[i]
      PROVE  KeysPersist(i) /\ OwnsNext(i)
  BY <1>0, <1>3, <1>8 DEF OwnsNext
<1>9. ASSUME UNCHANGED store, pc'[i] \notin Owning
      PROVE  KeysPersist(i) /\ OwnsNext(i)
  BY <1>0, <1>9 DEF OwnsNext
<1>10. CASE KeyAllocate(i) \/ KeyGenerate(i)
  <2>1. pc'[i] \notin Owning
    BY <1>7, <1>10 DEF KeyAllocate, KeyGenerate
  <2>2. QED
    BY <1>9, <1>10, <2>1 DEF KeyAllocate, KeyGenerate
<1>11. CASE KeyCreate(i)
  <2>1. /\ TEE_CreatePersistentObject(i, KeyObject(i), KeyFlags, Content(transient_key[i], NULL))
        /\ After(i, "check_created", "cleanup2") /\ transient_key' = transient_key
        /\ key' = [key EXCEPT ![i] = ret'[i].val] /\ pc[i] = "create_key"
    BY <1>11 DEF KeyCreate
  <2>2. transient_key[i] \in Keys
    BY <2>1 DEF Local, Temporaries
  <2>3. Content(transient_key[i], NULL) \in Contents
    BY <2>2 DEF Content, Contents
  <2>4. /\ KeysPersist(i)
        /\ ret'[i].res = "SUCCESS" => /\ store[KeyObject(i)] = NULL
                                      /\ store'[KeyObject(i)] = Content(transient_key[i], NULL)
    BY <1>2, <1>4, <2>1, <2>3, CreatePersists
  <2>5. CASE ret'[i].res # "SUCCESS"
    <3>1. pc'[i] \notin Owning
      BY <1>6, <2>1, <2>5
    <3>2. QED
      BY <2>4, <3>1 DEF OwnsNext
  <2>6. CASE ret'[i].res = "SUCCESS"
    <3>1. Gets(i, KeyObject(i), KeyFlags, Content(transient_key[i], NULL))
      BY <1>2, <1>4, <2>1, <2>3, <2>6, CreateApi DEF Refused
    <3>2. PICK h \in HandleIds :
            /\ handles'[i] = [handles[i] EXCEPT ![h] = [obj |-> KeyObject(i), flags |-> KeyFlags,
                                                        key |-> Content(transient_key[i], NULL)]]
            /\ ret'[i].val = h
      BY <3>1 DEF Gets
    <3>3. handles'[i][h].key = Content(transient_key[i], NULL) /\ key'[i] = h
      BY <2>1, <3>2 DEF TypeInv
    <3>4. Content(transient_key[i], NULL).attr = transient_key'[i]
          /\ Content(transient_key[i], NULL) # NULL
      BY <2>1, <2>3, StorageTaAssumption DEF Content
    <3>5. QED
      BY <2>4, <2>6, <3>3, <3>4 DEF OwnsNext
  <2>7. QED
    BY <2>5, <2>6
<1>12. CASE check_obj(i, "check_created", "close_created") \/ check_obj(i, "check_opened", "allocate_op")
  <2>1. UNCHANGED <<store, handles, transient_key>> /\ pc[i] \in {"check_created", "check_opened"}
    BY <1>12 DEF check_obj
  <2>2. pc'[i] = "cleanup2" \/ (pc'[i] \in {"close_created", "allocate_op"} /\ key'[i] = key[i])
    BY <1>5, <1>12 DEF check_obj
  <2>3. QED
    BY <1>8, <2>1, <2>2
<1>13. CASE KeyClose(i)
  <2>1. UNCHANGED <<store, transient_key>> /\ pc[i] = "close_created" /\ pc'[i] = "open_key"
    BY <1>5, <1>13 DEF KeyClose, TEE_CloseObject, Panics
  <2>2. QED
    BY <1>0, <1>3, <2>1 DEF OwnsNext
<1>14. CASE KeyOpen(i)
  <2>1. /\ TEE_OpenPersistentObject(i, KeyObject(i), KeyFlags)
        /\ After(i, "check_opened", "cleanup2") /\ transient_key' = transient_key
        /\ key' = [key EXCEPT ![i] = ret'[i].val] /\ pc[i] = "open_key"
    BY <1>14 DEF KeyOpen
  <2>2. /\ UNCHANGED store
        /\ Refused(i) \/ Gets(i, KeyObject(i), KeyFlags, store[KeyObject(i)])
    BY <1>2, <1>4, <2>1, OpenApi
  <2>3. CASE Refused(i)
    <3>1. pc'[i] = "cleanup2"
      BY <1>6, <2>1, <2>3 DEF Refused
    <3>2. QED
      BY <1>9, <2>2, <3>1
  <2>4. CASE Gets(i, KeyObject(i), KeyFlags, store[KeyObject(i)])
    <3>1. PICK h \in HandleIds :
            /\ handles'[i] = [handles[i] EXCEPT ![h] = [obj |-> KeyObject(i), flags |-> KeyFlags,
                                                        key |-> store[KeyObject(i)]]]
            /\ ret'[i].val = h
      BY <2>4 DEF Gets
    <3>2. handles'[i][h].key = store[KeyObject(i)] /\ key'[i] = h
      BY <2>1, <3>1 DEF TypeInv
    <3>3. QED
      BY <1>0, <1>3, <2>1, <2>2, <3>2 DEF OwnsNext
  <2>5. QED
    BY <2>2, <2>3, <2>4
<1>15. CASE AllocateOperation(i) \/ SetOperationKey(i) \/ Cleanup4(i)
  <2>1. UNCHANGED <<store, handles, transient_key, key>>
        /\ pc[i] \in {"allocate_op", "set_key", "cleanup4"}
    BY <1>15 DEF AllocateOperation, SetOperationKey, Cleanup4, teeVars, locals, kept
  <2>2. pc'[i] \in {"set_key", "cleanup4", "cleanup3"}
    BY <1>5, <1>7, <1>15 DEF AllocateOperation, SetOperationKey, Cleanup4
  <2>3. QED
    BY <1>8, <2>1, <2>2
<1>16. CASE Cleanup3(i)
  <2>1. /\ pc[i] = "cleanup3" /\ pc'[i] = "cleanup2"
        /\ Removes(i, key[i]) \/ RemovesNot(i, key[i])
    BY <1>5, <1>16 DEF Cleanup3
  <2>2. handles[i][key[i]].obj = KeyObject(i)
    BY <2>1 DEF Local, Temporaries, OwnObject, Target
  <2>3. UNCHANGED store \/ store' = [store EXCEPT ![KeyObject(i)] = NULL]
    BY <2>1, <2>2 DEF Removes, RemovesNot
  <2>4. \A o \in Objects \ {KeyObject(i)} : store'[o] = store[o]
    BY <2>3 DEF TypeInv
  <2>5. KeysPersist(i)
    BY <2>1, <2>4 DEF KeysPersist
  <2>6. QED
    BY <2>1, <2>5 DEF OwnsNext
<1>17. CASE Cleanup2(i)
  <2>1. UNCHANGED store /\ pc'[i] = "return"
    BY <1>5, <1>17 DEF Cleanup2, teeVars
  <2>2. QED
    BY <1>9, <2>1
<1>18. QED
  BY <1>10, <1>11, <1>12, <1>13, <1>14, <1>15, <1>16, <1>17 DEF ta_storage_cmd_key_in_persistent

\* The commands that are one call of the TEE, or one with an identifier.
LEMMA PlainCommand ==
    ASSUME NEW i \in Instances, Control(i), WithId(i) \/ OneCall(i)
    PROVE  arg[i].cmd \notin {"key_in_persistent", "loop"}
<1>1. WithId(i) => pc[i] \in IdCmds \cup {"with_id", "free_id"}
  BY DEF WithId, CopyId, FreeId, Using, ta_storage_cmd_open, ta_storage_cmd_create,
         ta_storage_cmd_create_overwrite, ta_storage_cmd_rename, IdCmds
<1>2. OneCall(i) => pc[i] \in ObjectCmds \cup EnumCmds
                                 \cup {"alloc_enum", "alloc_obj", "seek_info", "ignore"}
  BY DEF OneCall, ta_storage_cmd_close, ta_storage_cmd_read, ta_storage_cmd_write,
         ta_storage_cmd_trunc, ta_storage_cmd_seek, ta_storage_cmd_unlink, ta_storage_cmd_alloc_enum,
         ta_storage_cmd_free_enum, ta_storage_cmd_reset_enum, ta_storage_cmd_start_enum,
         ta_storage_cmd_next_enum, ta_storage_cmd_restrict_usage, ta_storage_cmd_alloc_obj,
         ta_storage_cmd_free_obj, ta_storage_cmd_reset_obj, ta_storage_cmd_get_obj_info,
         IgnoreResult, ObjectCmds, EnumCmds
<1>3. QED
  BY <1>1, <1>2 DEF Control, Commands, IdCmds, ObjectCmds, EnumCmds

\* The steps of the TA, when the commands of OwnKeys are not used.
LEMMA TaStepOwns ==
    ASSUME FInv, OwnKeys, NEW i \in Instances, TaStep(i), UNCHANGED clientVars
    PROVE  KeysPersist(i) /\ OwnsNext(i)
<1>1. /\ TypeInv /\ Stored /\ Local(i) /\ Local(i)' /\ StepFrame(i)
      /\ arg[i].cmd \notin Forbidden
      /\ arg[i].cmd = "create" => "OVERWRITE" \notin arg[i].flags
  BY TaStepKeeps DEF FInv, OwnKeys, Forbidden
<1>2. CASE ta_storage_cmd_key_in_persistent(i)
  BY <1>1, <1>2, KeyStepOwns
<1>3. CASE WithId(i) \/ OneCall(i)
  <2>1. KeysPersist(i)
    BY <1>1, <1>3, OthersPersist
  <2>2. arg[i].cmd # "key_in_persistent"
    BY <1>1, <1>3, PlainCommand DEF Local
  <2>3. arg'[i] = arg[i] /\ (pc'[i] \in KeyLabels => arg'[i].cmd = "key_in_persistent")
    BY <1>1 DEF StepFrame, Local, Control
  <2>4. pc'[i] \notin Owning
    BY <2>2, <2>3 DEF Owning, KeyAllocated, KeyLabels
  <2>5. QED
    BY <2>1, <2>4 DEF OwnsNext, Owning
<1>4. CASE ta_storage_cmd_loop(i)
  <2>1. pc[i] \in LoopLabels
    BY <1>4 DEF ta_storage_cmd_loop, LoopCreate, LoopDelete, LoopEnd, LoopLabels
  <2>2. QED
    BY <1>1, <2>1 DEF Local, Control, Forbidden
<1>5. QED
  BY <1>2, <1>3, <1>4 DEF TaStep

\* What a client passes when it uses none of the commands of OwnKeys.
LEMMA SendsAllowed ==
    ASSUME OnlyKeyCommands, NEW i \in Instances, Calls(i), ~Open(i), ~Close(i)
    PROVE  \E params : /\ Send(i, params)
                       /\ params.cmd \in Commands \ Forbidden
                       /\ params.cmd = "create" => "OVERWRITE" \notin params.flags
<1>0. Uses[i] \cap Forbidden = {} /\ \A flags \in FlagChoices : "OVERWRITE" \notin flags
  BY DEF OnlyKeyCommands, Forbidden
<1>s. ASSUME NEW sent, Send(i, sent), sent.cmd \in Commands \ Forbidden,
             sent.cmd = "create" => "OVERWRITE" \notin sent.flags
      PROVE  \E params : /\ Send(i, params)
                         /\ params.cmd \in Commands \ Forbidden
                         /\ params.cmd = "create" => "OVERWRITE" \notin params.flags
  BY <1>s
<1>c. {"open", "create", "write", "alloc_obj", "alloc_enum", "next_enum", "start_enum",
       "key_in_persistent"} \subseteq Commands \ Forbidden
  BY DEF Commands, Forbidden, IdCmds, ObjectCmds, EnumCmds
<1>1. CASE fs_open(i)
  <2>1. PICK obj \in Objects, flags \in FlagChoices : Send(i, [Params("open") EXCEPT !.obj = obj, !.flags = flags])
    BY <1>1 DEF fs_open
  <2>2. [Params("open") EXCEPT !.obj = obj, !.flags = flags].cmd \in Commands \ Forbidden
    BY <1>c DEF Params, NoArg
  <2>3. [Params("open") EXCEPT !.obj = obj, !.flags = flags].cmd # "create"
    BY DEF Params, NoArg
  <2>4. QED
    BY <2>1, <2>2, <2>3, <1>s
<1>2. CASE fs_create(i)
  <2>1. PICK obj \in Objects, flags \in FlagChoices, attr \in Persistent(i) \cup {NULL}, data \in Data : Send(i, [Params("create") EXCEPT !.obj = obj, !.flags = flags, !.h = attr, !.data = data])
    BY <1>2 DEF fs_create
  <2>2. [Params("create") EXCEPT !.obj = obj, !.flags = flags, !.h = attr, !.data = data].cmd \in Commands \ Forbidden
    BY <1>c DEF Params, NoArg
  <2>3. "OVERWRITE" \notin [Params("create") EXCEPT !.obj = obj, !.flags = flags, !.h = attr, !.data = data].flags
    BY <1>0 DEF Params, NoArg
  <2>4. QED
    BY <2>1, <2>2, <2>3, <1>s
<1>3. CASE fs_write(i)
  <2>1. PICK h \in With(i, "WRITE"), data \in Data : Send(i, [Params("write") EXCEPT !.h = h, !.data = data])
    BY <1>3 DEF fs_write
  <2>2. [Params("write") EXCEPT !.h = h, !.data = data].cmd \in Commands \ Forbidden
    BY <1>c DEF Params, NoArg
  <2>3. [Params("write") EXCEPT !.h = h, !.data = data].cmd # "create"
    BY DEF Params, NoArg
  <2>4. QED
    BY <2>1, <2>2, <2>3, <1>s
<1>4. CASE fs_alloc_obj(i) \/ fs_alloc_enum(i)
  <2>1. PICK cmd \in {"alloc_obj", "alloc_enum"} : Send(i, Params(cmd))
    BY <1>4 DEF fs_alloc_obj, fs_alloc_enum
  <2>2. Params(cmd).cmd \in Commands \ Forbidden /\ Params(cmd).cmd # "create"
    BY <1>c DEF Params, NoArg
  <2>3. QED
    BY <2>1, <2>2, <1>s
<1>5. CASE fs_next_enum(i)
  <2>1. PICK e \in PassedEnums(i), size \in BOOLEAN : Send(i, [Params("next_enum") EXCEPT !.h = e, !.size = size])
    BY <1>5 DEF fs_next_enum
  <2>2. [Params("next_enum") EXCEPT !.h = e, !.size = size].cmd \in Commands \ Forbidden
    BY <1>c DEF Params, NoArg
  <2>3. [Params("next_enum") EXCEPT !.h = e, !.size = size].cmd # "create"
    BY DEF Params, NoArg
  <2>4. QED
    BY <2>1, <2>2, <2>3, <1>s
<1>6. CASE fs_start_enum(i) \/ InvokeKeyInPersistent(i)
  <2>1. PICK cmd \in {"start_enum", "key_in_persistent"} :
          \E e, s : Send(i, [Params(cmd) EXCEPT !.h = e, !.obj = <<s, NULL>>])
    BY <1>6 DEF fs_start_enum, InvokeKeyInPersistent, OnStorage
  <2>2. PICK e, s : Send(i, [Params(cmd) EXCEPT !.h = e, !.obj = <<s, NULL>>])
    BY <2>1
  <2>3. /\ [Params(cmd) EXCEPT !.h = e, !.obj = <<s, NULL>>].cmd \in Commands \ Forbidden
        /\ [Params(cmd) EXCEPT !.h = e, !.obj = <<s, NULL>>].cmd # "create"
    BY <1>c DEF Params, NoArg
  <2>4. QED
    BY <2>2, <2>3, <1>s
<1>7. ASSUME NEW cmd \in Commands \ Forbidden, cmd # "create", NEW hs, OnHandle(i, cmd, hs)
      PROVE  \E params : /\ Send(i, params)
                         /\ params.cmd \in Commands \ Forbidden
                         /\ params.cmd = "create" => "OVERWRITE" \notin params.flags
  <2>1. PICK h \in hs : Send(i, [Params(cmd) EXCEPT !.h = h])
    BY <1>7 DEF OnHandle
  <2>2. [Params(cmd) EXCEPT !.h = h].cmd = cmd
    BY DEF Params, NoArg
  <2>3. QED
    BY <1>7, <2>1, <2>2
<1>8. CASE \/ fs_close(i) \/ fs_read(i) \/ fs_seek(i) \/ fs_trunc(i) \/ fs_restrict_usage(i)
           \/ fs_get_obj_info(i) \/ fs_free_obj(i) \/ fs_reset_obj(i) \/ fs_free_enum(i)
           \/ fs_reset_enum(i)
  <2>1. PICK cmd \in {"close", "read", "seek", "trunc", "restrict_usage", "get_obj_info", "free_obj",
                      "reset_obj", "free_enum", "reset_enum"} : \E hs : OnHandle(i, cmd, hs)
    BY <1>8 DEF fs_close, fs_read, fs_seek, fs_trunc, fs_restrict_usage, fs_get_obj_info, fs_free_obj,
         fs_reset_obj, fs_free_enum, fs_reset_enum
  <2>2. cmd \in Commands \ Forbidden /\ cmd # "create"
    BY DEF Commands, Forbidden, IdCmds, ObjectCmds, EnumCmds
  <2>3. QED
    BY <1>7, <2>1, <2>2
<1>9. QED
  BY <1>0, <1>1, <1>2, <1>3, <1>4, <1>5, <1>6, <1>8 DEF Calls, Forbidden

\* The steps of a client, when it uses none of the commands of OwnKeys.
LEMMA ClientStepOwns ==
    ASSUME FInv, OwnKeys, OnlyKeyCommands, NEW i \in Instances, Calls(i) \/ Returned(i)
    PROVE  /\ ClientFrame(i) /\ pc'[i] \notin Owning
           /\ arg'[i].cmd \notin Forbidden
           /\ arg'[i].cmd = "create" => "OVERWRITE" \notin arg'[i].flags
<1>1. TypeInv /\ Local(i)
  BY DEF FInv
<1>2. ClientFrame(i)
  BY <1>1, FunctionKeeps, SessionKeeps, ReturnedKeeps DEF Sent
<1>3. Commands \cap Owning = {} /\ "return" \notin Owning /\ "idle" \notin Owning
  BY DEF Commands, IdCmds, ObjectCmds, EnumCmds, Owning, KeyAllocated
<1>4. CASE Open(i) \/ Close(i)
  <2>1. pc' = pc /\ arg' = arg /\ hpc[i] = "idle"
    BY <1>1, <1>4 DEF Open, Close, openSession, closeSession, callVars, Idle, Local, Control
  <2>2. pc[i] = "idle"
    BY <1>1, <2>1 DEF Local, Control
  <2>3. QED
    BY <1>2, <1>3, <2>1, <2>2 DEF OwnKeys, Forbidden
<1>5. CASE Calls(i) /\ ~Open(i) /\ ~Close(i)
  <2>1. PICK params : /\ Send(i, params)
                      /\ params.cmd \in Commands \ Forbidden
                      /\ params.cmd = "create" => "OVERWRITE" \notin params.flags
    BY <1>5, SendsAllowed
  <2>2. TEEC_InvokeCommand(i, params)
    BY <2>1 DEF Send, Call
  <2>3. arg' = [arg EXCEPT ![i] = params] /\ (Goto(i, params.cmd) \/ Goto(i, "return"))
    BY <2>2 DEF TEEC_InvokeCommand, TA_InvokeCommandEntryPoint
  <2>4. arg'[i] = params /\ pc'[i] \in {params.cmd, "return"}
    BY <1>1, <2>3 DEF Goto, TypeInv
  <2>5. QED
    BY <1>2, <1>3, <2>1, <2>4
<1>6. CASE Returned(i)
  <2>1. arg' = [arg EXCEPT ![i] = NoArg] /\ Goto(i, "idle")
    BY <1>6 DEF Returned, CallReturns, Back
  <2>2. arg'[i] = NoArg /\ pc'[i] = "idle"
    BY <1>1, <2>1 DEF Goto, TypeInv
  <2>3. QED
    BY <1>2, <1>3, <2>2 DEF NoArg, Forbidden
<1>7. QED
  BY <1>4, <1>5, <1>6

\* OwnKeys holds as long as only key_in_persistent deletes objects.
LEMMA OwnKeysStep ==
    ASSUME FInv, OwnKeys, OnlyKeyCommands, NEW i \in Instances, Calls(i) \/ Progress(i)
    PROVE  OwnKeys'
<1>0. TypeInv /\ Local(i) /\ \A j \in Instances \ {i} : Mine(j)' = Mine(j)
  <2>1. TypeInv /\ Local(i)
    BY DEF FInv
  <2>2. CASE TaStep(i) /\ UNCHANGED clientVars
    BY <2>1, <2>2, TaStepKeeps, StepFrameKeeps DEF FInv
  <2>3. CASE Calls(i) \/ Returned(i)
    BY <2>1, <2>3, FunctionKeeps, SessionKeeps, ReturnedKeeps, ClientFrameKeeps DEF Sent
  <2>4. QED
    BY <2>1, <2>2, <2>3 DEF Progress
<1>1. \A j \in Instances \ {i} : /\ pc'[j] = pc[j] /\ arg'[j] = arg[j] /\ key'[j] = key[j]
                                 /\ transient_key'[j] = transient_key[j]
                                 /\ handles'[j] = handles[j]
                                 /\ KeyObject(j)' = KeyObject(j)
  BY <1>0 DEF Mine, KeyObject
<1>2. /\ KeysPersist(i) /\ OwnsNext(i)
      /\ pc'[i] \in Owning => KeyObject(i)' = KeyObject(i)
      /\ arg'[i].cmd \notin Forbidden
      /\ arg'[i].cmd = "create" => "OVERWRITE" \notin arg'[i].flags
  <2>1. CASE TaStep(i) /\ UNCHANGED clientVars
    <3>1. arg' = arg
      BY <1>0, <2>1, TaStepKeeps DEF FInv, StepFrame
    <3>2. QED
      BY <2>1, <3>1, TaStepOwns DEF OwnKeys, Forbidden, KeyObject
  <2>2. CASE Calls(i) \/ Returned(i)
    <3>1. /\ ClientFrame(i) /\ pc'[i] \notin Owning
          /\ arg'[i].cmd \notin Forbidden
          /\ arg'[i].cmd = "create" => "OVERWRITE" \notin arg'[i].flags
      BY <2>2, ClientStepOwns
    <3>2. KeysPersist(i) /\ OwnsNext(i)
      BY <3>1 DEF ClientFrame, KeysPersist, OwnsNext, Owning
    <3>3. QED
      BY <3>1, <3>2
  <2>3. QED
    BY <2>1, <2>2 DEF Progress
<1>3. \A j \in Instances : pc[j] \in Owning => KeyObject(j) \in Objects
  <2>1. \A j \in Instances : pc[j] \in Owning => arg[j].obj \in Storages \X {NULL}
    BY DEF FInv, Local, Control, Fits, Owning, KeyAllocated, KeyLabels
  <2>2. QED
    BY <2>1, StorageTaAssumption DEF KeyObject, Objects
<1>4. \A j \in Instances : /\ arg'[j].cmd \notin Forbidden
                           /\ arg'[j].cmd = "create" => "OVERWRITE" \notin arg'[j].flags
  BY <1>1, <1>2 DEF OwnKeys, Forbidden
<1>5. ASSUME NEW j \in Instances, pc'[j] \in Owning
      PROVE  store'[KeyObject(j)'] # NULL /\ store'[KeyObject(j)'].attr = transient_key'[j]
  <2>1. CASE j = i
    BY <1>2, <1>5, <2>1 DEF OwnsNext
  <2>2. CASE j # i
    <3>1. pc[j] \in Owning /\ KeyObject(j)' = KeyObject(j) /\ transient_key'[j] = transient_key[j]
      BY <1>1, <1>5, <2>2
    <3>2. store[KeyObject(j)] # NULL /\ store[KeyObject(j)].attr = transient_key[j]
      BY <3>1 DEF OwnKeys
    <3>3. ~(pc[i] = "cleanup3" /\ KeyObject(j) = KeyObject(i))
      BY <2>2, <3>1 DEF OwnKeys, Owning, KeyAllocated
    <3>4. QED
      BY <1>2, <1>3, <3>1, <3>2, <3>3 DEF KeysPersist
  <2>3. QED
    BY <2>1, <2>2
<1>6. ASSUME NEW j \in Instances, NEW k \in Instances, pc'[j] \in Owning, pc'[k] \in Owning, j # k
      PROVE  KeyObject(j)' # KeyObject(k)'
  <2>1. ASSUME NEW m \in Instances, m # i, pc'[m] \in Owning, pc'[i] \in Owning
        PROVE  KeyObject(m)' # KeyObject(i)'
    <3>1. pc[m] \in Owning /\ KeyObject(m)' = KeyObject(m) /\ KeyObject(i)' = KeyObject(i)
      BY <1>1, <1>2, <2>1
    <3>2. store[KeyObject(m)] # NULL
      BY <3>1 DEF OwnKeys
    <3>3. pc[i] \in Owning \/ store[KeyObject(i)] = NULL
      BY <1>2, <2>1 DEF OwnsNext
    <3>4. QED
      BY <2>1, <3>1, <3>2, <3>3 DEF OwnKeys
  <2>2. CASE j # i /\ k # i
    BY <1>1, <1>6, <2>2 DEF OwnKeys
  <2>3. QED
    BY <1>6, <2>1, <2>2
<1>7. ASSUME NEW j \in Instances, pc'[j] \in KeyAllocated
      PROVE  handles'[j][key'[j]].key.attr = transient_key'[j]
  <2>1. CASE j = i
    BY <1>2, <1>7, <2>1 DEF OwnsNext
  <2>2. CASE j # i
    BY <1>1, <1>7, <2>2 DEF OwnKeys
  <2>3. QED
    BY <2>1, <2>2
<1>8. QED
  BY <1>4, <1>5, <1>6, <1>7 DEF OwnKeys, Forbidden

\* As long as no session renames, replaces or deletes objects itself, the key that
\* key_in_persistent deletes is the one it generated, although it closes the object in
\* between and other sessions open it or run the same command.
THEOREM FsOwnKeyDeleted ==
    ASSUME OnlyKeyCommands
    PROVE  Spec => []OwnKeyDeleted
<1>1. Init => OwnKeys
  BY DEF Init, TaInit, InstanceInit, NoArg, OwnKeys, Owning, KeyAllocated
<1>2. FInv /\ OwnKeys /\ [Next]_vars => OwnKeys'
  <2> SUFFICES ASSUME FInv, OwnKeys, [Next]_vars PROVE OwnKeys'
    OBVIOUS
  <2>1. CASE Next
    BY <2>1, OwnKeysStep DEF Next
  <2>2. CASE UNCHANGED vars
    BY <2>2 DEF vars, teeVars, callVars, locals, kept, OwnKeys, KeyObject
  <2>3. QED
    BY <2>1, <2>2
<1>3. OwnKeys => OwnKeyDeleted
  BY DEF OwnKeys, OwnKeyDeleted, KeyAllocated
<1>4. QED
  BY <1>1, <1>2, <1>3, FsInvariant, PTL DEF Spec

-----------------------------------------------------------------------------
(***************************************************************************)
(* The objects of loop.                                                    *)
(***************************************************************************)

\* The steps of loop come past one object after the other.
LEMMA LoopStepClean ==
    ASSUME TypeInv, Stored, NEW i \in Instances, Local(i), CleanAt(i), ta_storage_cmd_loop(i)
    PROVE  CleanAt(i)'
<1>1. /\ pc[i] \in LoopLabels /\ arg[i].cmd = "loop" /\ arg' = arg /\ n[i] \in 0..LoopCount
      /\ n' \in [Instances -> Int]
      /\ arg[i].obj[1] \in Storages
  <2>1. pc[i] \in LoopLabels /\ arg' = arg
    BY DEF ta_storage_cmd_loop, LoopCreate, LoopDelete, LoopEnd, LoopLabels
  <2>2. /\ arg[i].cmd = "loop" /\ n[i] \in 0..LoopCount /\ n \in [Instances -> 0..LoopCount]
    BY <2>1 DEF Local, Control, TypeInv
  <2>3. n' \in [Instances -> Int]
    BY <2>2, StorageTaAssumption DEF ta_storage_cmd_loop, LoopCreate, LoopDelete, LoopEnd
  <2>4. arg[i].obj[1] \in Storages
    BY <2>2 DEF Local, Control, Fits
  <2>5. QED
    BY <2>1, <2>2, <2>3, <2>4
<1>2. \A m \in 0..(n[i] - 1) : <<arg[i].obj[1], m>> \notin Present
  BY <1>1 DEF CleanAt
<1> DEFINE at == <<arg[i].obj[1], n[i]>>
<1>3. ASSUME NEW next, NEW exit, After(i, next, exit)
      PROVE  /\ pc'[i] \in {next, "panic", exit}
             /\ ret'[i].res \notin {"SUCCESS", "TARGET_DEAD"} => pc'[i] = exit
             /\ ret'[i].res = "TARGET_DEAD" => pc'[i] = "panic"
             /\ ret'[i].res = "SUCCESS" => pc'[i] = next
  BY <1>3 DEF After, Goto, TypeInv
<1>4. ASSUME \A o \in Objects \ {at} : store'[o] = store[o]
      PROVE  \A m \in 0..(n[i] - 1) : <<arg[i].obj[1], m>> \notin Present'
  <2> SUFFICES ASSUME NEW m \in 0..(n[i] - 1), <<arg[i].obj[1], m>> \in Present'
               PROVE  FALSE
    OBVIOUS
  <2>1. <<arg[i].obj[1], m>> # at
    BY <1>1
  <2>2. <<arg[i].obj[1], m>> \in Objects /\ store'[<<arg[i].obj[1], m>>] # NULL
    BY DEF Present
  <2>3. store[<<arg[i].obj[1], m>>] # NULL
    BY <1>4, <2>1, <2>2
  <2>4. QED
    BY <1>2, <2>2, <2>3 DEF Present
<1>5. CASE LoopCreate(i)
  <2>1. /\ n[i] < LoopCount /\ After(i, "loop_delete", "return")
        /\ TEE_CreatePersistentObject(i, at, LoopFlags, Content(NULL, NULL))
        /\ n' = [n EXCEPT ![i] = IF ret'[i].res = "SUCCESS" THEN @ ELSE 0]
    BY <1>5 DEF LoopCreate
  <2>2. /\ at \in Objects /\ LoopFlags \in SUBSET StorageFlags /\ Content(NULL, NULL) \in Contents
    <3>1. n[i] \in 0..(LoopCount - 1)
      BY <1>1, <2>1, StorageTaAssumption
    <3>2. QED
      BY <1>1, <3>1, StorageTaAssumption DEF Objects, LoopFlags, StorageFlags, Content, Contents
  <2>3. \/ Refused(i) /\ UNCHANGED store
        \/ /\ ret'[i].res = "SUCCESS" /\ store' = [store EXCEPT ![at] = Content(NULL, NULL)]
    <3> HIDE DEF at
    <3>1. \/ Refused(i) /\ UNCHANGED store
          \/ /\ Gets(i, at, LoopFlags, Content(NULL, NULL))
             /\ store' = [store EXCEPT ![at] = Content(NULL, NULL)]
      BY <2>1, <2>2, CreateApi
    <3>2. QED
      BY <3>1 DEF Gets
  <2>4. CASE Refused(i)
    <3>1. pc'[i] = "return" /\ ret'[i].res # "SUCCESS"
      BY <1>3, <2>1, <2>4 DEF Refused
    <3>2. QED
      BY <3>1 DEF CleanAt, LoopLabels
  <2>5. CASE /\ ret'[i].res = "SUCCESS" /\ store' = [store EXCEPT ![at] = Content(NULL, NULL)]
    <3>1. pc'[i] = "loop_delete" /\ n'[i] = n[i]
      BY <1>1, <1>3, <2>1, <2>5 DEF TypeInv
    <3>2. \A m \in 0..(n[i] - 1) : <<arg[i].obj[1], m>> \notin Present'
      <4> HIDE DEF at
      <4>1. QED
        BY <1>4, <2>5 DEF TypeInv
    <3>3. QED
      BY <1>1, <3>1, <3>2 DEF CleanAt
  <2>6. QED
    BY <2>3, <2>4, <2>5
<1>6. CASE LoopDelete(i)
  <2>1. /\ TEE_CloseAndDeletePersistentObject1(i, key[i]) /\ After(i, "loop", "return")
        /\ n' = [n EXCEPT ![i] = IF ret'[i].res = "SUCCESS" THEN @ + 1 ELSE 0]
        /\ pc[i] = "loop_delete"
    BY <1>6 DEF LoopDelete
  <2>2. handles[i][key[i]].obj = at
    BY <2>1 DEF Local, Temporaries, OwnObject, Target
  <2>3. \/ ret'[i].res = "TARGET_DEAD" \/ ret'[i].res = "STORAGE_NOT_AVAILABLE"
        \/ ret'[i].res = "SUCCESS" /\ store' = [store EXCEPT ![at] = NULL]
    BY <2>1, <2>2 DEF TEE_CloseAndDeletePersistentObject1, Panics, Returns, Removes, TypeInv
  <2>4. CASE ret'[i].res \in {"TARGET_DEAD", "STORAGE_NOT_AVAILABLE"}
    <3>1. pc'[i] \in {"panic", "return"}
      BY <1>3, <2>1, <2>4
    <3>2. QED
      BY <2>4, <3>1 DEF CleanAt, LoopLabels
  <2>5. CASE ret'[i].res = "SUCCESS" /\ store' = [store EXCEPT ![at] = NULL]
    <3>1. pc'[i] = "loop" /\ n'[i] = n[i] + 1
      BY <1>1, <1>3, <2>1, <2>5 DEF TypeInv
    <3>2. \A m \in 0..(n[i] - 1) : <<arg[i].obj[1], m>> \notin Present'
      <4> HIDE DEF at
      <4>1. QED
        BY <1>4, <2>5 DEF TypeInv
    <3>3. at \notin Present'
      <4> HIDE DEF at
      <4>1. QED
        BY <2>5 DEF Present, TypeInv
    <3>4. \A m \in 0..(n'[i] - 1) : m \in 0..(n[i] - 1) \/ m = n[i]
      BY <1>1, <3>1, StorageTaAssumption
    <3>5. \A m \in 0..(n'[i] - 1) : <<arg[i].obj[1], m>> \notin Present'
      BY <3>2, <3>3, <3>4
    <3>6. QED
      BY <1>1, <3>1, <3>5 DEF CleanAt
  <2>6. QED
    BY <2>3, <2>4, <2>5
<1>7. CASE LoopEnd(i)
  <2>1. n[i] = LoopCount /\ pc'[i] = "return" /\ UNCHANGED store
    BY <1>7 DEF LoopEnd, Goto, TypeInv
  <2>2. Present' = Present
    BY <2>1 DEF Present
  <2>3. QED
    BY <1>1, <1>2, <2>1, <2>2 DEF CleanAt, LoopLabels
<1>8. QED
  BY <1>5, <1>6, <1>7 DEF ta_storage_cmd_loop

\* Every step of the only session keeps CleanAt.
LEMMA CleanStep ==
    ASSUME FInv, NEW i \in Instances, CleanAt(i), Calls(i) \/ Progress(i)
    PROVE  CleanAt(i)'
<1>1. TypeInv /\ Stored /\ Local(i) /\ Local(i)'
  BY SessionStepKeeps DEF FInv
<1>2. CASE TaStep(i) /\ UNCHANGED clientVars
  <2>1. CASE ta_storage_cmd_loop(i)
    BY <1>1, <2>1, LoopStepClean
  <2>2. CASE ~ta_storage_cmd_loop(i)
    <3>1. arg[i].cmd # "loop"
      <4>1. CASE WithId(i) \/ OneCall(i)
        BY <1>1, <4>1, PlainCommand DEF Local
      <4>2. CASE ta_storage_cmd_key_in_persistent(i)
        <5>1. pc[i] \in KeyLabels
          BY <4>2 DEF ta_storage_cmd_key_in_persistent, KeyAllocate, KeyGenerate, KeyCreate, check_obj,
             KeyClose, KeyOpen, AllocateOperation, SetOperationKey, Cleanup4, Cleanup3, Cleanup2,
             KeyLabels
        <5>2. QED
          BY <1>1, <5>1 DEF Local, Control
      <4>3. QED
        BY <1>2, <2>2, <4>1, <4>2 DEF TaStep
    <3>2. arg'[i] = arg[i]
      BY <1>1, <1>2, TaStepKeeps DEF StepFrame
    <3>3. pc'[i] \notin LoopLabels
      BY <1>1, <3>1, <3>2 DEF Local, Control
    <3>4. QED
      BY <3>1, <3>2, <3>3 DEF CleanAt
  <2>3. QED
    BY <2>1, <2>2
<1>3. CASE Calls(i) \/ Returned(i)
  <2>1. n'[i] = 0
    <3>1. pc[i] \in {"idle", "return", "panic"}
      <4>1. CASE Calls(i)
        <5>1. hpc[i] = "idle" \/ sess[i] = "closed"
          BY <4>1 DEF Calls, Open, Close, openSession, closeSession, Idle, Send, Call,
             fs_open, fs_create, fs_create_overwrite, fs_rename, fs_write, fs_close, fs_read, fs_seek,
             fs_trunc, fs_unlink, fs_restrict_usage, fs_get_obj_info, fs_alloc_obj, fs_free_obj,
             fs_reset_obj, fs_alloc_enum, fs_free_enum, fs_reset_enum, fs_next_enum, fs_start_enum,
             InvokeKeyInPersistent, InvokeLoop, OnStorage, OnHandle
        <5>2. QED
          BY <1>1, <5>1 DEF Local, Control
      <4>2. CASE Returned(i)
        BY <4>2 DEF Returned, CallReturns, Answered
      <4>3. QED
        BY <1>3, <4>1, <4>2
    <3>2. n[i] = 0
      BY <1>1, <3>1 DEF Local, Temporaries, LoopLabels
    <3>3. UNCHANGED n
      BY <1>1, <1>3, FunctionKeeps, SessionKeeps, ReturnedKeeps DEF Sent, ClientFrame, kept
    <3>4. QED
      BY <3>2, <3>3
  <2>2. pc'[i] = "return" => ret'[i].res # "SUCCESS"
    <3>1. CASE Calls(i) /\ ~Open(i) /\ ~Close(i)
      BY <1>1, <3>1, FunctionKeeps DEF Sent
    <3>2. CASE Open(i) \/ Close(i)
      <4>1. \/ pc' = pc /\ hpc[i] = "idle"
            \/ sess[i] = "closed" /\ pc' = pc
        BY <3>2 DEF Open, Close, openSession, closeSession, callVars, Idle
      <4>2. QED
        BY <1>1, <4>1 DEF Local, Control
    <3>3. CASE Returned(i)
      BY <1>1, <3>3, BackFrame DEF Returned, CallReturns
    <3>4. QED
      BY <1>3, <3>1, <3>2, <3>3
  <2>3. QED
    BY <2>1, <2>2 DEF CleanAt
<1>4. QED
  BY <1>2, <1>3 DEF Progress

\* With a single session, a loop that succeeds leaves none of its objects, whatever was
\* stored before and whatever other command the session ran.
THEOREM FsLoopLeavesNothing ==
    ASSUME IsFiniteSet(Instances)
    PROVE  Spec => []LoopLeavesNothing
<1> DEFINE Single == Cardinality(Instances) = 1
           Clean == Single => \A i \in Instances : CleanAt(i)
<1>1. Init => Clean
  BY DEF Init, TaInit, InstanceInit, CleanAt, LoopLabels
<1>2. FInv /\ Clean /\ [Next]_vars => Clean'
  <2> SUFFICES ASSUME FInv, Clean, [Next]_vars, Single, NEW i \in Instances
               PROVE  CleanAt(i)'
    OBVIOUS
  <2>1. PICK x : Instances = {x}
    BY FS_Singleton
  <2>2. CASE Next
    BY <2>1, <2>2, CleanStep DEF Next
  <2>3. CASE UNCHANGED vars
    <3>1. UNCHANGED <<pc, arg, ret, n, store>>
      BY <2>3 DEF vars, teeVars, callVars, locals, kept
    <3>2. QED
      BY <3>1 DEF CleanAt, Present
  <2>4. QED
    BY <2>2, <2>3
<1>3. Clean => LoopLeavesNothing
  BY DEF CleanAt, LoopLeavesNothing
<1> HIDE DEF Clean
<1>4. QED
  BY <1>1, <1>2, <1>3, FsInvariant, PTL DEF Spec
=============================================================================
