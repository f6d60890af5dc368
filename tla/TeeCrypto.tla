----------------------------- MODULE TeeCrypto -----------------------------
(***************************************************************************)
(* The cryptographic operations and transient objects of the TEE internal  *)
(* API, as one TA instance sees them through its calls.  Algorithms are    *)
(* left out; what counts is which handles are live, which operations have  *)
(* a key and are initialised, and which objects have attributes.           *)
(***************************************************************************)
EXTENDS Naturals, Sequences, FiniteSets

CONSTANTS
    OpAddrs,            \* addresses the heap of the instance gives to operations
    ObjAddrs            \* addresses it gives to transient objects

VARIABLES
    ops,                \* live operation -> [class, state]
    objs,               \* live object -> its contents
    alive,              \* FALSE after a panic
    ret,                \* result of the last call that can fail
    reply               \* [res, a]: what the TA answers to the client's last command

cryptoVars == <<ops, objs, alive, ret>>

TEE_HANDLE_NULL == 0
\* What an object holds: nothing, the attributes given, or a key made by the TEE.
Contents(attrs) == [filled |-> TRUE, attrs |-> attrs]
Generated == Contents(<< >>)
Empty == [filled |-> FALSE, attrs |-> << >>]

Classes == {"digest", "cipher", "mac", "ae", "asymmetric", "derive"}
\* "new": has no key yet.  "ready": may be initialised.  "active": takes data.
OpStates == {"new", "ready", "active"}

ASSUME TeeCryptoAssumption ==
    /\ OpAddrs \cup ObjAddrs \subseteq Nat \ {TEE_HANDLE_NULL}
    /\ IsFiniteSet(OpAddrs \cup ObjAddrs)

NoReply == [res |-> "SUCCESS", a |-> 0]

CryptoInit ==
    /\ ops = << >> /\ objs = << >> /\ alive = TRUE /\ ret = "SUCCESS"
    /\ reply = NoReply

Answer(res, a) == reply' = [res |-> res, a |-> a]

With(f, x, v) == [y \in DOMAIN f \cup {x} |-> IF y = x THEN v ELSE f[y]]
Without(f, S) == [y \in DOMAIN f \ S |-> f[y]]

NewOps == OpAddrs \ DOMAIN ops
NewObjs == ObjAddrs \ DOMAIN objs

\* The instance is gone, and all it had.
TEE_Panic == ops' = << >> /\ objs' = << >> /\ alive' = FALSE /\ ret' = "TARGET_DEAD"

\* A function whose arguments must satisfy pre and that may report one of errors.
Checked(pre, effect, errors) ==
    \/ pre /\ effect /\ ret' = "SUCCESS" /\ UNCHANGED alive
    \/ pre /\ ret' \in errors /\ UNCHANGED <<ops, objs, alive>>
    \/ ~pre /\ TEE_Panic

InState(op, class, states) ==
    op \in DOMAIN ops /\ ops[op].class = class /\ ops[op].state \in states

SetState(op, s) == ops' = [ops EXCEPT ![op].state = s] /\ UNCHANGED objs

-----------------------------------------------------------------------------
\* A digest needs no key.
NewOperation(class) == [class |-> class, state |-> IF class = "digest" THEN "ready" ELSE "new"]

\* The handle is written on success only.
TEE_AllocateOperation(class, op) ==
    \/ /\ op \in NewOps
       /\ ops' = With(ops, op, NewOperation(class))
       /\ ret' = "SUCCESS"
       /\ UNCHANGED <<objs, alive>>
    \/ /\ op = TEE_HANDLE_NULL
       /\ ret' \in {"OUT_OF_MEMORY", "NOT_SUPPORTED"}
       /\ UNCHANGED <<ops, objs, alive>>

TEE_FreeOperation(op) ==
    Checked(op \in DOMAIN ops, ops' = Without(ops, {op}) /\ UNCHANGED objs, {})

TEE_GetOperationInfo(op) == Checked(op \in DOMAIN ops, UNCHANGED <<ops, objs>>, {})

TEE_ResetOperation(op) ==
    Checked(op \in DOMAIN ops /\ ops[op].state # "new", SetState(op, "ready"), {})

\* Both operations are of one kind; the copy continues where the original is.
TEE_CopyOperation(dst, src) ==
    Checked(/\ {dst, src} \subseteq DOMAIN ops
            /\ ops[dst].class = ops[src].class,
            ops' = [ops EXCEPT ![dst] = ops[src]] /\ UNCHANGED objs, {})

\* TEE_SetOperationKey and TEE_SetOperationKey2.
TEE_SetOperationKeys(op, keys) ==
    Checked(/\ op \in DOMAIN ops
            /\ ops[op].class # "digest" /\ ops[op].state # "active"
            /\ \A k \in keys : k \in DOMAIN objs /\ objs[k] # Empty,
            SetState(op, "ready"), {"CORRUPT_OBJECT"})

\* TEE_CipherInit and TEE_MACInit do not fail, TEE_AEInit may.
StartOperation(op, class) ==
    Checked(InState(op, class, {"ready", "active"}), SetState(op, "active"),
            IF class = "ae" THEN {"NOT_SUPPORTED"} ELSE {})

\* The states in which an operation takes data.
Feedable(class) == IF class = "digest" THEN {"ready", "active"} ELSE {"active"}

\* TEE_DigestUpdate and the other functions that take data.
FeedOperation(op, class, errors) ==
    Checked(InState(op, class, Feedable(class)), SetState(op, "active"), errors)

\* TEE_DigestDoFinal and the other functions that end an operation.
FinishOperation(op, class, errors) ==
    Checked(InState(op, class, Feedable(class)), SetState(op, "ready"), errors)

\* The asymmetric functions take a key and keep no state.
UseAsymmetric(op, errors) ==
    Checked(InState(op, "asymmetric", {"ready"}), UNCHANGED <<ops, objs>>, errors)

TEE_AllocateTransientObject(o) ==
    \/ /\ o \in NewObjs
       /\ objs' = With(objs, o, Empty)
       /\ ret' = "SUCCESS"
       /\ UNCHANGED <<ops, alive>>
    \/ /\ o = TEE_HANDLE_NULL
       /\ ret' \in {"OUT_OF_MEMORY", "NOT_SUPPORTED"}
       /\ UNCHANGED <<ops, objs, alive>>

\* The null handle is accepted here and below.
TEE_FreeTransientObject(o) ==
    Checked(o = TEE_HANDLE_NULL \/ o \in DOMAIN objs,
            objs' = Without(objs, {o}) /\ UNCHANGED ops, {})

TEE_ResetTransientObject(o) ==
    Checked(o = TEE_HANDLE_NULL \/ o \in DOMAIN objs,
            /\ objs' = [x \in DOMAIN objs |-> IF x = o THEN Empty ELSE objs[x]]
            /\ UNCHANGED ops, {})

\* TEE_PopulateTransientObject, TEE_GenerateKey and TEE_CopyObjectAttributes1 fill
\* an empty object.
FillObject(o, contents) ==
    Checked(o \in DOMAIN objs /\ objs[o] = Empty,
            objs' = [objs EXCEPT ![o] = contents] /\ UNCHANGED ops, {"BAD_PARAMETERS"})

\* TEE_DeriveKey has no result: it panics when it cannot derive.
TEE_DeriveKey(op, o) ==
    Checked(InState(op, "derive", {"ready"}) /\ o \in DOMAIN objs /\ objs[o] = Empty,
            objs' = [objs EXCEPT ![o] = Generated] /\ UNCHANGED ops, {})

\* TEE_GetObjectBufferAttribute and TEE_GetObjectValueAttribute.
ReadAttribute(o) ==
    Checked(o \in DOMAIN objs /\ objs[o] # Empty, UNCHANGED <<ops, objs>>, {"ITEM_NOT_FOUND"})
=============================================================================
