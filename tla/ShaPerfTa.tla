----------------------------- MODULE ShaPerfTa -----------------------------
(***************************************************************************)
(* The SHA performance TA, ta/sha_perf/ta_sha_perf.c.  Like the AES        *)
(* performance TA it keeps the handle of an operation it has freed.        *)
(***************************************************************************)
EXTENDS TeeCrypto

CONSTANTS
    MaxDigests,         \* bound on params[2].value.a
    Sizes,              \* sizes of the input, and offsets into it
    SizeMod             \* 2^32: the range of uint32_t

ASSUME ShaAssumption ==
    /\ MaxDigests \in Nat
    /\ SizeMod \in Nat \ {0}
    /\ Sizes \subseteq 0..SizeMod - 1

VARIABLES
    digest_op,
    digestPrepared,     \* history: the last prepare succeeded
    digestFailed,       \* history: some prepare of this session failed
    digestAbused        \* history: data was digested without a prepare, or outside the buffer

shaVars == <<digest_op, digestPrepared, digestFailed, digestAbused>>

ShaInit ==
    /\ digest_op = TEE_HANDLE_NULL
    /\ digestPrepared = FALSE /\ digestFailed = FALSE /\ digestAbused = FALSE

FreedDigest == digest_op # TEE_HANDLE_NULL /\ digest_op \notin DOMAIN ops

UnknownDigest ==
    /\ Answer("BAD_PARAMETERS", 0)
    /\ UNCHANGED <<ops, objs, alive, ret, shaVars>>

\* TEE_AllocateOperation after left was freed; the handle is written on success only.
AllocateDigest(left) ==
    \/ \E op \in OpAddrs \ DOMAIN left :
        /\ ops' = With(left, op, NewOperation("digest"))
        /\ digest_op' = op
        /\ ret' = "SUCCESS"
    \/ /\ ops' = left
       /\ UNCHANGED digest_op
       /\ ret' \in {"OUT_OF_MEMORY", "NOT_SUPPORTED"}

\* Freeing a stale handle panics or goes unnoticed.
cmd_prepare_op ==
    /\ \/ FreedDigest /\ TEE_Panic /\ UNCHANGED digest_op
       \/ AllocateDigest(Without(ops, {digest_op})) /\ UNCHANGED <<objs, alive>>
    /\ Answer(ret', 0)
    /\ digestPrepared' = (ret' = "SUCCESS")
    /\ digestFailed' = (digestFailed \/ ret' # "SUCCESS")
    /\ UNCHANGED digestAbused

\* Mutant: the offset is not taken off the size.
InputLeftWhole(size, offset) == size

\* insz: wraps when the offset lies behind the input.
InputLeft(size, offset) == (size + SizeMod - offset) % SizeMod

\* Every digest reads [offset, offset + insz).
cmd_process_digest(rounds, size, offset) ==
    LET strays == offset + InputLeft(size, offset) > size
        usable == InState(digest_op, "digest", {"ready", "active"})
    IN
    /\ digestAbused' = (digestAbused \/ (rounds > 0 /\ (~digestPrepared \/ offset > size)))
    /\ \/ /\ rounds > 0 /\ (~usable \/ strays)
          /\ TEE_Panic
          /\ Answer("TARGET_DEAD", 0)
       \/ /\ rounds = 0 \/ usable \/ FreedDigest
          /\ ret' \in IF rounds = 0 THEN {"SUCCESS"} ELSE {"SUCCESS", "SHORT_BUFFER"}
          /\ Answer(ret', 0)
          /\ UNCHANGED <<ops, objs, alive>>
    /\ UNCHANGED <<digest_op, digestPrepared, digestFailed>>

ShaCommand ==
    \/ UnknownDigest
    \/ cmd_prepare_op
    \/ \E rounds \in 0..MaxDigests, size, offset \in Sizes : cmd_process_digest(rounds, size, offset)
=============================================================================
