----------------------------- MODULE AesPerfTa -----------------------------
(***************************************************************************)
(* The AES performance TA, ta/aes_perf/ta_aes_perf.c.  Its operation       *)
(* handle is a static variable that is never reset: after a prepare that   *)
(* could not allocate an operation it names the freed one of the prepare   *)
(* before.  use_iv follows algo and is left out.                           *)
(***************************************************************************)
EXTENDS TeeCrypto

CONSTANTS
    MaxRounds,          \* bound on params[2].value.a
    DataSizes,          \* sizes of buffers and units, in units of any size
    Block               \* size of a block of the cipher in these units

ASSUME AesAssumption == MaxRounds \in Nat /\ DataSizes \subseteq Nat /\ Block \in Nat \ {0}

VARIABLES
    crypto_op,
    algo,
    heldBack,           \* external: the operation may hold back data of earlier updates
    prepared,           \* history: the last prepare succeeded
    failed,             \* history: some prepare of this session failed half-way
    abused              \* history: data was processed without a prepare, or carelessly

aesVars == <<crypto_op, algo, heldBack, prepared, failed, abused>>

Algos == {"ECB", "CBC", "CTR", "XTS", "GCM"}
ClassOf(alg) == IF alg = "GCM" THEN "ae" ELSE "cipher"

AesInit ==
    /\ crypto_op = TEE_HANDLE_NULL
    /\ algo = "ECB"
    /\ heldBack = FALSE /\ prepared = FALSE /\ failed = FALSE /\ abused = FALSE

\* The handle of an operation that was freed.
Stale(op) == op # TEE_HANDLE_NULL /\ op \notin DOMAIN ops

\* cmd_clean_res: the operation is freed, its handle is kept.  Freeing a stale
\* handle is undefined: it panics, or goes unnoticed.
CleanPanics == Stale(crypto_op) /\ TEE_Panic
Cleaned == Without(ops, {crypto_op})

-----------------------------------------------------------------------------
\* The calls of a prepare that can fail.
FailurePoints(alg) ==
    {"operation", "key", "populate", "set_key", "none"}
        \cup (IF alg = "XTS" THEN {"key2", "populate2"} ELSE {})
        \cup (IF alg = "GCM" THEN {"init"} ELSE {})

\* How many key objects a prepare leaves behind: a failing call returns at once.
KeysKept(alg, point) ==
    CASE point \in {"populate", "key2"} -> 1
      [] point = "populate2" -> 2
      [] point = "set_key" -> IF alg = "XTS" THEN 2 ELSE 1
      [] OTHER -> 0

StateReached(point) ==
    CASE point = "none" -> "active"
      [] point = "init" -> "ready"
      [] OTHER -> "new"

\* Mutant: the old operation is freed before the algorithm is looked at.
UnknownAlgorithmCleaning ==
    /\ Answer("BAD_PARAMETERS", 0)
    /\ ops' = Cleaned
    /\ UNCHANGED <<objs, alive, ret, aesVars>>

UnknownAlgorithm ==
    /\ Answer("BAD_PARAMETERS", 0)
    /\ UNCHANGED <<ops, objs, alive, ret, aesVars>>

\* The old operation is freed and a new one allocated, keyed and initialised.
Prepare(alg, point) ==
    \/ /\ point = "operation"
       /\ ops' = Cleaned
       /\ UNCHANGED <<objs, crypto_op>>
    \/ \E op \in OpAddrs \ DOMAIN Cleaned, keys \in SUBSET NewObjs :
        /\ point # "operation"
        /\ Cardinality(keys) = KeysKept(alg, point)
        /\ crypto_op' = op
        /\ ops' = With(Cleaned, op, [class |-> ClassOf(alg), state |-> StateReached(point)])
        /\ objs' = [o \in DOMAIN objs \cup keys |-> Empty]

cmd_prepare_key(alg) ==
    /\ algo' = alg
    /\ heldBack' = FALSE
    /\ \/ /\ CleanPanics
          /\ Answer("TARGET_DEAD", 0)
          /\ prepared' = FALSE
          /\ UNCHANGED <<crypto_op, failed>>
       \/ \E point \in FailurePoints(alg) :
          /\ Prepare(alg, point)
          /\ ret' = IF point = "none" THEN "SUCCESS" ELSE "NOT_SUPPORTED"
          /\ Answer(ret', 0)
          /\ prepared' = (point = "none")
          /\ failed' = (failed \/ point # "none")
          /\ UNCHANGED alive
    /\ UNCHANGED abused

-----------------------------------------------------------------------------
\* A unit of 0 stands for the whole input; arm64 divides by zero to zero.
Unit(insz, unit) == IF unit = 0 THEN insz ELSE unit
Quotient(insz, unit) == IF Unit(insz, unit) = 0 THEN 0 ELSE insz \div Unit(insz, unit)
Remainder(insz, unit) == IF Unit(insz, unit) = 0 THEN 0 ELSE insz % Unit(insz, unit)

FirstPiece(insz, unit) ==
    IF Quotient(insz, unit) > 0 THEN Unit(insz, unit) ELSE Remainder(insz, unit)

\* Where the last update starts and ends: in and out advance by whole units in every
\* round and start the next round there.
StartOfLast(rounds, insz, unit) ==
    LET whole == rounds * Quotient(insz, unit) * Unit(insz, unit)
    IN  IF Remainder(insz, unit) > 0 THEN whole ELSE whole - Unit(insz, unit)

EndOfUpdates(rounds, insz, unit) ==
    IF rounds = 0 THEN 0
    ELSE rounds * Quotient(insz, unit) * Unit(insz, unit) + Remainder(insz, unit)

\* External: an update on whole blocks delivers as much as it takes, when nothing is held
\* back.  XTS may hold data back; then, and with other pieces, an update may deliver
\* any length up to the one it is told, or refuse.
Blockwise(insz, unit) ==
    /\ algo # "XTS" /\ ~heldBack
    /\ FirstPiece(insz, unit) % Block = 0 /\ Remainder(insz, unit) % Block = 0

\* A blockwise update refuses when it is told less than it takes: the first one is told
\* the size of the output, the others what the one before delivered.
RefusesPiece(rounds, insz, outsz, unit) ==
    \/ FirstPiece(insz, unit) > outsz
    \/ rounds > 1 /\ Quotient(insz, unit) > 0 /\ Remainder(insz, unit) > 0

\* No update may reach memory behind a buffer, neither the piece it is given nor the
\* output area it is told of.  The last update reaches farthest; of a remainder
\* the code tells it a whole unit.
Strays(rounds, insz, outsz, unit) ==
    \/ EndOfUpdates(rounds, insz, unit) > insz
    \/ /\ StartOfLast(rounds, insz, unit) > 0
       /\ IF Blockwise(insz, unit)
          THEN StartOfLast(rounds, insz, unit) + Unit(insz, unit) > outsz
          ELSE outsz > 0

\* What a client must not do: several rounds, or several pieces that are not blockwise or
\* for which the output has not as many whole units.
Careless(rounds, insz, outsz, unit) ==
    \/ rounds > 1
    \/ /\ unit \in 1 .. insz - 1
       /\ ~Blockwise(insz, unit) \/ (outsz \div unit) * unit < insz

\* cmd_process on secure buffers: a cache flush fails before anything is processed.
FlushFails ==
    /\ ret' = "ACCESS_DENIED"
    /\ Answer(ret', 0)
    /\ UNCHANGED <<ops, objs, alive, aesVars>>

\* cmd_process; ACCESS_DENIED is a cache flush that fails at the end.
cmd_process(rounds, insz, outsz, unit) ==
    LET some == EndOfUpdates(rounds, insz, unit) > 0
        usable == InState(crypto_op, ClassOf(algo), {"active"})
        exact == usable /\ Blockwise(insz, unit)
        refused == some /\ RefusesPiece(rounds, insz, outsz, unit)
    IN
    /\ abused' = (abused \/ (some /\ (~prepared \/ Careless(rounds, insz, outsz, unit))))
    /\ heldBack' = (heldBack \/ (some /\ ~Blockwise(insz, unit)))
    /\ \/ /\ some
          /\ ~usable \/ Strays(rounds, insz, outsz, unit)
          /\ ~(exact /\ FirstPiece(insz, unit) > outsz)
          /\ TEE_Panic
          /\ Answer("TARGET_DEAD", 0)
       \/ /\ ~some \/ usable \/ Stale(crypto_op)
          /\ ret' \in (IF exact /\ refused THEN {} ELSE {"SUCCESS", "ACCESS_DENIED"})
                        \cup (IF some /\ (refused \/ ~exact) THEN {"SHORT_BUFFER"} ELSE {})
          /\ Answer(ret', 0)
          /\ UNCHANGED <<ops, objs, alive>>
    /\ UNCHANGED <<crypto_op, algo, prepared, failed>>

AesCommand ==
    \/ UnknownAlgorithm
    \/ \E alg \in Algos : cmd_prepare_key(alg)
    \/ FlushFails
    \/ \E rounds \in 0..MaxRounds, insz, outsz, unit \in DataSizes :
        cmd_process(rounds, insz, outsz, unit)
=============================================================================
