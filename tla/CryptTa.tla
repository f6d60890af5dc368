------------------------------ MODULE CryptTa ------------------------------
(***************************************************************************)
(* The commands of the crypt TA on operations and objects,                 *)
(* ta/crypt/cryp_taf.c.  A session has an instance of its own, which runs  *)
(* one command at a time.  The wrong parameter types that every command    *)
(* refuses are left out: the client library fixes them.                    *)
(***************************************************************************)
EXTENDS TeeCrypto, AttrBuffer

CONSTANTS
    TaHead,             \* the address of ta_head
    ValMod              \* 2^32: the range of a value parameter

ASSUME CryptTaAssumption ==
    /\ TaHead \in Nat /\ ValMod \in Nat \ {0}
    \* The heap of a TA follows its head, in the same 4 GB.
    /\ \A h \in OpAddrs \cup ObjAddrs : h > TaHead /\ h < TaHead + ValMod

VARIABLE
    strayed             \* history: the areas the last command read outside of its attributes

CryptTaInit == strayed = {}

\* Pointers in 32-bit fields are passed as an offset to ta_head.
VAL2HANDLE(v) == IF v = TEE_HANDLE_NULL THEN v ELSE v + TaHead
HANDLE2VAL(h) == IF h = TEE_HANDLE_NULL THEN h ELSE (h - TaHead) % ValMod

\* A command that returns the result of its one call, and one whose call has no
\* result or one that is ignored.
ReturnsResult ==
    /\ Answer(ret', 0)
    /\ strayed' = {}
ReturnsSuccess ==
    /\ Answer(IF alive' THEN "SUCCESS" ELSE "TARGET_DEAD", 0)
    /\ strayed' = {}

-----------------------------------------------------------------------------
(* Operations. *)

\* The handle is written whether or not the operation was allocated.
ta_entry_allocate_operation(class) ==
    \E op \in OpAddrs \cup {TEE_HANDLE_NULL} :
        /\ TEE_AllocateOperation(class, op)
        /\ Answer(ret', HANDLE2VAL(op))
        /\ strayed' = {}

ta_entry_free_operation(v) ==
    TEE_FreeOperation(VAL2HANDLE(v)) /\ ReturnsSuccess

\* A short buffer is refused before the operation is looked at.
ta_entry_get_operation_info(v) ==
    \/ UNCHANGED cryptoVars /\ Answer("SHORT_BUFFER", 0) /\ strayed' = {}
    \/ TEE_GetOperationInfo(VAL2HANDLE(v)) /\ ReturnsSuccess

ta_entry_reset_operation(v) ==
    TEE_ResetOperation(VAL2HANDLE(v)) /\ ReturnsSuccess

ta_entry_set_operation_key(v, k) ==
    TEE_SetOperationKeys(VAL2HANDLE(v), {VAL2HANDLE(k)}) /\ ReturnsResult

ta_entry_set_operation_key2(v, k1, k2) ==
    /\ TEE_SetOperationKeys(VAL2HANDLE(v), {VAL2HANDLE(k1), VAL2HANDLE(k2)})
    /\ ReturnsResult

ta_entry_copy_operation(dst, src) ==
    TEE_CopyOperation(VAL2HANDLE(dst), VAL2HANDLE(src)) /\ ReturnsSuccess

ta_entry_digest_update(v) ==
    FeedOperation(VAL2HANDLE(v), "digest", {}) /\ ReturnsSuccess
ta_entry_digest_do_final(v) ==
    FinishOperation(VAL2HANDLE(v), "digest", {"SHORT_BUFFER"}) /\ ReturnsResult

ta_entry_cipher_init(v) == StartOperation(VAL2HANDLE(v), "cipher") /\ ReturnsSuccess
ta_entry_cipher_update(v) ==
    FeedOperation(VAL2HANDLE(v), "cipher", {"SHORT_BUFFER"}) /\ ReturnsResult
ta_entry_cipher_do_final(v) ==
    FinishOperation(VAL2HANDLE(v), "cipher", {"SHORT_BUFFER"}) /\ ReturnsResult

ta_entry_mac_init(v) == StartOperation(VAL2HANDLE(v), "mac") /\ ReturnsSuccess
ta_entry_mac_update(v) == FeedOperation(VAL2HANDLE(v), "mac", {}) /\ ReturnsSuccess
ta_entry_mac_final_compute(v) ==
    FinishOperation(VAL2HANDLE(v), "mac", {"SHORT_BUFFER"}) /\ ReturnsResult
\* A MAC that does not match ends the operation as well.
ta_entry_mac_final_compare(v) ==
    /\ FinishOperation(VAL2HANDLE(v), "mac", {})
    /\ \E res \in {ret', IF alive' THEN "MAC_INVALID" ELSE ret'} : Answer(res, 0)
    /\ strayed' = {}

ta_entry_ae_init(v) == StartOperation(VAL2HANDLE(v), "ae") /\ ReturnsResult
ta_entry_ae_update_aad(v) == FeedOperation(VAL2HANDLE(v), "ae", {}) /\ ReturnsSuccess
\* The result of TEE_AEUpdate is ignored.
ta_entry_ae_update(v) == FeedOperation(VAL2HANDLE(v), "ae", {"SHORT_BUFFER"}) /\ ReturnsSuccess
ta_entry_ae_encrypt_final(v) ==
    FinishOperation(VAL2HANDLE(v), "ae", {"SHORT_BUFFER"}) /\ ReturnsResult
ta_entry_ae_decrypt_final(v) == ta_entry_ae_encrypt_final(v)

ta_entry_random_number_generate ==
    UNCHANGED cryptoVars /\ Answer("SUCCESS", 0) /\ strayed' = {}

-----------------------------------------------------------------------------
(* Objects, and the commands that take attributes. *)

ta_entry_allocate_transient_object ==
    \E o \in ObjAddrs \cup {TEE_HANDLE_NULL} :
        /\ TEE_AllocateTransientObject(o)
        /\ Answer(ret', IF ret' = "SUCCESS" THEN HANDLE2VAL(o) ELSE 0)
        /\ strayed' = {}

ta_entry_free_transient_object(v) ==
    TEE_FreeTransientObject(VAL2HANDLE(v)) /\ ReturnsSuccess

ta_entry_reset_transient_object(v) ==
    TEE_ResetTransientObject(VAL2HANDLE(v)) /\ ReturnsSuccess

ta_entry_copy_object_attributes(dst, src) ==
    LET s == VAL2HANDLE(src) IN
    /\ IF s \in DOMAIN objs /\ objs[s] # Empty
       THEN FillObject(VAL2HANDLE(dst), objs[s])
       ELSE TEE_Panic
    /\ ReturnsResult

ta_entry_get_object_buffer_attribute(v) == ReadAttribute(VAL2HANDLE(v)) /\ ReturnsResult
ta_entry_get_object_value_attribute(v) == ta_entry_get_object_buffer_attribute(v)

\* Unpack the attributes, use them in a call, free them.
WithAttributes(buf, call) ==
    \E r \in UnpackResults(buf) :
        /\ IF r = "SUCCESS" THEN call /\ Answer(ret', 0)
                            ELSE UNCHANGED cryptoVars /\ Answer(r, 0)
        /\ strayed' = {area \in Touched(buf) : r = "SUCCESS" /\ area[2] > buf.len}

ta_entry_populate_transient_object(v, buf) ==
    WithAttributes(buf, FillObject(VAL2HANDLE(v), Contents(unpack_attrs(buf))))

\* The key is not among the parameters: the object holds a generated one.
ta_entry_generate_key(v, buf) ==
    WithAttributes(buf, FillObject(VAL2HANDLE(v), Generated))

\* encrypt, decrypt, sign_digest and verify_digest.
ta_entry_asymmetric(v, buf) ==
    WithAttributes(buf, UseAsymmetric(VAL2HANDLE(v), {"SHORT_BUFFER", "BAD_PARAMETERS"}))

ta_entry_derive_key(v, k, buf) ==
    WithAttributes(buf, TEE_DeriveKey(VAL2HANDLE(v), VAL2HANDLE(k)))

=============================================================================
