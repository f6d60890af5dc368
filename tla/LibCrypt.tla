------------------------------ MODULE LibCrypt ------------------------------
(***************************************************************************)
(* The client library of the crypt TA, host/libcrypt, and a client that    *)
(* keeps track of what it allocated: it learns only from results.  It may  *)
(* pass any handle value and, past the library, any buffer of attributes.  *)
(***************************************************************************)
EXTENDS CryptTa

CONSTANTS
    AttrLists,          \* attributes clients pass to the library
    PackLists,          \* attributes on which packing and unpacking are compared
    RawBuffers          \* buffers that pack_attrs did not make

ASSUME LibCryptAssumption ==
    /\ \A attrs \in AttrLists \cup PackLists : IsAttrList(attrs)
    /\ \A buf \in RawBuffers : buf.count <= Len(buf.packed) /\ IsBuffer(buf)

VARIABLES
    knownOps,           \* handle value -> [class, state], as the client has it
    knownObjs           \* handle value -> contents, as the client has it

clientVars == <<knownOps, knownObjs>>

ClientInit == knownOps = << >> /\ knownObjs = << >>

\* The handle values of all addresses, and the null handle.
OpVals == {HANDLE2VAL(h) : h \in OpAddrs} \cup {0}
ObjVals == {HANDLE2VAL(h) : h \in ObjAddrs} \cup {0}

\* A dead TA has nothing left; the client knows from TEE_ERROR_TARGET_DEAD.
Learn(opsIfDone, objsIfDone) ==
    /\ knownOps' = CASE reply'.res = "SUCCESS" -> opsIfDone
                     [] reply'.res = "TARGET_DEAD" -> << >>
                     [] OTHER -> knownOps
    /\ knownObjs' = CASE reply'.res = "SUCCESS" -> objsIfDone
                      [] reply'.res = "TARGET_DEAD" -> << >>
                      [] OTHER -> knownObjs

InKnown(v, s) == [knownOps EXCEPT ![v].state = s]

-----------------------------------------------------------------------------
\* Mutant: the handle is taken whether or not there is one.
AllocateOperationUnchecked(class) ==
    /\ ta_entry_allocate_operation(class)
    /\ knownOps' = With(knownOps, reply'.a, NewOperation(class))
    /\ UNCHANGED knownObjs

ta_crypt_cmd_allocate_operation(class) ==
    /\ ta_entry_allocate_operation(class)
    /\ Learn(With(knownOps, reply'.a, NewOperation(class)), knownObjs)

ta_crypt_cmd_free_operation(v) ==
    ta_entry_free_operation(v) /\ Learn(Without(knownOps, {v}), knownObjs)

ta_crypt_cmd_reset_operation(v) ==
    ta_entry_reset_operation(v) /\ Learn(InKnown(v, "ready"), knownObjs)

ta_crypt_cmd_copy_operation(dst, src) ==
    ta_entry_copy_operation(dst, src) /\ Learn([knownOps EXCEPT ![dst] = knownOps[src]], knownObjs)

ta_crypt_cmd_set_operation_key(v, k) ==
    ta_entry_set_operation_key(v, k) /\ Learn(InKnown(v, "ready"), knownObjs)
ta_crypt_cmd_set_operation_key2(v, k1, k2) ==
    ta_entry_set_operation_key2(v, k1, k2) /\ Learn(InKnown(v, "ready"), knownObjs)

ta_crypt_cmd_init(v) ==
    /\ ta_entry_cipher_init(v) \/ ta_entry_mac_init(v) \/ ta_entry_ae_init(v)
    /\ Learn(InKnown(v, "active"), knownObjs)

ta_crypt_cmd_update(v) ==
    /\ \/ ta_entry_digest_update(v)
       \/ ta_entry_cipher_update(v)
       \/ ta_entry_mac_update(v)
       \/ ta_entry_ae_update_aad(v)
       \/ ta_entry_ae_update(v)
    /\ Learn(InKnown(v, "active"), knownObjs)

\* An operation whose MAC did not match has ended too.
ta_crypt_cmd_final(v) ==
    /\ \/ ta_entry_digest_do_final(v)
       \/ ta_entry_cipher_do_final(v)
       \/ ta_entry_mac_final_compute(v)
       \/ ta_entry_mac_final_compare(v)
       \/ ta_entry_ae_encrypt_final(v)
       \/ ta_entry_ae_decrypt_final(v)
    /\ IF reply'.res = "MAC_INVALID"
       THEN knownOps' = InKnown(v, "ready") /\ UNCHANGED knownObjs
       ELSE Learn(InKnown(v, "ready"), knownObjs)

\* Commands that change nothing.
ta_crypt_cmd_look(v) ==
    /\ \/ ta_entry_get_operation_info(v)
       \/ ta_entry_get_object_buffer_attribute(v)
       \/ ta_entry_get_object_value_attribute(v)
       \/ ta_entry_random_number_generate
    /\ Learn(knownOps, knownObjs)

ta_crypt_cmd_allocate_transient_object ==
    ta_entry_allocate_transient_object /\ Learn(knownOps, With(knownObjs, reply'.a, Empty))

ta_crypt_cmd_free_transient_object(v) ==
    ta_entry_free_transient_object(v) /\ Learn(knownOps, Without(knownObjs, {v}))

ta_crypt_cmd_reset_transient_object(v) ==
    /\ ta_entry_reset_transient_object(v)
    /\ Learn(knownOps, [x \in DOMAIN knownObjs |-> IF x = v THEN Empty ELSE knownObjs[x]])

copy_object_attributes(dst, src) ==
    /\ ta_entry_copy_object_attributes(dst, src)
    /\ Learn(knownOps, [knownObjs EXCEPT ![dst] = knownObjs[src]])

-----------------------------------------------------------------------------
\* calloc fails in pack_attrs: nothing is sent.
PackFails ==
    /\ Answer("OUT_OF_MEMORY", 0)
    /\ strayed' = {}
    /\ UNCHANGED <<cryptoVars, clientVars>>

ta_crypt_cmd_populate_transient_object(v, attrs) ==
    /\ ta_entry_populate_transient_object(v, pack_attrs(attrs))
    /\ Learn(knownOps, [knownObjs EXCEPT ![v] = Contents(attrs)])

ta_crypt_cmd_generate_key(v, attrs) ==
    /\ ta_entry_generate_key(v, pack_attrs(attrs))
    /\ Learn(knownOps, [knownObjs EXCEPT ![v] = Generated])

\* asymmetric_operate and asymmetric_verify.
ta_crypt_cmd_asymmetric(v, attrs) ==
    ta_entry_asymmetric(v, pack_attrs(attrs)) /\ Learn(knownOps, knownObjs)

ta_crypt_cmd_derive_key(v, k, attrs) ==
    /\ ta_entry_derive_key(v, k, pack_attrs(attrs))
    /\ Learn(knownOps, [knownObjs EXCEPT ![k] = Generated])

\* A buffer of another making, on a command that keeps nothing of it.
RawBuffer(v, buf) == ta_entry_asymmetric(v, buf) /\ Learn(knownOps, knownObjs)

-----------------------------------------------------------------------------
OperationCommand ==
    \/ \E c \in Classes : ta_crypt_cmd_allocate_operation(c)
    \/ \E v \in OpVals :
        \/ ta_crypt_cmd_free_operation(v)
        \/ ta_crypt_cmd_reset_operation(v)
        \/ ta_crypt_cmd_init(v)
        \/ ta_crypt_cmd_update(v)
        \/ ta_crypt_cmd_final(v)
        \/ \E w \in OpVals : ta_crypt_cmd_copy_operation(v, w)
        \/ \E k \in ObjVals : ta_crypt_cmd_set_operation_key(v, k)
        \/ \E k1, k2 \in ObjVals : ta_crypt_cmd_set_operation_key2(v, k1, k2)

ObjectCommand ==
    \/ ta_crypt_cmd_allocate_transient_object
    \/ \E v \in ObjVals :
        \/ ta_crypt_cmd_free_transient_object(v)
        \/ ta_crypt_cmd_reset_transient_object(v)
        \/ \E w \in ObjVals : copy_object_attributes(v, w)

AttributeCommand ==
    \/ PackFails
    \/ \E attrs \in AttrLists :
        \/ \E v \in ObjVals : ta_crypt_cmd_populate_transient_object(v, attrs)
        \/ \E v \in ObjVals : ta_crypt_cmd_generate_key(v, attrs)
        \/ \E v \in OpVals : ta_crypt_cmd_asymmetric(v, attrs)
        \/ \E v \in OpVals, k \in ObjVals : ta_crypt_cmd_derive_key(v, k, attrs)
    \/ \E v \in OpVals, buf \in RawBuffers : RawBuffer(v, buf)

CryptCommand ==
    \/ OperationCommand
    \/ ObjectCommand
    \/ AttributeCommand
    \/ \E v \in OpVals \cup ObjVals : ta_crypt_cmd_look(v)
=============================================================================
