------------------------------- MODULE ArithTa -------------------------------
(***************************************************************************)
(* The arithmetic commands of the crypt TA, ta/crypt/arith_taf.c, on the   *)
(* handle database of handle.c.  A TA instance serves one session and runs *)
(* one command at a time, so a command is one step.  Big integers are      *)
(* values of a small set and the TEE_BigInt functions choose among them.   *)
(***************************************************************************)
EXTENDS HandleDb

CONSTANTS
    HT_BIGINT, HT_FMMCTX, HT_FMMVAR,    \* the type bits of a client handle
    Vals,               \* abstract contents of a variable
    Zero,               \* the contents after TEE_BigIntInit
    Forged              \* handles clients pass without holding them

Tags == {HT_BIGINT, HT_FMMCTX, HT_FMMVAR}

\* The 32 bits of a handle: the type bits that are set, and the rest.
Handles == [tag : SUBSET Tags, idx : 0..MaxPtrs]

\* 0xffffffff: every type bit and an index no database reaches.
TA_CRYPT_ARITH_INVALID_HANDLE == [tag |-> Tags, idx |-> MaxPtrs]

ASSUME ArithAssumption ==
    /\ Cardinality(Tags) = 3
    /\ Zero \in Vals
    /\ Forged \subseteq Handles

VARIABLES
    heap,               \* allocated pointer -> [type, val]
    held,               \* the handles the client was given and did not free
    reply               \* [cmd, res, a, b, dest] of the last command; a, b: params[1];
                        \* history, dest: the results it names, when it succeeded

vars == <<ptrs, max_ptrs, heap, held, reply>>
store == <<ptrs, max_ptrs, heap, held>>

\* The handles a client passes.
Passed == held \cup Forged

Init ==
    /\ DbInit
    /\ heap = << >>
    /\ held = {}
    /\ reply = [cmd |-> "none", res |-> "SUCCESS", a |-> NULL, b |-> NULL, dest |-> {}]

Reply(cmd, res) ==
    reply' = [cmd |-> cmd, res |-> res, a |-> NULL, b |-> NULL, dest |-> {}]

\* Success, with the handle that the command delivers or NULL.
Success(cmd, handle, dest) ==
    reply' = [cmd |-> cmd, res |-> "SUCCESS", a |-> handle, b |-> NULL, dest |-> dest]

\* Of the handles that a command takes or delivers, in the order of its parameters, the
\* ones that are results, with their types.  This is how the interface documents each
\* command and does not follow from what the command does.
ResultAt ==
    [new_var |-> {<<HT_BIGINT, 1>>}, new_fmm_ctx |-> {<<HT_FMMCTX, 1>>},
     new_fmm_var |-> {<<HT_FMMVAR, 1>>},
     read |-> {}, set |-> {<<HT_BIGINT, 1>>},
     unary |-> {<<HT_BIGINT, 2>>}, binary |-> {<<HT_BIGINT, 3>>}, ternary |-> {<<HT_BIGINT, 4>>},
     div |-> {<<HT_BIGINT, 3>>, <<HT_BIGINT, 4>>},
     egcd |-> {<<HT_BIGINT, 3>>, <<HT_BIGINT, 4>>, <<HT_BIGINT, 5>>},
     to_fmm |-> {<<HT_FMMVAR, 4>>}, from_fmm |-> {<<HT_BIGINT, 4>>},
     compute_fmm |-> {<<HT_FMMVAR, 5>>}]

Results(cmd, args) ==
    {<<r[1], args[r[2]]>> : r \in {q \in ResultAt[cmd] :
                                    args[q[2]] # TA_CRYPT_ARITH_INVALID_HANDLE}}

\* TEE_Malloc: any unused address, or NULL whether or not there is one.
Malloc == (Ptrs \ DOMAIN heap) \cup {NULL}

-----------------------------------------------------------------------------
(***************************************************************************)
(* Handles with a type.                                                    *)
(***************************************************************************)

\* Only the bits of the handle are compared; the object has no type of its own.
lookup_handle(type, handle) ==
    IF handle.tag = {type} THEN handle_lookup(handle.idx) ELSE NULL

get_handle(type, ptr, h) ==
    /\ type \in Tags
    /\ handle_get(ptr, h)

\* handle & ~HT_MASK: the type bits do not matter.
put_handle(handle, ptr) == handle_put(handle.idx, ptr)

-----------------------------------------------------------------------------
(***************************************************************************)
(* Creation and destruction of variables.                                  *)
(***************************************************************************)

\* Mutant: the object is not freed when no handle is left for it.
NewObjectLeaking(cmd, type, vals) ==
    \E ptr \in Malloc, h \in -1..MaxPtrs, v \in vals :
        /\ get_handle(type, ptr, h)
        /\ heap' = IF ptr = NULL THEN heap
                   ELSE [p \in DOMAIN heap \cup {ptr} |->
                            IF p = ptr THEN [type |-> type, val |-> v] ELSE heap[p]]
        /\ IF h = -1
           THEN UNCHANGED held /\ Reply(cmd, "OUT_OF_MEMORY")
           ELSE LET handle == [tag |-> {type}, idx |-> h] IN
                /\ held' = held \cup {handle}
                /\ Success(cmd, handle, Results(cmd, <<handle>>))

\* TEE_Malloc, get_handle, TEE_Free when no handle is left.  A NULL pointer is
\* caught before get_handle or, in new_fmm_ctx, by handle_get itself.
NewObject(cmd, type, vals) ==
    \E ptr \in Malloc, h \in -1..MaxPtrs, v \in vals :
        /\ get_handle(type, ptr, h)
        /\ IF h = -1
           THEN UNCHANGED <<heap, held>> /\ Reply(cmd, "OUT_OF_MEMORY")
           ELSE LET handle == [tag |-> {type}, idx |-> h] IN
                /\ heap' = [p \in DOMAIN heap \cup {ptr} |->
                              IF p = ptr THEN [type |-> type, val |-> v] ELSE heap[p]]
                /\ held' = held \cup {handle}
                /\ Success(cmd, handle, Results(cmd, <<handle>>))

ta_entry_arith_new_var == NewObject("new_var", HT_BIGINT, {Zero})

ta_entry_arith_new_fmm_ctx(modulus) ==
    IF lookup_handle(HT_BIGINT, modulus) = NULL
    THEN Reply("new_fmm_ctx", "BAD_PARAMETERS") /\ UNCHANGED store
    ELSE NewObject("new_fmm_ctx", HT_FMMCTX, Vals)

ta_entry_arith_new_fmm_var == NewObject("new_fmm_var", HT_FMMVAR, {Zero})

\* Mutant: the object is freed and its handle kept (lookup instead of put).
FreeWithoutPut(handle) ==
    LET ptr == handle_lookup(handle.idx) IN
    /\ UNCHANGED dbVars
    /\ IF ptr = NULL
       THEN UNCHANGED <<heap, held>> /\ Reply("free_handle", "BAD_PARAMETERS")
       ELSE /\ heap' = [p \in DOMAIN heap \ {ptr} |-> heap[p]]
            /\ held' = {k \in held : k.idx # handle.idx}
            /\ Success("free_handle", NULL, {<<t, handle>> : t \in handle.tag})

ta_entry_arith_free_handle(handle) ==
    \E ptr \in Ptrs \cup {NULL} :
        /\ put_handle(handle, ptr)
        /\ IF ptr = NULL
           THEN UNCHANGED <<heap, held>> /\ Reply("free_handle", "BAD_PARAMETERS")
           ELSE /\ heap' = [p \in DOMAIN heap \ {ptr} |-> heap[p]]
                /\ held' = {k \in held : k.idx # handle.idx}
                /\ Success("free_handle", NULL, {<<t, handle>> : t \in handle.tag})

-----------------------------------------------------------------------------
(***************************************************************************)
(* Commands on existing variables.  args are the handles as the client     *)
(* passes them; operands and results, sets of pairs <<type, handle>>, are  *)
(* what the code makes of them.  Every one is looked up before anything is *)
(* computed.                                                               *)
(***************************************************************************)
Found(operands) == \A o \in operands : lookup_handle(o[1], o[2]) # NULL

Assign(results) ==
    LET Dest == {lookup_handle(o[1], o[2]) : o \in results} IN
    \E v \in [Dest -> Vals] :
        heap' = [p \in DOMAIN heap |->
                    IF p \in Dest THEN [heap[p] EXCEPT !.val = v[p]] ELSE heap[p]]

Command(cmd, args, operands, results) ==
    /\ UNCHANGED <<ptrs, max_ptrs, held>>
    /\ IF Found(operands \cup results)
       THEN Assign(results) /\ Success("command", NULL, Results(cmd, args))
       ELSE UNCHANGED heap /\ Reply("command", "BAD_PARAMETERS")

Big(handle) == <<HT_BIGINT, handle>>
Ctx(handle) == <<HT_FMMCTX, handle>>
Fmm(handle) == <<HT_FMMVAR, handle>>

\* TEE_BigIntConvertFromOctetString returns TEE_ERROR_OVERFLOW when the value
\* does not fit and then leaves the variable alone.
ta_entry_arith_from_octet_string(h) ==
    \/ Command("set", <<h>>, {}, {Big(h)})
    \/ /\ Found({Big(h)})
       /\ Reply("command", "OVERFLOW")
       /\ UNCHANGED store

ta_entry_arith_from_s32(h) == Command("set", <<h>>, {}, {Big(h)})

\* The conversions out of a variable fail when the output is too small.
ReadOne(h) ==
    \/ Command("read", <<h>>, {Big(h)}, {})
    \/ /\ Found({Big(h)})
       /\ Reply("command", "SHORT_BUFFER")
       /\ UNCHANGED store

ta_entry_arith_get_value(h) == ReadOne(h)
ta_entry_arith_get_value_s32(h) == ReadOne(h)
ta_entry_arith_get_bit(h) == Command("read", <<h>>, {Big(h)}, {})
ta_entry_arith_get_bit_count(h) == Command("read", <<h>>, {Big(h)}, {})
ta_entry_arith_cmp_s32(h) == Command("read", <<h>>, {Big(h)}, {})
ta_entry_arith_is_prime(h) == Command("read", <<h>>, {Big(h)}, {})
ta_entry_arith_cmp(op1, op2) == Command("read", <<op1, op2>>, {Big(op1), Big(op2)}, {})
ta_entry_arith_is_rel_prime(op1, op2) == Command("read", <<op1, op2>>, {Big(op1), Big(op2)}, {})

ta_entry_arith_shift_right(op, dest) == Command("unary", <<op, dest>>, {Big(op)}, {Big(dest)})

unary_func(op, dest) == Command("unary", <<op, dest>>, {Big(op)}, {Big(dest)})

\* Mutant: the value is computed in place, into the first operand.
BinaryInPlace(op1, op2, dest) ==
    Command("binary", <<op1, op2, dest>>, {Big(op2), Big(dest)}, {Big(op1)})

binary_func(op1, op2, dest) ==
    Command("binary", <<op1, op2, dest>>, {Big(op1), Big(op2)}, {Big(dest)})

ternary_func(op1, op2, n, dest) ==
    Command("ternary", <<op1, op2, n, dest>>, {Big(op1), Big(op2), Big(n)}, {Big(dest)})

\* neg and sqr; add, sub, mul, mod, sqrmod and invmod; addmod, submod, mulmod.
UnaryCommand == \E op, dest \in Passed : unary_func(op, dest)
BinaryCommand == \E op1, op2, dest \in Passed : binary_func(op1, op2, dest)
TernaryCommand == \E op1, op2, n, dest \in Passed : ternary_func(op1, op2, n, dest)

ta_entry_arith_div(op1, op2, q, r) ==
    Command("div", <<op1, op2, q, r>>, {Big(op1), Big(op2)}, {Big(q), Big(r)})

\* The cofactors are optional.
ta_entry_arith_compute_egcd(op1, op2, u, v, gcd) ==
    Command("egcd", <<op1, op2, u, v, gcd>>, {Big(op1), Big(op2)},
            {Big(gcd)} \cup {Big(h) : h \in {u, v} \ {TA_CRYPT_ARITH_INVALID_HANDLE}})

ta_entry_arith_to_fmm(src, n, ctx, dest) ==
    Command("to_fmm", <<src, n, ctx, dest>>, {Big(src), Big(n), Ctx(ctx)}, {Fmm(dest)})

ta_entry_arith_from_fmm(src, n, ctx, dest) ==
    Command("from_fmm", <<src, n, ctx, dest>>, {Fmm(src), Big(n), Ctx(ctx)}, {Big(dest)})

ta_entry_arith_compute_fmm(op1, op2, n, ctx, dest) ==
    Command("compute_fmm", <<op1, op2, n, ctx, dest>>,
            {Fmm(op1), Fmm(op2), Big(n), Ctx(ctx)}, {Fmm(dest)})

\* The session ends, or the TA panics: the crypt TA has neither
\* TA_FLAG_SINGLE_INSTANCE nor TA_FLAG_INSTANCE_KEEP_ALIVE, so the next session
\* starts with a new instance and all memory of this one is gone.
NewInstance ==
    /\ ptrs' = << >>
    /\ max_ptrs' = 0
    /\ heap' = << >>
    /\ held' = {}
    /\ Reply("none", "SUCCESS")

OnOne(h) ==
    \/ ta_entry_arith_new_fmm_ctx(h)
    \/ ta_entry_arith_free_handle(h)
    \/ ta_entry_arith_from_octet_string(h)
    \/ ta_entry_arith_from_s32(h)
    \/ ta_entry_arith_get_value(h)
    \/ ta_entry_arith_get_value_s32(h)
    \/ ta_entry_arith_get_bit(h)
    \/ ta_entry_arith_get_bit_count(h)
    \/ ta_entry_arith_cmp_s32(h)
    \/ ta_entry_arith_is_prime(h)

OnTwo(h1, h2) ==
    \/ ta_entry_arith_cmp(h1, h2)
    \/ ta_entry_arith_is_rel_prime(h1, h2)
    \/ ta_entry_arith_shift_right(h1, h2)

OnFour(h1, h2, h3, h4) ==
    \/ ta_entry_arith_div(h1, h2, h3, h4)
    \/ ta_entry_arith_to_fmm(h1, h2, h3, h4)
    \/ ta_entry_arith_from_fmm(h1, h2, h3, h4)

Egcd ==
    \E op1, op2, gcd \in Passed,
       u, v \in Passed \cup {TA_CRYPT_ARITH_INVALID_HANDLE} :
        ta_entry_arith_compute_egcd(op1, op2, u, v, gcd)

ComputeFmm ==
    \E op1, op2, n, ctx, dest \in Passed :
        ta_entry_arith_compute_fmm(op1, op2, n, ctx, dest)

Next ==
    \/ ta_entry_arith_new_var
    \/ ta_entry_arith_new_fmm_var
    \/ \E h \in Passed : OnOne(h)
    \/ \E h1, h2 \in Passed : OnTwo(h1, h2)
    \/ UnaryCommand
    \/ BinaryCommand
    \/ TernaryCommand
    \/ \E h1, h2, h3, h4 \in Passed : OnFour(h1, h2, h3, h4)
    \/ Egcd
    \/ ComputeFmm
    \/ NewInstance

Spec == Init /\ [][Next]_vars

-----------------------------------------------------------------------------
(***************************************************************************)
(* Properties.                                                             *)
(***************************************************************************)
\* What the heap holds.
Objects == [type : Tags, val : Vals]

\* Whatever handles the client passes, stale and mistyped ones included, every
\* slot a lookup can reach points to memory that is still allocated
\* (arith_taf.c:145-158 gives up the slot together with the object).
NoDanglingSlot == \A n \in Allocated : ptrs[n] \in DOMAIN heap

\* No object is lost and none has two handles: each one sits in exactly one slot,
\* also after the failure paths of the three creation commands.
OneSlotPerObject ==
    \A p \in DOMAIN heap : \E n \in Allocated :
        /\ ptrs[n] = p
        /\ \A m \in Allocated : ptrs[m] = p => m = n

\* A handle the client was given and did not free resolves, at the type it was
\* given for, to an object that was created with that type.
HeldHandlesResolve ==
    \A h \in held : \E t \in Tags :
        /\ h.tag = {t}
        /\ lookup_handle(t, h) \in DOMAIN heap
        /\ heap[lookup_handle(t, h)].type = t

\* For a client that passes the handles it holds, the TA is a store of typed variables: a
\* command that succeeds adds, removes or changes exactly the variables that ta_crypt.h
\* names as its results, at the types it names, and one that fails changes nothing,
\* whichever call failed and whatever operands and results coincide
\* (arith_taf.c:77-564, ta_crypt.h:394-612).
ClientView == [h \in held |-> heap[handle_lookup(h.idx)]]
Variables == INSTANCE VarStore WITH store <- ClientView, call <- reply
ImplementsVarStore == Variables!StoreSpec

\* ta_crypt.h:394-398: ARITH_NEW_VAR delivers its handle in params[1].value.b.
NewVarHandleInValueB ==
    reply.cmd = "new_var" /\ reply.res = "SUCCESS" => reply.b \in held
=============================================================================
