------------------------------ MODULE VarStore ------------------------------
(***************************************************************************)
(* What the arithmetic commands of the crypt TA promise to a client that   *)
(* follows ta/crypt/include/ta_crypt.h: typed variables named by handles.  *)
(* A command that succeeds does to the results it names what it is for and *)
(* nothing to other variables; a command that fails does nothing.          *)
(***************************************************************************)
CONSTANT
    Vals                \* values of a variable

VARIABLES
    store,              \* handle -> [type, val] for the variables that exist
    call                \* the last command: cmd, res, and dest, its results as
                        \* pairs <<type, handle>>

StoreInit == store = << >>

Succeeds(cmds) == call'.cmd \in cmds /\ call'.res = "SUCCESS"

Fail == call'.res # "SUCCESS" /\ UNCHANGED store

\* The one result is the new variable, whose handle carries its type.
New ==
    /\ Succeeds({"new_var", "new_fmm_ctx", "new_fmm_var"})
    /\ \E h \in DOMAIN store' \ DOMAIN store :
        /\ call'.dest = {<<store'[h].type, h>>}
        /\ DOMAIN store' = DOMAIN store \cup {h}
        /\ h.tag = {store'[h].type}
        /\ \A k \in DOMAIN store : store'[k] = store[k]

Delete ==
    /\ Succeeds({"free_handle"})
    /\ \E h \in DOMAIN store :
        /\ call'.dest = {<<store[h].type, h>>}
        /\ store' = [k \in DOMAIN store \ {h} |-> store[k]]

\* Every result is a variable of the documented type; it gets some value, the others keep
\* theirs.
Assign ==
    /\ Succeeds({"command"})
    /\ DOMAIN store' = DOMAIN store
    /\ \A r \in call'.dest :
        /\ r[2] \in DOMAIN store
        /\ store[r[2]].type = r[1]
        /\ store'[r[2]].type = r[1]
        /\ store'[r[2]].val \in Vals
    /\ \A h \in DOMAIN store :
        (\A r \in call'.dest : r[2] # h) => store'[h] = store[h]

\* The TA instance goes away with its session.
Forget == Succeeds({"none"}) /\ store' = << >>

StoreNext == Fail \/ New \/ Delete \/ Assign \/ Forget

StoreSpec == StoreInit /\ [][StoreNext]_<<store, call>>
=============================================================================
