------------------------------ MODULE HandleMap ------------------------------
(***************************************************************************)
(* What a handle database promises (ta/crypt/handle.h): a partial function *)
(* from handles to the pointers its callers gave it.  Nothing is said      *)
(* about slots, capacity or growth.                                        *)
(***************************************************************************)
CONSTANTS
    Ptrs                \* the non-NULL pointers callers store

VARIABLES
    live                \* handle -> pointer, for the allocated handles only

MapInit == live = << >>

\* handle_get: the new handle is one that is not allocated.
Allocate ==
    \E h \in DOMAIN live' \ DOMAIN live, p \in Ptrs :
        live' = [k \in DOMAIN live \cup {h} |-> IF k = h THEN p ELSE live[k]]

\* handle_put: exactly the given handle is deallocated.
Deallocate ==
    \E h \in DOMAIN live :
        live' = [k \in DOMAIN live \ {h} |-> live[k]]

\* handle_db_destroy: "it will just be empty again".
Clear == live' = << >>

MapNext == Allocate \/ Deallocate \/ Clear

MapSpec == MapInit /\ [][MapNext]_live
=============================================================================
