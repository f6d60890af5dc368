------------------------------ MODULE MCLibKey ------------------------------
(* Small instances of the key TA and its clients. *)
EXTENDS LibKey, TLC

\* Exclusive access, replacing an object or not, and shared reading.
AnyAccess == {{"META"}, {"META", "OVERWRITE"}, {"READ", "SHARE_READ"}}
ExclusiveAccess == {{"META"}, {"META", "OVERWRITE"}}

\* One client lists the keys, the others create and delete them.
CONSTANT Lister
OneLister ==
    [i \in Instances |-> IF i = Lister THEN {"list", "object_list"} ELSE {"generate", "delete"}]

\* One client works on keys, the other one calls every function.
OneOfEach ==
    [i \in Instances |-> IF i = Lister THEN {"generate", "open", "close", "delete"} ELSE Library]

\* The clients differ in what they do.
Symmetry ==
    Permutations(Names) \cup Permutations(Keys)
        \cup Permutations(HandleIds) \cup Permutations(EnumIds)
=============================================================================
