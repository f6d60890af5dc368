------------------------------- MODULE MCLibFs -------------------------------
(* Small instances of the storage TA and its clients. *)
EXTENDS LibFs, TLC

\* The access that the storage tests ask for, and shared access.
Exclusive == {"READ", "WRITE", "META"}
Shared == {"READ", "WRITE", "SHARE_READ", "SHARE_WRITE"}
ExclusiveOnly == {Exclusive}
ExclusiveOrShared == {Exclusive, Shared}

\* One client creates, writes and deletes objects, the others rename, delete and replace them.
CONSTANT First
WriterAndOthers ==
    [i \in Instances |-> IF i = First
        THEN {"open", "create", "close", "data", "unlink"}
        ELSE {"open", "close", "create_overwrite", "rename", "unlink"}]

\* Clients that run the built-in key test, whose object others open.
\* One of them also lists the objects.
KeyTesters ==
    [i \in Instances |-> {"key_in_persistent", "open", "close"}
                            \cup (IF i = First THEN {"enumerator"} ELSE {})]

\* A client that sends every command on objects.
EveryObjectCommand == [i \in Instances |-> Library \ {"enumerator"}]

\* The clients differ in what they do.
Symmetry == Permutations(Keys) \cup Permutations(HandleIds)
=============================================================================
