------------------------------ MODULE MCHandleDb ------------------------------
(* Small instances of the handle database. *)
EXTENDS HandleDbCallers, TLC

PtrSymmetry == Permutations(Ptrs)
=============================================================================
