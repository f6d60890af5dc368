------------------------------ MODULE MCArithTa ------------------------------
(* Small instances of the arithmetic commands. *)
EXTENDS ArithTa, TLC

PtrSymmetry == Permutations(Ptrs)

\* A client that only passes handles it holds.
NothingForged == {}

\* A typed handle past the last slot that can hold an object.
Unresolvable == {[tag |-> {HT_BIGINT}, idx |-> 3]}
=============================================================================
