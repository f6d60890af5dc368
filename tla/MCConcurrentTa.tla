--------------------------- MODULE MCConcurrentTa ---------------------------
(* A small instance of the concurrent TA. *)
EXTENDS ConcurrentTa

\* Two threads differ only in their names.
TwoThreads == {"t1", "t2"}
=============================================================================
