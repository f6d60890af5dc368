--------------------------- MODULE HandleDbCallers ---------------------------
(***************************************************************************)
(* The handle database with callers that pass any pointer and any handle,  *)
(* NULL and out of range ones included.                                    *)
(***************************************************************************)
EXTENDS HandleDb

VARIABLES
    peak                \* history: the most handles ever allocated at once

vars == <<ptrs, max_ptrs, peak>>

Init == DbInit /\ peak = 0

\* The history variable counts what the step leaves allocated.
TrackPeak ==
    LET n == Cardinality(Allocated') IN peak' = IF n > peak THEN n ELSE peak

Get == /\ \E ptr \in Ptrs \cup {NULL}, h \in -1..MaxPtrs : handle_get(ptr, h)
       /\ TrackPeak

Put == /\ \E h \in -1..MaxPtrs, ptr \in Ptrs \cup {NULL} : handle_put(h, ptr)
       /\ TrackPeak

\* The peak is what this incarnation of the database needed.
Destroy == handle_db_destroy /\ peak' = 0

Next == Get \/ Put \/ Destroy

Spec == Init /\ [][Next]_vars

-----------------------------------------------------------------------------

\* handle_get (handle.c:36-49) grows the array only when no slot is empty, so
\* beyond its initial capacity the database is never longer than twice the
\* number of handles that were in use at the same time.
GrowsOnlyOnDemand == max_ptrs > InitialMax => max_ptrs < 2 * peak

\* The database implements the handle map of handle.h: growing the array keeps
\* every pointer at its handle, handle_get never hands out a handle in use, and
\* handle_put gives up one handle and no other.
Map == INSTANCE HandleMap WITH live <- LiveMap
ImplementsHandleMap == Map!MapSpec
=============================================================================
