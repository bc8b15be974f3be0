--------------------------- MODULE MCHeapTracking ---------------------------
(* HeapTracking on small instances. *)
EXTENDS HeapTracking

\* Threads are interchangeable.
Symmetry == Permutations(Callers)
=============================================================================
