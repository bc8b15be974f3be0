----------------------------- MODULE MCHeapShim -----------------------------
(* HeapShim on small instances. *)
EXTENDS HeapShim
=============================================================================
