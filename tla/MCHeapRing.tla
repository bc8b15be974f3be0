----------------------------- MODULE MCHeapRing -----------------------------
(* HeapRing on a small instance. *)
EXTENDS HeapRing
=============================================================================
