---------------------------- MODULE MCHeapWorker ----------------------------
(* HeapWorker on small instances. *)
EXTENDS HeapWorker
=============================================================================
