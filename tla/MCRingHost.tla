----------------------------- MODULE MCRingHost -----------------------------
(* RingHost on small instances. *)
EXTENDS RingHost
=============================================================================
