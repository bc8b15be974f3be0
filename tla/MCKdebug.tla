------------------------------ MODULE MCKdebug ------------------------------
(* The two readers of the macOS kdebug ring: the scheduling timeline and the *)
(* stack samplers.  Each decodes its own events of a batch and they share no *)
(* state, so a behaviour has the one or the other.                           *)
EXTENDS SchedTimeline, Kperf, TLC

CONSTANTS t1, t2, s1, s2, p2

NoSched ==
  /\ trace = <<>> /\ read = 0 /\ lost = FALSE /\ on = <<>> /\ half = <<>> /\ map = <<>>
  /\ turnover = 0 /\ watching = FALSE /\ first = 0 /\ pending = <<>> /\ out = <<>>
  /\ cache = Nothing /\ announced = Nothing
NoKperf ==
  /\ step = <<>> /\ ctl = [state |-> "off", set |-> {}, sampling |-> FALSE]
  /\ taken = 0 /\ dropped = 0 /\ log = [t \in Threads |-> <<>>]
  /\ cur = [t \in Threads |-> NoGroup] /\ prev = [t \in Threads |-> AllWhole]
  /\ con = <<>> /\ images = {} /\ em = NewEmitter

KdInit == (SchedInit /\ p2 \notin Range(map) /\ NoKperf) \/ (KperfInit /\ NoSched)
KdNext ==
  \/ NoKperf /\ SchedNext /\ UNCHANGED kperfVars
  \/ NoSched /\ KperfNext /\ UNCHANGED schedVars
KdSpec == KdInit /\ [][KdNext]_<<schedVars, kperfVars>>

Symmetry == Permutations(Cpus) \cup Permutations(Tids)
=============================================================================
