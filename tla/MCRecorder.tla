----------------------------- MODULE MCRecorder -----------------------------
EXTENDS Recorder

(* Command lines of r1: a spawned workload, --only with --long-trace, --pid  *)
(* with a duration and external sources, memory.dump of the heap alone.  Any *)
(* other recorder takes scheduling only.                                     *)
CONSTANT r1
MCArgs ==
  [r \in Recorders |->
     IF r # r1 THEN {[NoArgs EXCEPT !.only = TRUE, !.kept = {"sched"}]} ELSE
       {NoArgs,
        [NoArgs EXCEPT !.only = TRUE, !.kept = {"heap", "cpu"}, !.long = TRUE],
        [NoArgs EXCEPT !.pid = TRUE, !.timed = TRUE, !.ext = {"sched", "cpu"}],
        [NoArgs EXCEPT !.deep = TRUE, !.timed = TRUE, !.off = {"sched", "cpu"}]}]
=============================================================================
