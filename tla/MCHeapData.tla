----------------------------- MODULE MCHeapData -----------------------------
(* What becomes of the target's heap: the book of a session, the packets of  *)
(* one of its snapshots, and the dump that is bundled with the trace.  They  *)
(* share no state: a behaviour has one of them, and what the others would    *)
(* use stays as it is.                                                       *)
EXTENDS MCHeapTracking, HeapDump, HeapProfile

NoTracking ==
  /\ heap = [a \in Addrs |-> [st |-> "free", seq |-> 0]] /\ allocs = MaxAllocs /\ g_seq = 1
  /\ pc = [t \in Callers |-> "idle"] /\ op = [t \in Callers |-> "none"]
  /\ arg = [t \in Callers |-> NoArg] /\ batch = [t \in Callers |-> <<>>] /\ ring = <<>>
  /\ refused = 0 /\ lost_frees = 0 /\ spoiled = {} /\ book = EmptyBook
NoDump ==
  /\ tgt = [kind |-> "other", alive |-> FALSE, home |-> TRUE, len |-> 0] /\ port = "none"
  /\ fs = [f \in DumpFiles |-> Gone] /\ dump = [NotTaken EXCEPT !.pc = "end"]
  /\ ins = Quiet /\ wire = <<>> /\ lossy = FALSE /\ traceLen = 0
NoProfile == prof = NoTraceData

DataInit ==
  \/ TrackInit /\ NoDump /\ NoProfile
  \/ DumpInit /\ NoTracking /\ NoProfile
  \/ ProfInit /\ NoTracking /\ NoDump
DataNext ==
  \/ TrackNext /\ UNCHANGED <<dumpVars, prof>>
  \/ DumpNext /\ UNCHANGED <<trackVars, prof>>
  \/ ProfNext /\ UNCHANGED <<trackVars, dumpVars>>
DataSpec == DataInit /\ [][DataNext]_<<trackVars, dumpVars, prof>>
=============================================================================
