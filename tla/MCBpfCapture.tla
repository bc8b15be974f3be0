---------------------------- MODULE MCBpfCapture ----------------------------
(* The capture on Linux: arming it (capture_init) and its programs' counters *)
(* and tags, and the worker that drains it.  The two share no state that     *)
(* either checks: a behaviour has the one or the other.                      *)
EXTENDS BpfCapture, MCBpfInit

(* Two files of one path: 1 has a build id, 2 has none.                      *)
MCElfId == [i \in Inodes |-> IF i = 1 THEN 1 ELSE 0]
MCPathOf == [i \in Inodes |-> "p"]

NoArm ==
  /\ run = <<>> /\ refused = {} /\ ini = [pc |-> "down", probe |-> 1, cpu |-> 0]
  /\ res = [cap |-> FALSE, obj |-> FALSE, loader |-> FALSE, worker |-> FALSE]
  /\ fds = {} /\ links = {} /\ cfg = [tgid |-> 0, unwind |-> 0, nslots |-> 0, walker |-> FALSE]
  /\ park = <<>> /\ active = {} /\ got = <<>> /\ precise = 0
  /\ thr = [call |-> "none", n |-> 0, off |-> Absent, blocked |-> FALSE]
  /\ tags = <<>> /\ gap = FALSE /\ hw = <<>> /\ ctr = <<>> /\ owed = <<>> /\ acts = 0
NoCapture ==
  /\ vm = <<>> /\ disk = <<>> /\ changes = 0 /\ ring = <<>> /\ sent = 0 /\ sdk = <<>>
  /\ flag = <<>> /\ mark = <<>> /\ w = [pc |-> "none", acks |-> 0] /\ job = NoJob
  /\ cap = NewCapture /\ reg = EmptyRegistry /\ tab = <<>> /\ trace = <<>> /\ aux = 0 /\ tail = 0

(* The recording starts with the file mapped that is on disk.                *)
CapInit == \/ Init /\ (\A s \in Slots : vm[s] = disk["p"]) /\ NoArm
           \/ ArmInit /\ NoCapture
CapNext ==
  \/ NoArm /\ Next /\ UNCHANGED initVars
  \/ NoCapture /\ ArmNext /\ UNCHANGED vars
CapSpec == CapInit /\ [][CapNext]_<<vars, initVars>>
=============================================================================
