----------------------------- MODULE MCCommands -----------------------------
(* The commands: `sismo record` and `sismo snapshot`, and `sismo doctor`     *)
(* that readies a Linux machine for them.  Recording does not look at what   *)
(* doctor found; a behaviour has the one or the other.                       *)
EXTENDS MCRecorder, Doctor

NoDoctor ==
  /\ sys = [caps |-> "all", tracefs |-> [b \in TRACEFS_BASES |-> NotMounted],
            search |-> 0, paranoid |-> 1]
  /\ doc = NoRun /\ shed = FALSE /\ runs = MaxRuns
NoRecording ==
  /\ platform = "linux" /\ lock = None /\ sock = None /\ meta = NoMeta
  /\ rec = [r \in Recorders |-> [Fresh EXCEPT !.pc = "exit"]]
  /\ work = [r \in Recorders |-> "none"] /\ pipe = [r \in Recorders |-> <<>>]
  /\ pend = [r \in Recorders |-> {}] /\ out = [c \in Clients |-> NoFile]
  /\ clone = [c \in Clients |-> NoClone] /\ snap = [s \in Snapshots |-> "exit"]

CmdInit == (Init /\ NoDoctor) \/ (DoctorInit /\ NoRecording)
CmdNext ==
  \/ NoDoctor /\ Next /\ UNCHANGED doctorVars
  \/ NoRecording /\ DoctorNext /\ UNCHANGED vars
CmdSpec == CmdInit /\ [][CmdNext]_<<vars, doctorVars>>
=============================================================================
