------------------------------- MODULE Doctor -------------------------------
(***************************************************************************)
(* sismo-cli/src/cmd_doctor/linux.rs: `sismo doctor` looks at what recording *)
(* needs - capabilities on the binary's file, a tracefs the user can write,  *)
(* perf_event_paranoid - one after the other; with --fix it runs itself      *)
(* again under sudo, where every check is made anew for the user who asked,  *)
(* and repairs what they flagged.  Every repair may fail.  A rebuild sheds   *)
(* the capabilities and a reboot the rest, at any moment.  (The checks of    *)
(* kernel symbols, kernel version and debuginfod only print.)                *)
(***************************************************************************)
EXTENDS Integers

CONSTANTS Users,    \* user ids; 0 is root
          MaxRuns   \* runs of doctor, rebuilds and reboots

ASSUME DoctorAssumption == Users \subseteq Nat /\ 0 \in Users /\ MaxRuns \in Nat

VARIABLES sys,   \* the machine: [caps, tracefs, search, paranoid]
          doc,   \* the doctor: [pc, by, euid, sudoUid, fix, capsOk, tfix, pfix, failed, rc]
          shed,  \* ghost: the binary was rebuilt since this run began
          runs   \* runs, rebuilds and reboots so far
doctorVars == <<sys, doc, shed, runs>>

(* The binary's security.capability: all of CAP_MASK and effective, or not.  *)
Caps == {"none", "partial", "all"}
(* TRACEFS_BASES: /sys/kernel/tracing and the one under debugfs, which only  *)
(* root can look into; a base's tracing_on has an owner and two write bits.  *)
TRACEFS_BASES == 1..2
NotMounted == [owner |-> -1, ownerWrites |-> FALSE, allWrite |-> FALSE]
TracingOn == [owner : Users, ownerWrites : BOOLEAN, allWrite : BOOLEAN] \cup {NotMounted}
(* Who, but for root, can look into /sys/kernel/tracing: as a rule root alone *)
(* (its mode is 0700), after a chown its new owner, or everybody.            *)
Anyone == -2
Searchers == Users \cup {Anyone}
(* perf_event_paranoid: absent (-1), permissive (1) or restrictive (2, also  *)
(* what cannot be parsed).                                                   *)
Paranoid == {-1, 1, 2}
NoUid == -1
NoRun == [pc |-> "exited", by |-> 0, euid |-> 0, sudoUid |-> NoUid, fix |-> FALSE,
          capsOk |-> FALSE, tfix |-> 0, pfix |-> FALSE, failed |-> FALSE, rc |-> 1]

DoctorInit ==
  /\ sys \in [caps : Caps, tracefs : [TRACEFS_BASES -> TracingOn], search : Searchers,
              paranoid : Paranoid]
  /\ doc = NoRun /\ shed = FALSE /\ runs = 0

Upon(pc) == doc.pc = pc
Exit(code) == [doc EXCEPT !.pc = "exited", !.rc = code]
machine == <<sys, shed, runs>>

(* `sismo doctor [--fix]` by a user, or by them under sudo.             *)
StartDoctor ==
  /\ Upon("exited") /\ runs < MaxRuns /\ runs' = runs + 1
  /\ \E u \in Users, sudo, fix \in BOOLEAN :
       doc' = [NoRun EXCEPT !.pc = "caps", !.by = u, !.euid = IF sudo THEN 0 ELSE u,
                 !.sudoUid = IF sudo THEN u ELSE NoUid, !.fix = fix]
  /\ shed' = FALSE /\ UNCHANGED sys

------------------------------------------------------------------------------
(* The checks.                                                              *)

check_caps ==
  /\ Upon("caps")
  /\ doc' = [doc EXCEPT !.pc = "tracefs", !.capsOk = sys.caps = "all"]
  /\ UNCHANGED machine

(* The user who will record: the one who invoked sudo, else the effective.   *)
\* Mutant: the effective user.
EuidOnly == doc.euid
recording_uid ==
  IF doc.euid # 0 THEN doc.euid ELSE IF doc.sudoUid # NoUid THEN doc.sudoUid ELSE 0

Writable(b, uid) ==
  \/ sys.tracefs[b].owner = uid /\ sys.tracefs[b].ownerWrites
  \/ sys.tracefs[b].allWrite
Reaches(uid) == uid = 0 \/ sys.search \in {uid, Anyone}
Visible(b) == sys.tracefs[b] # NotMounted /\ (doc.euid = 0 \/ (b = 1 /\ Reaches(doc.euid)))
(* The first base that can be looked at decides; with none - not mounted, or *)
(* closed to this process - nothing is flagged.                              *)
tracefs_needing_fix ==
  /\ Upon("tracefs")
  /\ doc' = [doc EXCEPT !.pc = "paranoid", !.tfix =
       LET seen == {b \in TRACEFS_BASES : Visible(b)}
           first == IF 1 \in seen THEN 1 ELSE 2
       IN IF seen = {} \/ Writable(first, recording_uid) THEN 0 ELSE first]
  /\ UNCHANGED machine

check_perf_paranoid ==
  /\ Upon("paranoid")
  /\ doc' = [doc EXCEPT !.pc = "decide", !.pfix = sys.paranoid > 1]
  /\ UNCHANGED machine

(* run, behind the checks.  Without --fix the paranoia does not count.       *)
run_decides ==
  /\ Upon("decide")
  /\ LET ready == doc.capsOk /\ doc.tfix = 0
     IN doc' = IF ~doc.fix THEN Exit(IF ready THEN 0 ELSE 1)
               ELSE IF ready /\ ~doc.pfix THEN Exit(0)
               ELSE [doc EXCEPT !.pc = IF doc.euid = 0 THEN "grant" ELSE "escalate"]
  /\ UNCHANGED machine

------------------------------------------------------------------------------
(* The fixes.                                                               *)

(* escalate_fix: sudo replaces the process with a run of `doctor --fix -y`   *)
(* by root, for this user - unless they decline, or sudo refuses or is       *)
(* missing.                                                                  *)
escalate_fix ==
  /\ Upon("escalate")
  /\ \/ doc' = Exit(1)
     \/ doc' = [NoRun EXCEPT !.pc = "caps", !.by = doc.by, !.euid = 0, !.sudoUid = doc.euid,
                  !.fix = TRUE]
  /\ UNCHANGED machine

(* write_file_caps: set the xattr, then read it back; a rebuild in between   *)
(* shows there.                                                              *)
write_file_caps ==
  /\ Upon("grant")
  /\ \/ doc.capsOk /\ doc' = [doc EXCEPT !.pc = "chown"] /\ UNCHANGED sys
     \/ ~doc.capsOk /\ doc' = [doc EXCEPT !.pc = "reread"] /\ sys' = [sys EXCEPT !.caps = "all"]
     \/ ~doc.capsOk /\ doc' = [doc EXCEPT !.pc = "chown", !.failed = TRUE] /\ UNCHANGED sys
  /\ UNCHANGED <<shed, runs>>
read_file_caps ==
  /\ Upon("reread")
  /\ doc' = [doc EXCEPT !.pc = "chown", !.failed = @ \/ sys.caps # "all"]
  /\ UNCHANGED machine

(* chown -R of the flagged base, never to root, the directory itself last;   *)
(* one that fails may have reached the file, or both.                        *)
FileChowned == [sys EXCEPT !.tracefs[doc.tfix].owner = recording_uid]
TreeChowned ==
  [sys EXCEPT !.tracefs[doc.tfix].owner = recording_uid,
              !.search = IF doc.tfix = 1 /\ @ # Anyone THEN recording_uid ELSE @]
ChownTracefs ==
  /\ Upon("chown")
  /\ \/ doc.tfix = 0 /\ doc' = [doc EXCEPT !.pc = "lower"] /\ UNCHANGED sys
     \/ /\ doc.tfix # 0 /\ recording_uid # 0
        /\ sys' = TreeChowned
        /\ \E failed \in BOOLEAN : doc' = [doc EXCEPT !.pc = "lower", !.failed = @ \/ failed]
     \/ /\ doc.tfix # 0 /\ doc' = [doc EXCEPT !.pc = "lower", !.failed = TRUE]
        /\ sys' \in {sys} \cup (IF recording_uid # 0 THEN {FileChowned} ELSE {})
  /\ UNCHANGED <<shed, runs>>

LowerParanoid ==
  /\ Upon("lower")
  /\ \/ ~doc.pfix /\ doc' = Exit(IF doc.failed THEN 1 ELSE 0) /\ UNCHANGED sys
     \/ /\ doc.pfix /\ sys' = [sys EXCEPT !.paranoid = 1]
        /\ doc' = Exit(IF doc.failed THEN 1 ELSE 0)
     \/ doc.pfix /\ doc' = Exit(1) /\ UNCHANGED sys
  /\ UNCHANGED <<shed, runs>>

------------------------------------------------------------------------------
(* A rebuild replaces the binary's file; a reboot ends a run, gives tracefs  *)
(* back to root (but a mount that is open to everybody) and restores the     *)
(* distribution's paranoia.                                                  *)
Rebuild ==
  /\ runs < MaxRuns /\ runs' = runs + 1
  /\ sys' = [sys EXCEPT !.caps = "none"] /\ shed' = TRUE /\ UNCHANGED doc
Reboot ==
  /\ runs < MaxRuns /\ runs' = runs + 1
  /\ sys' = [sys EXCEPT !.paranoid = IF @ = -1 THEN -1 ELSE 2,
               !.search = IF @ = Anyone THEN Anyone ELSE 0,
               !.tracefs = [b \in TRACEFS_BASES |-> IF @[b] = NotMounted THEN NotMounted ELSE
                              [owner |-> 0, ownerWrites |-> TRUE, allWrite |-> FALSE]]]
  /\ doc' = NoRun /\ shed' = FALSE

DoctorNext ==
  \/ StartDoctor \/ check_caps \/ tracefs_needing_fix \/ check_perf_paranoid \/ run_decides
  \/ escalate_fix \/ write_file_caps \/ read_file_caps \/ ChownTracefs \/ LowerParanoid
  \/ Rebuild \/ Reboot

DoctorSpec == DoctorInit /\ [][DoctorNext]_doctorVars

------------------------------------------------------------------------------
(* Properties.                                                              *)

(* An exit code of 0 can be relied upon: for the user who invoked doctor -   *)
(* directly or through sudo, whether the checks passed or the repairs did -  *)
(* the binary carries the capabilities unless it was rebuilt meanwhile, the  *)
(* tracefs mount is theirs to write - if they can look into it, or doctor    *)
(* flagged and chowned it -, and after --fix the paranoia is low.  (Where    *)
(* tracing_on denies its own owner, which a chown does not help, and the     *)
(* mount under debugfs, which no user reaches, are left out; so is a mount   *)
(* closed to the user that was not flagged: TracefsAnswered.)                *)
FixHolds ==
  Upon("exited") /\ doc.rc = 0 =>
    /\ sys.caps = "all" \/ shed
    /\ sys.tracefs[1] # NotMounted /\ sys.tracefs[1].ownerWrites =>
         (Reaches(doc.by) \/ doc.tfix = 1 => Reaches(doc.by) /\ Writable(1, doc.by))
    /\ doc.fix => sys.paranoid <= 1

(* What tracefs_needing_fix says of itself: it names a mounted base that the *)
(* recording user cannot write, with the same answer under sudo.  It does    *)
(* not hold: a mount whose directory is closed to doctor counts as not       *)
(* mounted, and under sudo the directory is not looked at.                   *)
TracefsAnswered ==
  Upon("exited") /\ doc.rc = 0 /\ sys.tracefs[1] # NotMounted /\ sys.tracefs[1].ownerWrites =>
    Reaches(doc.by) /\ Writable(1, doc.by)
=============================================================================
