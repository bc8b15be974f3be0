------------------------------ MODULE Recorder ------------------------------
(***************************************************************************)
(* `sismo record` on both platforms and `sismo snapshot`: the session lock, *)
(* the sockets and the meta file in /tmp, the self-pipe that the signal     *)
(* handler, the duration timer and the exit watcher write to, the heap dump *)
(* taken before the workload is stopped, the clone of the trace buffer with *)
(* its time-outs, and the order of saving, stopping and tearing down.       *)
(*                                                                         *)
(* Several recorders and snapshots run on one machine; a recorder may be    *)
(* killed at any point.  The tracing service and its SDK are external: they *)
(* call a capture's flush and stop trampolines and hand trace chunks to the *)
(* clone's callback.                                                       *)
(***************************************************************************)
EXTENDS Naturals, Sequences, FiniteSets

CONSTANTS Recorders,   \* recorder processes, each runs once
          Snapshots,   \* snapshot processes, each runs once
          Platforms,   \* platforms to consider, of {"macos", "linux"}
          Args,        \* per recorder: the command lines it may be given
          Chunks,      \* chunks of a cloned trace
          MaxSigs,     \* SIGINTs a recorder gets
          MaxKills     \* recorders that are killed

None == "none"
Clients == Recorders \cup Snapshots
Sources == {"sched", "cpu", "heap"}

(* A command line: flags per source, --only with the sources to keep, --pid,  *)
(* --long-trace, --duration and --focus memory.dump.                        *)
RecordArgs == [off: SUBSET Sources, ext: SUBSET Sources, all_external: BOOLEAN,
               only: BOOLEAN, kept: SUBSET Sources, pid: BOOLEAN, long: BOOLEAN,
               timed: BOOLEAN, deep: BOOLEAN]

ASSUME RecorderAssumption ==
  /\ IsFiniteSet(Clients) /\ Recorders \cap Snapshots = {} /\ None \notin Clients
  /\ Platforms \subseteq {"macos", "linux"} /\ Platforms # {}
  /\ Args \in [Recorders -> SUBSET RecordArgs]
  /\ Chunks \in Nat \ {0} /\ MaxSigs \in Nat /\ MaxKills \in Nat

VARIABLES platform,  \* the machine's operating system
          lock,      \* holder of the flock on /tmp/sismo.lock
          sock,      \* recorder whose service bound the sockets' files last
          meta,      \* /tmp/sismo-session.meta: NoMeta or [by, deep]
          rec,       \* per recorder: where it is and what it owns
          work,      \* per recorder: its target
          pipe,      \* per recorder: bytes in the self-pipe
          pend,      \* per recorder: streams with data not yet in the buffer
          out,       \* per client: the output file while the client runs
          clone,     \* per client: the clone it has asked for
          snap       \* per snapshot: where it is
vars == <<platform, lock, sock, meta, rec, work, pipe, pend, out, clone, snap>>

------------------------------------------------------------------------------
(* RecordArgs::resolve: the mode of every source; --only overrides the other *)
(* flags, --all-external moves what is left in process out of it.            *)

Mode(a, s) ==
  IF a.only THEN (IF s \in a.kept THEN "in" ELSE "off")
  ELSE IF s \in a.off THEN "off"
  ELSE IF s \in a.ext \/ a.all_external THEN "ext" ELSE "in"

ArgsAccepted(a) ==
  /\ a.only => a.kept # {}
  /\ a.off \cap a.ext = {}
  /\ platform = "linux" => ~a.pid /\ ~a.deep

(* What the captures of a session produce.  On Linux one BPF capture feeds   *)
(* two sequences, on macOS the kdebug ring and the heap worker feed one each *)
InProcess(a) == {s \in Sources : Mode(a, s) = "in"}
External(a) == {s \in Sources : Mode(a, s) = "ext"}
StreamsOf(a) ==
  IF platform = "linux"
  THEN IF Mode(a, "cpu") # "off" THEN {"cpu", "offcpu"} ELSE {}
  ELSE (IF InProcess(a) \cap {"sched", "cpu"} # {} THEN {"ring"} ELSE {})
       \cup (IF "heap" \in InProcess(a) THEN {"heap"} ELSE {})
Streams == {"cpu", "offcpu", "ring", "heap"}

------------------------------------------------------------------------------
NoArgs == [off |-> {}, ext |-> {}, all_external |-> FALSE, only |-> FALSE,
           kept |-> {}, pid |-> FALSE, long |-> FALSE, timed |-> FALSE, deep |-> FALSE]
Fresh == [pc |-> "idle", args |-> NoArgs, svc |-> FALSE, ses |-> "none",
          cap |-> "none", streams |-> {}, watch |-> "off", timer |-> "off",
          fd |-> FALSE, sigs |-> 0, buf |-> <<>>, done |-> FALSE,
          fired |-> FALSE, dump |-> "none", wrote |-> FALSE, lacks |-> {}]
NoMeta == [by |-> None, deep |-> FALSE]
NoFile == "none"
NoClone == [st |-> "none", of |-> None, left |-> 0, bad |-> FALSE]

Init ==
  /\ platform \in Platforms
  /\ lock = None /\ sock = None /\ meta = NoMeta
  /\ rec = [r \in Recorders |-> Fresh]
  /\ work = [r \in Recorders |-> "none"]
  /\ pipe = [r \in Recorders |-> <<>>]
  /\ pend = [r \in Recorders |-> {}]
  /\ out = [c \in Clients |-> NoFile]
  /\ clone = [c \in Clients |-> NoClone]
  /\ snap = [s \in Snapshots |-> "idle"]

At(r, p) == rec[r].pc = p
To(r, p) == rec' = [rec EXCEPT ![r].pc = p]
(* The capture's worker is there to serve what the SDK asks of it.           *)
Alive(r) == rec[r].cap = "up"
Serving(r) == rec[r].svc /\ sock = r
files == <<sock, meta>>
others == <<platform, out, clone, snap>>

------------------------------------------------------------------------------
(* Starting up.                                                             *)

(* run: parse and check the arguments (an attach target must be signalable); *)
(* then acquire_session_lock, a non-blocking flock: held elsewhere, or a lock *)
(* file that cannot be opened, ends the run.                                 *)
UncheckedLock(r) == lock' = r  \* mutant: the flock is not looked at
Locked(r) == lock = None /\ lock' = r
Launch(r) ==
  /\ At(r, "idle")
  /\ \/ \E a \in Args[r] :
          /\ ArgsAccepted(a)
          /\ Locked(r)
          /\ rec' = [rec EXCEPT ![r].args = a,
                       ![r].pc = IF platform = "macos" THEN "clean" ELSE "serve"]
          /\ work' = [work EXCEPT ![r] = IF a.pid THEN "running" ELSE "none"]
     \/ To(r, "exit") /\ UNCHANGED <<lock, work>>
  /\ UNCHANGED <<files, pipe, pend, others>>

(* macOS removes what a crashed session left: sockets and meta file.  That a *)
(* removal fails (the files may be another user's) is ignored.               *)
CleanStale(r) ==
  /\ At(r, "clean")
  /\ sock' \in {None, sock} /\ meta' \in {NoMeta, meta}
  /\ To(r, "serve")
  /\ UNCHANGED <<lock, work, pipe, pend, others>>

(* sismo_traced_create unlinks and binds both sockets, or fails - where they *)
(* cannot be unlinked it does.                                               *)
StartService(r) ==
  /\ At(r, "serve")
  /\ \/ /\ sock' = r
        /\ rec' = [rec EXCEPT ![r].pc = "target", ![r].svc = TRUE]
        /\ UNCHANGED lock
     \/ /\ lock' = None
        /\ To(r, "exit")
        /\ sock' \in {None, sock}
  /\ UNCHANGED <<meta, work, pipe, pend, others>>

(* teardown_early, with whatever the failing path shuts down before it: the  *)
(* session and the captures go, the service stops, the lock is released.     *)
EarlyExit(r) ==
  /\ rec' = [rec EXCEPT ![r] = [Fresh EXCEPT !.pc = "exit"]]
  /\ lock' = None

(* Spawn the workload, or go on with the attached one.                       *)
AcquireTarget(r) ==
  /\ At(r, "target")
  /\ \/ /\ To(r, "capture")
        /\ work' = [work EXCEPT ![r] = "running"]
        /\ UNCHANGED lock
     \/ /\ ~rec[r].args.pid
        /\ EarlyExit(r) /\ UNCHANGED work
  /\ UNCHANGED <<files, pipe, pend, others>>

(* Start the captures; one whose init fails, or whose attach target is not   *)
(* prepared, is left out of the session.                                     *)
StartCaptures(r) ==
  /\ At(r, "capture")
  /\ \E S \in SUBSET StreamsOf(rec[r].args) :
       /\ platform = "linux" => S \in {{}, StreamsOf(rec[r].args)}
       /\ rec' = [rec EXCEPT ![r].pc = "session", ![r].streams = S,
                             ![r].cap = IF S = {} THEN "none" ELSE "up"]
  /\ UNCHANGED <<lock, files, work, pipe, pend, others>>

(* Create and set up the session; wait for external producers (macOS); start *)
(* it.  No data source at all, a session that cannot be created or set up    *)
(* and producers that do not register in time end the run.                   *)
StartSession(r) ==
  /\ At(r, "session")
  /\ \/ /\ rec' = [rec EXCEPT ![r].pc = "meta", ![r].ses = "run"]
        /\ UNCHANGED lock
     \/ EarlyExit(r)
  /\ UNCHANGED <<files, work, pipe, pend, others>>

(* write_session_meta (macOS; a failed write is only reported, and leaves    *)
(* what was there or a file that cannot be parsed).                          *)
WriteMeta(r) ==
  /\ At(r, "meta")
  /\ \/ platform = "macos" /\ meta' \in {NoMeta, [by |-> r, deep |-> rec[r].args.deep]}
     \/ UNCHANGED meta
  /\ To(r, "pipe")
  /\ UNCHANGED <<lock, sock, work, pipe, pend, others>>

(* Open the self-pipe, install the SIGINT handler, start the exit watcher    *)
(* and, with --duration, the timer.  An attach watcher may get no kqueue.    *)
OpenPipe(r) ==
  /\ At(r, "pipe")
  /\ \/ /\ \E w \in (IF rec[r].args.pid THEN {"off", "on"} ELSE {"on"}) :
             rec' = [rec EXCEPT ![r].pc = "wait", ![r].fd = TRUE, ![r].watch = w,
                                ![r].timer = IF rec[r].args.timed THEN "on" ELSE "off"]
        /\ UNCHANGED <<lock, meta>>
     \/ EarlyExit(r) /\ meta' \in (IF platform = "macos" THEN {NoMeta, meta} ELSE {meta})
  /\ UNCHANGED <<sock, work, pipe, pend, others>>

------------------------------------------------------------------------------
(* The target, the writers of the self-pipe and the loop that reads it.      *)

(* The target makes data for every stream while it is being recorded.  What  *)
(* it makes after the stop was decided does not have to be in the trace.     *)
Produce(r) ==
  /\ Alive(r) /\ At(r, "wait") /\ ~rec[r].done
  /\ work[r] \in {"running", "termed"}
  /\ pend' = [pend EXCEPT ![r] = rec[r].streams]
  /\ UNCHANGED <<lock, files, rec, work, pipe, others>>

(* The target exits by itself or because of SIGTERM.  Only the child of a    *)
(* recorder that still runs waits to be reaped.                              *)
TargetExit(r) ==
  /\ work[r] \in {"running", "termed"}
  /\ work' = [work EXCEPT ![r] = IF rec[r].args.pid \/ rec[r].pc \in {"exit", "dead"}
                                 THEN "gone" ELSE "zombie"]
  /\ UNCHANGED <<lock, files, rec, pipe, pend, others>>

(* waitpid_exit_watch reaps the child; kqueue_exit_watch sees NOTE_EXIT or   *)
(* finds no such process.  Then the watcher writes 'X'.                      *)
Reap(r) ==
  /\ rec[r].watch = "on" /\ ~At(r, "exit")
  /\ work[r] \in {"zombie", "gone"}
  /\ work' = [work EXCEPT ![r] = "gone"]
  /\ rec' = [rec EXCEPT ![r].watch = "seen"]
  /\ UNCHANGED <<lock, files, pipe, pend, others>>
WriteByte(r, b) == pipe' = [pipe EXCEPT ![r] = IF rec[r].fd THEN Append(@, b) ELSE @]
WatchWrite(r) ==
  /\ rec[r].watch = "seen" /\ ~At(r, "exit")
  /\ WriteByte(r, "X")
  /\ rec' = [rec EXCEPT ![r].watch = "ended"]
  /\ UNCHANGED <<lock, files, work, pend, others>>

(* duration_timer is detached: it writes whenever it fires.                  *)
TimerFire(r) ==
  /\ rec[r].timer = "on" /\ ~At(r, "exit")
  /\ WriteByte(r, "T")
  /\ rec' = [rec EXCEPT ![r].timer = "off"]
  /\ UNCHANGED <<lock, files, work, pend, others>>

(* SIGINT: handle_sigint writes 'I' while SIGINT_PIPE_FD holds a descriptor; *)
(* before the handler is installed the signal kills the process (Die).       *)
HandleSigint(r) ==
  /\ rec[r].fd
  /\ rec[r].sigs < MaxSigs
  /\ rec' = [rec EXCEPT ![r].sigs = @ + 1]
  /\ WriteByte(r, "I")
  /\ UNCHANGED <<lock, files, work, pend, others>>

(* wait_for_workload_exit reads what is in the pipe and handles every byte   *)
(* of it before it looks at workload_done.                                   *)
ReadPipe(r) ==
  /\ At(r, "wait") /\ rec[r].buf = <<>> /\ ~rec[r].done /\ pipe[r] # <<>>
  /\ rec' = [rec EXCEPT ![r].buf = pipe[r]]
  /\ pipe' = [pipe EXCEPT ![r] = <<>>]
  /\ UNCHANGED <<lock, files, work, pend, others>>

HandleExitByte(r) ==
  /\ At(r, "wait") /\ rec[r].buf # <<>> /\ Head(rec[r].buf) = "X"
  /\ rec' = [rec EXCEPT ![r].buf = Tail(@), ![r].done = TRUE]
  /\ UNCHANGED <<lock, files, work, pipe, pend, others>>

(* The pre-stop hook: take_memory_deep_dump.  A dump needs a target that     *)
(* still runs (a zombie passes kill(pid, 0) but has no runtime to detect)    *)
(* and may fail.                                                             *)
StopByteNext(r) == At(r, "wait") /\ rec[r].buf # <<>> /\ Head(rec[r].buf) \in {"I", "T"}
HookDue(r) == rec[r].args.deep /\ ~rec[r].fired
PreStopHook(r) ==
  /\ StopByteNext(r) /\ HookDue(r)
  /\ \E d \in {"none", "tmp"} :
       /\ d = "tmp" => work[r] \in {"running", "termed"}
       /\ rec' = [rec EXCEPT ![r].fired = TRUE, ![r].dump = d]
  /\ UNCHANGED <<lock, files, work, pipe, pend, others>>

(* A stop byte ends the recording of an attached target; a spawned one gets  *)
(* SIGTERM and the loop goes on waiting for its exit.                        *)
TermBeforeHook(r) ==  \* mutant: SIGTERM does not wait for the hook
  /\ StopByteNext(r)
  /\ rec' = [rec EXCEPT ![r].buf = Tail(@), ![r].done = @ \/ rec[r].args.pid]
  /\ work' = [work EXCEPT ![r] = IF ~rec[r].args.pid /\ @ = "running" THEN "termed" ELSE @]
  /\ UNCHANGED <<lock, files, pipe, pend, others>>
HandleStopByte(r) ==
  /\ StopByteNext(r) /\ ~HookDue(r)
  /\ rec' = [rec EXCEPT ![r].buf = Tail(@), ![r].done = @ \/ rec[r].args.pid]
  /\ work' = [work EXCEPT ![r] = IF ~rec[r].args.pid /\ @ = "running" THEN "termed" ELSE @]
  /\ UNCHANGED <<lock, files, pipe, pend, others>>

LoopEnds(r) ==
  /\ At(r, "wait") /\ rec[r].done /\ rec[r].buf = <<>>
  /\ To(r, IF rec[r].args.long THEN "stop"
           ELSE IF platform = "linux" THEN "shut" ELSE "clone")
  /\ UNCHANGED <<lock, files, work, pipe, pend, others>>

------------------------------------------------------------------------------
(* clone_session_to_file and sismo_consumer_clone_and_stream.               *)

(* A client creates its output file and asks for a clone.                    *)
AskClone(c) ==
  /\ out' = [out EXCEPT ![c] = "partial"]
  /\ clone' = [clone EXCEPT ![c] = [NoClone EXCEPT !.st = "asked", !.left = Chunks]]

(* The streams whose data a flush of session r brings into the buffer: the   *)
(* heap worker and the BPF worker emit before they ack, the ring host acks   *)
(* at once, and a capture that was shut down does nothing.                   *)
FlushAckedAtOnce(r) == {}  \* mutant: a worker acks before it emits
FlushBrings(r) == IF Alive(r) THEN {"heap", "cpu", "offcpu"} ELSE {}

(* The service clones the running session: flush, copy, answer; the client   *)
(* then asks for the trace.  What the copy lacks is noted for a recorder.    *)
ServeClone(c) ==
  /\ clone[c].st = "asked"
  /\ \E r \in Recorders :
       /\ Serving(r) /\ rec[r].ses = "run"
       /\ pend' = [pend EXCEPT ![r] = @ \ FlushBrings(r)]
       /\ clone' = [clone EXCEPT ![c].st = "reading", ![c].of = r]
       /\ rec' = IF c \in Recorders THEN [rec EXCEPT ![c].lacks = pend'[r]] ELSE rec
  /\ UNCHANGED <<platform, lock, files, work, pipe, out, snap>>

(* chunk_cb: after one failed write the rest is skipped.  The last chunk     *)
(* ends the wait; if all were written the file is a whole trace.             *)
Chunk(c) ==
  /\ clone[c].st = "reading" /\ rec[clone[c].of].svc
  /\ \E bad \in BOOLEAN :
       /\ clone' = [clone EXCEPT ![c].bad = @ \/ bad, ![c].left = @ - 1,
                                 ![c].st = IF clone[c].left = 1 THEN "read" ELSE @]
       /\ out' = [out EXCEPT ![c] =
                    IF clone[c].left = 1 /\ ~clone[c].bad /\ ~bad THEN "plain" ELSE @]
  /\ UNCHANGED <<platform, lock, files, rec, work, pipe, pend, snap>>

(* Either wait may time out; the callbacks still to come find `abandoned`    *)
(* set and leave the caller's file alone.                                    *)
GiveUp(c) == clone' = [clone EXCEPT ![c].st = "abandoned"]
LateCallback(c) ==
  /\ clone[c].st = "abandoned"
  /\ clone' = [clone EXCEPT ![c] = NoClone]
  /\ UNCHANGED <<platform, lock, files, rec, work, pipe, pend, out, snap>>

(* The clone of a client that is done with it: the service refuses it, every *)
(* chunk has come, or a wait timed out.                                      *)
CloneReadAll(c) == clone[c].st = "read"  \* mutant: a failed write is forgotten
CloneOk(c) == clone[c].st = "read" /\ ~clone[c].bad
CloneFails(c) == \/ clone[c].st = "asked"
                 \/ clone[c].st = "read" /\ clone[c].bad
CloseClone(c, ok) ==
  \/ ok /\ CloneOk(c) /\ clone' = [clone EXCEPT ![c] = NoClone]
  \/ ~ok /\ CloneFails(c) /\ clone' = [clone EXCEPT ![c] = NoClone]
  \/ ~ok /\ clone[c].st \in {"asked", "reading"} /\ GiveUp(c)

------------------------------------------------------------------------------
(* Saving and tearing down.                                                 *)

(* append_privileged_marker, append_bytes: what the file may be after it.    *)
(* Opening it or write_all may fail, the latter inside a packet: the trace   *)
(* is then whole but ends torn, and all that is appended to it later is      *)
(* buried behind that packet.  Any file that is no trace (anymore) is spoilt.*)
Appended(f) ==
  CASE f = "plain" -> {"plain", "torn"}
    [] f \in {"torn", "buried"} -> {f, "buried"}
    [] OTHER -> {"spoiled"}
Becomes(r, F) == out' \in {[out EXCEPT ![r] = f] : f \in F}

(* Rolling mode: clone_session_to_file.  Creating the file may fail.         *)
SaveAsk(r) ==
  /\ At(r, "clone") /\ clone[r].st = "none"
  /\ \/ AskClone(r) /\ To(r, "cloning")
     \/ To(r, "stop") /\ UNCHANGED <<out, clone>>
  /\ UNCHANGED <<platform, lock, files, work, pipe, pend, snap>>
(* The marker is appended to a trace that was cloned; the file was reported  *)
(* before, and whether that succeeds changes nothing.                        *)
SaveDone(r) ==
  /\ At(r, "cloning")
  /\ \E ok \in BOOLEAN :
       /\ CloseClone(r, ok)
       /\ Becomes(r, IF ok THEN Appended(out[r]) ELSE {out[r]})
       /\ rec' = [rec EXCEPT ![r].wrote = ok,
                    ![r].pc = IF platform = "linux" THEN "names" ELSE "stop"]
  /\ UNCHANGED <<platform, lock, files, work, pipe, pend, snap>>

(* sismo_consumer_session_stop_blocking: the workers emit what they hold and *)
(* ack.  In long-trace mode that completes the file, which the service has   *)
(* written itself and which gets its marker.                                 *)
StopBrings(r) == IF Alive(r) THEN Streams ELSE {}
StopSession(r) ==
  /\ At(r, "stop")
  /\ pend' = [pend EXCEPT ![r] = @ \ StopBrings(r)]
  /\ IF rec[r].args.long
     THEN /\ rec' = [rec EXCEPT ![r].ses = "stopped", ![r].wrote = TRUE, ![r].pc = "shut",
                                ![r].lacks = pend'[r]]
          /\ Becomes(r, Appended("plain"))
     ELSE /\ rec' = [rec EXCEPT ![r].ses = "stopped",
                       ![r].pc = IF platform = "linux" THEN "unpipe" ELSE "shut"]
          /\ UNCHANGED out
  /\ UNCHANGED <<platform, lock, files, work, pipe, clone, snap>>

(* Capture::shutdown / shutdown_captures join the workers and free the       *)
(* captures.  The BPF worker drains the ring buffer once more; its on-CPU    *)
(* writer is flushed when the thread ends, the off-CPU writer is not.        *)
ShutdownBrings(r) == IF Alive(r) /\ platform = "linux" THEN {"cpu"} ELSE {}
Shutdown(r) ==
  /\ At(r, "shut")
  /\ pend' = [pend EXCEPT ![r] = @ \ ShutdownBrings(r)]
  /\ rec' = [rec EXCEPT ![r].cap = IF @ = "up" THEN "freed" ELSE @,
               ![r].pc = IF platform = "linux" /\ ~rec[r].args.long THEN "clone" ELSE "names"]
  /\ UNCHANGED <<lock, files, work, pipe, others>>

(* symbolize_trace appends to the saved trace, or finds nothing to append.   *)
Symbolize(r) ==
  /\ At(r, "names")
  /\ Becomes(r, IF rec[r].wrote THEN Appended(out[r]) ELSE {out[r]})
  /\ To(r, IF platform = "macos" THEN "dump"
           ELSE IF rec[r].args.long THEN "unpipe" ELSE "stop")
  /\ UNCHANGED <<platform, lock, files, work, pipe, pend, clone, snap>>

(* finalize_memory_deep_dump: an hprof goes into a tar with the trace, which *)
(* replaces it by a rename, another dump is placed beside it; no trace, no   *)
(* dump.  A failure leaves the trace alone.  (How a trace ends it also does  *)
(* inside a tar.)                                                            *)
FinalizeDump(r) ==
  /\ At(r, "dump")
  /\ IF rec[r].dump = "tmp" /\ rec[r].wrote
     THEN \E k \in {"tar", "plain"} : out' = [out EXCEPT ![r] = IF @ = "plain" THEN k ELSE @]
     ELSE UNCHANGED out
  /\ rec' = [rec EXCEPT ![r].dump = IF @ = "tmp" THEN "gone" ELSE @, ![r].pc = "unpipe"]
  /\ UNCHANGED <<platform, lock, files, work, pipe, pend, clone, snap>>

(* Join the exit watcher (only of a spawned target), destroy the session,    *)
(* clear SIGINT_PIPE_FD and close the pipe.                                  *)
JoinAnyWatcher(r) ==  \* mutant: an attached target's watcher is joined too
  /\ At(r, "unpipe")
  /\ rec[r].watch = "ended"
  /\ rec' = [rec EXCEPT ![r].fd = FALSE, ![r].ses = "none", ![r].pc = "close"]
  /\ pipe' = [pipe EXCEPT ![r] = <<>>]
  /\ UNCHANGED <<lock, files, work, pend, others>>
ClosePipe(r) ==
  /\ At(r, "unpipe")
  /\ rec[r].args.pid \/ rec[r].watch = "ended"
  /\ rec' = [rec EXCEPT ![r].fd = FALSE, ![r].ses = "none", ![r].pc = "close"]
  /\ pipe' = [pipe EXCEPT ![r] = <<>>]
  /\ UNCHANGED <<lock, files, work, pend, others>>

(* Stop the service; macOS unlinks its sockets and the meta file (ignoring a *)
(* failure); release the lock.                                               *)
Teardown(r) ==
  /\ At(r, "close")
  /\ rec' = [rec EXCEPT ![r].svc = FALSE, ![r].pc = "unlock"]
  /\ IF platform = "macos" THEN sock' \in {None, sock} /\ meta' \in {NoMeta, meta}
     ELSE UNCHANGED files
  /\ UNCHANGED <<lock, work, pipe, pend, others>>
Release(r) ==
  /\ At(r, "unlock")
  /\ lock' = None
  /\ rec' = [rec EXCEPT ![r] = [Fresh EXCEPT !.pc = "exit"]]
  /\ pend' = [pend EXCEPT ![r] = {}]
  /\ out' = [out EXCEPT ![r] = NoFile]
  /\ clone' = [clone EXCEPT ![r] = NoClone]
  /\ UNCHANGED <<platform, files, work, pipe, snap>>

(* The process is killed: the kernel drops its lock and its descriptors, the *)
(* files stay.  A target that was spawned lives on.                          *)
Die(r) ==
  /\ rec[r].pc \notin {"idle", "exit", "dead"}
  /\ Cardinality({q \in Recorders : At(q, "dead")}) < MaxKills
  /\ rec' = [rec EXCEPT ![r] = [Fresh EXCEPT !.pc = "dead"]]
  /\ lock' = IF lock = r THEN None ELSE lock
  /\ pipe' = [pipe EXCEPT ![r] = <<>>]
  /\ pend' = [pend EXCEPT ![r] = {}]
  /\ clone' = [clone EXCEPT ![r] = NoClone]
  /\ out' = [out EXCEPT ![r] = NoFile]
  /\ work' = [work EXCEPT ![r] = IF @ = "zombie" THEN "gone" ELSE @]
  /\ UNCHANGED <<platform, files, snap>>

------------------------------------------------------------------------------
(* sismo snapshot: clone, then in a memory.dump session dump the target that *)
(* the meta file names and attach the dump to the snapshot's own file.       *)
SnapStart(s) ==
  /\ snap[s] = "idle"
  /\ AskClone(s)
  /\ snap' = [snap EXCEPT ![s] = "cloning"]
  /\ UNCHANGED <<platform, lock, files, rec, work, pipe, pend>>
SnapCloned(s) ==
  /\ snap[s] = "cloning"
  /\ \E ok \in BOOLEAN :
       /\ CloseClone(s, ok)
       /\ snap' = [snap EXCEPT ![s] = IF ok THEN "cloned" ELSE "exit"]
       /\ out' = [out EXCEPT ![s] = IF ok THEN @ ELSE NoFile]
  /\ UNCHANGED <<platform, lock, files, rec, work, pipe, pend>>
SnapDump(s) ==
  /\ snap[s] = "cloned"
  /\ \E k \in {"plain", "tar"} :
       /\ k = "tar" => meta # NoMeta /\ meta.deep /\ work[meta.by] \in {"running", "termed"}
       /\ out' = [out EXCEPT ![s] = IF @ = "plain" THEN k ELSE "spoiled"]
  /\ snap' = [snap EXCEPT ![s] = "exit"]
  /\ UNCHANGED <<platform, lock, files, rec, work, pipe, pend, clone>>

------------------------------------------------------------------------------
RecorderStep(r) ==
  \/ CleanStale(r) \/ StartService(r) \/ AcquireTarget(r)
  \/ StartCaptures(r) \/ StartSession(r) \/ WriteMeta(r) \/ OpenPipe(r)
  \/ ReadPipe(r) \/ HandleExitByte(r) \/ PreStopHook(r) \/ HandleStopByte(r)
  \/ LoopEnds(r) \/ SaveAsk(r) \/ SaveDone(r) \/ StopSession(r) \/ Shutdown(r)
  \/ Symbolize(r) \/ FinalizeDump(r) \/ ClosePipe(r) \/ Teardown(r) \/ Release(r)
WatcherStep(r) == Reap(r) \/ WatchWrite(r)
ServiceStep(c) == ServeClone(c) \/ Chunk(c) \/ LateCallback(c)
SnapStep(s) == SnapStart(s) \/ SnapCloned(s) \/ SnapDump(s)

Next ==
  \/ \E r \in Recorders :
       \/ Launch(r) \/ RecorderStep(r) \/ WatcherStep(r) \/ TargetExit(r)
       \/ TimerFire(r) \/ HandleSigint(r) \/ Die(r) \/ Produce(r)
  \/ \E c \in Clients : ServiceStep(c)
  \/ \E s \in Snapshots : SnapStep(s)

(* The recorder and its watcher are scheduled; a workload that was sent      *)
(* SIGTERM ends.                                                             *)
Fairness ==
  \A r \in Recorders :
    /\ WF_vars(RecorderStep(r)) /\ WF_vars(WatcherStep(r))
    /\ WF_vars(work[r] = "termed" /\ TargetExit(r))
Spec == Init /\ [][Next]_vars /\ Fairness

------------------------------------------------------------------------------
(* Properties.                                                              *)

(* The files in /tmp belong to the session that holds the lock: nobody       *)
(* unlinks or rebinds the sockets of a service that runs, or removes or      *)
(* replaces the meta file of a recorder that has not ended, but it.          *)
OthersUntouched ==
  [][/\ sock # None /\ sock' # sock /\ rec[sock].svc => ~rec'[sock].svc
     /\ meta # NoMeta /\ meta' # meta =>
          lock = meta.by \/ rec[meta.by].pc \in {"exit", "dead"}]_vars

(* take_memory_deep_dump runs at most once, while the session records and    *)
(* before the recorder has told the workload to terminate.                   *)
DumpInTime ==
  \A r \in Recorders : rec'[r].dump = "tmp" /\ rec[r].dump # "tmp" =>
    /\ work[r] = "running" /\ rec[r].ses = "run" /\ ~rec[r].fired
(* Every step of a recorder keeps to that.                                   *)
DumpBeforeTerm == [][DumpInTime]_vars

(* A trace reported as saved holds all that the captures had recorded when   *)
(* the stop was decided, up to what a clone cannot bring: the kdebug ring    *)
(* host acks a flush without draining, and the off-CPU writer of a BPF       *)
(* capture that was shut down is never flushed.                              *)
CloneMisses(r) ==
  IF rec[r].args.long THEN {} ELSE IF platform = "macos" THEN {"ring"} ELSE {"offcpu"}
SavedComplete ==
  \A r \in Recorders : rec[r].wrote => rec[r].lacks \subseteq CloneMisses(r)

(* A file reported as written is a whole trace, alone or in a bundle, or     *)
(* begins with one: what is appended to it may be cut short or buried.  No   *)
(* callback of an abandoned clone, no late marker and no symbols get into a  *)
(* file that is not the trace.  (Excepted: a disk that fills up while the    *)
(* service writes a long trace, of which the recorder learns nothing.)       *)
OutputWhole ==
  /\ \A c \in Clients : out[c] # "spoiled"
  /\ \A r \in Recorders : rec[r].wrote => out[r] \in {"plain", "tar", "torn", "buried"}
  /\ \A s \in Snapshots : snap[s] = "cloned" => out[s] = "plain"

(* What the appends rely on: the file is packets one after the other, so     *)
(* that what is appended is read.  It does not hold: a marker that fails     *)
(* half-way is only reported, and the symbols go behind what is left of it.  *)
NothingBuried == \A r \in Recorders : out[r] # "buried"

(* A recorder that was told to stop, or whose target has exited and is       *)
(* watched, ends: it saves, tears down and releases the lock.                *)
ToldToStop(r) ==
  /\ At(r, "wait")
  /\ \/ \E i \in DOMAIN pipe[r] : pipe[r][i] \in {"I", "T"}
     \/ work[r] \in {"zombie", "gone"} /\ rec[r].watch # "off"
RecordingEnds ==
  \A r \in Recorders : ToldToStop(r) ~> (rec[r].pc \in {"exit", "dead"} /\ lock # r)

(* The flush that a clone causes reaches captures that are still there: the  *)
(* worker drains and acks it.                                                *)
FlushReachesCapture ==
  [][\A c \in Clients, r \in Recorders :
       clone[c].st = "asked" /\ clone'[c].st = "reading" /\ clone'[c].of = r
         => rec[r].cap # "freed"]_vars
=============================================================================
