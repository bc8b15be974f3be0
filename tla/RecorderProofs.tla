--------------------------- MODULE RecorderProofs ---------------------------
(***************************************************************************)
(* Proofs about the commands, Recorder and Doctor.                          *)
(*                                                                         *)
(* Everything a session owns in /tmp is safe because the lock is held from  *)
(* Launch to Release; everything a saved trace is supposed to hold was      *)
(* brought into the buffer at another point of the run on each platform and *)
(* in each mode.  The recorder's invariant says where it can be while it    *)
(* holds, owns, lacks or has written what.                                  *)
(*                                                                         *)
(* What an exit code of doctor promises was found out or repaired several   *)
(* steps before, while rebuilds and reboots went on; its invariant carries  *)
(* each finding from the step that made it to the exit.                     *)
(***************************************************************************)
EXTENDS Recorder, Doctor, TLAPS

------------------------------------------------------------------------------
(* The invariant.                                                           *)

(* Where a recorder is, in the order it gets there.                          *)
Starting == {"clean", "serve", "target", "capture", "session", "meta", "pipe"}
Ending == {"clone", "cloning", "stop", "shut", "names", "dump", "unpipe", "close"}
Holding == Starting \cup {"wait"} \cup Ending \cup {"unlock"}
Pcs == Holding \cup {"idle", "exit", "dead"}

Bytes == {"X", "T", "I"}
Watches == {"off", "on", "seen", "ended"}
Timers == {"off", "on"}
RecStates ==
  [pc : Pcs, args : RecordArgs, svc : BOOLEAN, ses : {"none", "run", "stopped"},
   cap : {"none", "up", "freed"}, streams : SUBSET Streams, watch : Watches,
   timer : Timers, fd : BOOLEAN, sigs : Nat, buf : Seq(Bytes), done : BOOLEAN,
   fired : BOOLEAN, dump : {"none", "tmp", "gone"}, wrote : BOOLEAN, lacks : SUBSET Streams]
Files == {"none", "partial", "plain", "tar", "torn", "buried", "spoiled"}
TraceFirst == {"plain", "torn", "buried"}
CloneStates == {"none", "asked", "reading", "read", "abandoned"}
Clones == [st : CloneStates, of : Recorders \cup {None},
           left : Int, bad : BOOLEAN]
RecTypes ==
  /\ platform \in {"macos", "linux"}
  /\ lock \in Recorders \cup {None} /\ sock \in Recorders \cup {None}
  /\ meta # NoMeta => meta.by \in Recorders
  /\ rec \in [Recorders -> RecStates]
  /\ work \in [Recorders -> {"none", "running", "termed", "zombie", "gone"}]
  /\ pipe \in [Recorders -> Seq(Bytes)]
  /\ pend \in [Recorders -> SUBSET Streams]
  /\ out \in [Clients -> Files]
  /\ clone \in [Clients -> Clones]
  /\ snap \in [Snapshots -> {"idle", "cloning", "cloned", "exit"}]

(* The lock is held from Launch to Release, the service runs within.         *)
HoldsLock(r) ==
  /\ lock = r <=> rec[r].pc \in Holding
  /\ rec[r].svc => rec[r].pc \in (Starting \ {"clean", "serve"}) \cup {"wait"} \cup Ending

(* The meta file is there on macOS only; it is of a recorder that wrote it   *)
(* and has not removed it yet, could not, or was killed.                     *)
MetaOwned ==
  meta # NoMeta =>
    /\ platform = "macos"
    /\ rec[meta.by].pc \in {"pipe", "wait", "unlock", "exit", "dead"} \cup Ending

(* The session records while the loop waits; SIGTERM comes after the hook.   *)
HookFirst(r) ==
  /\ rec[r].pc \in {"meta", "pipe", "wait"} => rec[r].ses = "run"
  /\ rec[r].pc \in Holding /\ work[r] = "termed" /\ rec[r].args.deep => rec[r].fired

(* What may be outside the buffer: nothing without a capture, what the       *)
(* platform's captures produce, and on Linux, once the capture was shut down *)
(* for the clone, the off-CPU samples alone.                                 *)
Rolling(r) == ~rec[r].args.long
ShutEarly(r) == platform = "linux" /\ Rolling(r)
Outstanding(r) ==
  /\ rec[r].streams \subseteq (IF platform = "macos" THEN {"ring", "heap"} ELSE {"cpu", "offcpu"})
  /\ pend[r] \subseteq rec[r].streams
  /\ rec[r].pc \in Starting \cup {"idle"} => pend[r] = {}
  /\ rec[r].cap = "none" => rec[r].streams = {}
  /\ rec[r].cap = "freed" =>
       rec[r].pc \in {"names", "dump", "unpipe", "close", "unlock"}
                       \cup (IF ShutEarly(r) THEN {"clone", "cloning", "stop"} ELSE {})
  /\ ShutEarly(r) /\ rec[r].pc \in {"clone", "cloning"} => pend[r] \subseteq {"offcpu"}

(* A clone under way belongs to a client that waits for it; one that was     *)
(* read without an error is a whole trace.                                   *)
UnderWay(c) == clone[c].st \in {"asked", "reading", "read"}
Awaited(c) ==
  /\ out[c] # "spoiled"
  /\ clone[c].st = "read" /\ ~clone[c].bad => out[c] = "plain"
CloneAwaited(r) ==
  /\ UnderWay(r) => rec[r].pc = "cloning"
  /\ clone[r].st \in {"reading", "read"} => rec[r].lacks \subseteq CloneMisses(r)
  /\ rec[r].pc \in {"clone", "cloning"} => Rolling(r) /\ ~rec[r].wrote
SnapAwaited(s) ==
  /\ UnderWay(s) => snap[s] = "cloning"
  /\ snap[s] = "cloned" => out[s] = "plain"

(* A trace that was saved stays at the head of its file, and that file a     *)
(* trace until the dump is finalized.                                        *)
Saved(r) ==
  /\ rec[r].wrote =>
       /\ rec[r].lacks \subseteq CloneMisses(r)
       /\ rec[r].pc \in {"stop", "shut", "names", "dump", "unpipe", "close", "unlock"}
       /\ out[r] \in (IF rec[r].pc \in {"stop", "shut", "names", "dump"} THEN TraceFirst
                      ELSE TraceFirst \cup {"tar"})
  /\ ShutEarly(r) /\ rec[r].pc = "shut" => ~rec[r].wrote

RecorderStands(r) ==
  HoldsLock(r) /\ HookFirst(r) /\ Outstanding(r) /\ Awaited(r) /\ CloneAwaited(r) /\ Saved(r)
SnapshotStands(s) == Awaited(s) /\ SnapAwaited(s)
RecorderInv ==
  /\ RecTypes /\ MetaOwned
  /\ \A r \in Recorders : RecorderStands(r)
  /\ \A s \in Snapshots : SnapshotStands(s)

------------------------------------------------------------------------------
(* What one recorder's step leaves alone.                                   *)

(* A process before it starts, and what is left of it when it ends.          *)
LEMMA FreshTyped == Fresh \in RecStates /\ \A p \in Pcs : [Fresh EXCEPT !.pc = p] \in RecStates
<1>1. TRUE \in BOOLEAN /\ FALSE \in BOOLEAN
  BY Zenon
<1>2. NoArgs \in RecordArgs
  BY <1>1 DEF NoArgs, RecordArgs
<1>3. <<>> \in Seq(Bytes)
  OBVIOUS
<1> QED BY <1>1, <1>2, <1>3 DEF Fresh, RecStates, Pcs, Holding, Watches, Timers

(* A client without a clone, with one it asked for, and with one it gave up. *)
LEMMA NoCloneTyped == NoClone \in Clones /\ NoClone.st = "none"
<1>1. FALSE \in BOOLEAN
  BY Zenon
<1> QED BY <1>1 DEF NoClone, Clones, CloneStates

(* A clone that was just asked for.                                          *)
LEMMA AskedTyped ==
  /\ [NoClone EXCEPT !.st = "asked", !.left = Chunks] \in Clones
  /\ [NoClone EXCEPT !.st = "asked", !.left = Chunks].st = "asked"
<1>1. Chunks \in Int
  BY RecorderAssumption
<1> QED BY <1>1, NoCloneTyped DEF Clones, CloneStates

(* A clone whose client gave it up.                                          *)
LEMMA AbandonedTyped ==
  \A k \in Clones : [k EXCEPT !.st = "abandoned"] \in Clones /\ [k EXCEPT !.st = "abandoned"].st = "abandoned"
BY DEF Clones, CloneStates

(* A client closes its clone: with a success, what was read is a whole trace. *)
LEMMA ClosesClone ==
  ASSUME RecorderInv, NEW c \in Clients, NEW ok \in BOOLEAN, CloseClone(c, ok)
  PROVE  /\ clone' = [clone EXCEPT ![c] = clone'[c]] /\ clone'[c] \in Clones
         /\ clone'[c].st \in {"none", "abandoned"}
         /\ ok => clone[c].st = "read" /\ ~clone[c].bad
<1>1. clone \in [Clients -> Clones]
  BY DEF RecorderInv, RecTypes
<1>2. CASE ok /\ CloneOk(c) /\ clone' = [clone EXCEPT ![c] = NoClone]
  BY <1>1, <1>2, NoCloneTyped DEF CloneOk
<1>3. CASE ~ok /\ CloneFails(c) /\ clone' = [clone EXCEPT ![c] = NoClone]
  BY <1>1, <1>3, NoCloneTyped
<1>4. CASE ~ok /\ clone[c].st \in {"asked", "reading"} /\ GiveUp(c)
  <2>1. clone' = [clone EXCEPT ![c] = [clone[c] EXCEPT !.st = "abandoned"]]
    BY <1>4 DEF GiveUp
  <2> QED BY <1>1, <1>4, <2>1, AbandonedTyped
<1> QED BY <1>2, <1>3, <1>4 DEF CloseClone

(* A chunk touches the file of the client that waits for it alone, and makes *)
(* it whole with the last one.                                               *)
LEMMA ChunkGives ==
  ASSUME RecorderInv, NEW c \in Clients, Chunk(c)
  PROVE  /\ clone' = [clone EXCEPT ![c] = clone'[c]] /\ clone'[c] \in Clones
         /\ clone'[c].st \in {"reading", "read"}
         /\ out' = [out EXCEPT ![c] = out'[c]] /\ out'[c] \in Files /\ out'[c] \in {out[c], "plain"}
         /\ (clone'[c].st = "read" /\ ~clone'[c].bad => out'[c] = "plain") /\ clone[c].st = "reading"
<1>1. clone \in [Clients -> Clones] /\ out \in [Clients -> Files]
  BY DEF RecorderInv, RecTypes
<1>2. PICK bad \in BOOLEAN :
        /\ clone' = [clone EXCEPT ![c].bad = @ \/ bad, ![c].left = @ - 1,
                                  ![c].st = IF clone[c].left = 1 THEN "read" ELSE @]
        /\ out' = [out EXCEPT ![c] =
                     IF clone[c].left = 1 /\ ~clone[c].bad /\ ~bad THEN "plain" ELSE @]
  BY DEF Chunk
<1> DEFINE b == clone[c].bad \/ bad
           st == IF clone[c].left = 1 THEN "read" ELSE clone[c].st
           left == clone[c].left - 1
           k == [clone[c] EXCEPT !.bad = b, !.left = left, !.st = st]
           f == IF clone[c].left = 1 /\ ~clone[c].bad /\ ~bad THEN "plain" ELSE out[c]
<1>3. clone[c].st = "reading"
  BY DEF Chunk
<1>4. b \in BOOLEAN
  BY Zenon
<1>5. st \in {"reading", "read"} /\ (st = "read" <=> clone[c].left = 1) /\ st \in CloneStates
  BY <1>3 DEF CloneStates
<1>6. f \in Files /\ f \in {out[c], "plain"} /\ (st = "read" /\ ~b => f = "plain")
  BY <1>1, <1>5 DEF Files
<1>7. clone' = [clone EXCEPT ![c] = k] /\ out' = [out EXCEPT ![c] = f]
  BY <1>2
<1>8. clone[c] \in Clones
  BY <1>1
<1>l. left \in Int
  BY <1>8 DEF Clones
<1> HIDE DEF b, st, f, left
<1>9. k \in Clones /\ k.st = st /\ k.bad = b
  <2>1. k \in Clones
    BY <1>4, <1>5, <1>8, <1>l DEF Clones
  <2>2. k.st = st
    BY <1>8 DEF Clones
  <2>3. k.bad = b
    BY <1>8, Zenon DEF Clones
  <2> QED BY <2>1, <2>2, <2>3
<1> HIDE DEF k
<1> QED BY <1>1, <1>3, <1>5, <1>6, <1>7, <1>9

(* The processes but r, and the lock but for r's taking or dropping it.      *)
StepOf(r) ==
  /\ platform' = platform
  /\ \A q \in Recorders \ {r} : rec'[q] = rec[q] /\ pend'[q] = pend[q] /\ work'[q] = work[q]
  /\ \A c \in Clients \ {r} : out'[c] = out[c] /\ clone'[c] = clone[c]
  /\ lock' = lock \/ (lock = r /\ lock' = None) \/ (lock = None /\ lock' = r)
OthersStand(r) ==
  /\ \A q \in Recorders \ {r} : RecorderStands(q)
  /\ \A s \in Snapshots : SnapshotStands(s)

(* A step of one recorder leaves every other client as it is.                *)
LEMMA OthersKept ==
  ASSUME RecorderInv, NEW r \in Recorders, StepOf(r), snap' = snap
  PROVE  OthersStand(r)'
<1>1. ASSUME NEW q \in Recorders \ {r} PROVE RecorderStands(q)'
  <2>1. /\ rec'[q] = rec[q] /\ pend'[q] = pend[q] /\ work'[q] = work[q] /\ platform' = platform
        /\ out'[q] = out[q] /\ clone'[q] = clone[q] /\ (lock' = q <=> lock = q)
    BY RecorderAssumption DEF StepOf, Clients
  <2>2. RecorderStands(q)
    BY DEF RecorderInv
  <2> QED BY <2>1, <2>2 DEF RecorderStands, HoldsLock, HookFirst, Outstanding, Awaited,
            CloneAwaited, Saved, UnderWay, Rolling, ShutEarly, CloneMisses
<1>2. ASSUME NEW s \in Snapshots PROVE SnapshotStands(s)'
  <2>1. out'[s] = out[s] /\ clone'[s] = clone[s] /\ snap'[s] = snap[s]
    BY RecorderAssumption DEF StepOf, Clients
  <2>2. SnapshotStands(s)
    BY DEF RecorderInv
  <2> QED BY <2>1, <2>2 DEF SnapshotStands, Awaited, SnapAwaited, UnderWay
<1> QED BY <1>1, <1>2 DEF OthersStand

(* So it keeps the invariant if it does for its own recorder.                *)
LEMMA StepKeeps ==
  ASSUME RecorderInv, NEW r \in Recorders, StepOf(r), snap' = snap,
         RecTypes', MetaOwned', RecorderStands(r)'
  PROVE  RecorderInv'
BY OthersKept DEF RecorderInv, OthersStand

(* What a step writes into its recorder's record, and nothing else there.    *)
LEMMA Edited ==
  ASSUME RecorderInv, NEW r \in Recorders, NEW x \in RecStates, rec' = [rec EXCEPT ![r] = x]
  PROVE  /\ rec' \in [Recorders -> RecStates] /\ rec'[r] = x
         /\ \A q \in Recorders \ {r} : rec'[q] = rec[q]
BY DEF RecorderInv, RecTypes

------------------------------------------------------------------------------
(* Every step keeps the invariant.                                          *)

Starts(r) ==
  \/ Launch(r) \/ CleanStale(r) \/ StartService(r) \/ AcquireTarget(r)
  \/ StartCaptures(r) \/ StartSession(r) \/ WriteMeta(r) \/ OpenPipe(r)
LoopSteps(r) ==
  \/ Produce(r) \/ TargetExit(r) \/ Reap(r) \/ WatchWrite(r) \/ TimerFire(r) \/ HandleSigint(r)
  \/ ReadPipe(r) \/ HandleExitByte(r) \/ PreStopHook(r) \/ HandleStopByte(r) \/ LoopEnds(r)
Saves(r) ==
  \/ SaveAsk(r) \/ SaveDone(r) \/ StopSession(r) \/ Shutdown(r) \/ Symbolize(r) \/ FinalizeDump(r)
Ends(r) == ClosePipe(r) \/ Teardown(r) \/ Release(r) \/ Die(r)

(* A recorder that starts takes the lock first; every early exit drops it.   *)
LEMMA StartKeeps ==
  ASSUME RecorderInv, NEW r \in Recorders, Starts(r)
  PROVE  RecorderInv'
<1> USE DEF RecorderStands, HoldsLock, HookFirst, Outstanding, Awaited, CloneAwaited, Saved,
            UnderWay, Rolling, ShutEarly, CloneMisses, Holding, Starting, Ending
<1>r. rec[r] \in RecStates
  BY DEF RecorderInv, RecTypes
<1>s. rec = [rec EXCEPT ![r] = rec[r]]
  BY DEF RecorderInv, RecTypes
<1>t. /\ RecorderStands(r) /\ MetaOwned /\ r # None
      /\ work \in [Recorders -> {"none", "running", "termed", "zombie", "gone"}]
      /\ pend \in [Recorders -> SUBSET Streams] /\ pipe \in [Recorders -> Seq(Bytes)]
      /\ r \in Clients /\ clone \in [Clients -> Clones] /\ out \in [Clients -> Files]
  BY RecorderAssumption DEF RecorderInv, RecTypes, Clients
<1>b. TRUE \in BOOLEAN /\ FALSE \in BOOLEAN
  BY Zenon
<1>1. CASE Launch(r)
  <2>1. CASE \E a \in Args[r] :
              /\ ArgsAccepted(a) /\ Locked(r)
              /\ rec' = [rec EXCEPT ![r].args = a,
                           ![r].pc = IF platform = "macos" THEN "clean" ELSE "serve"]
              /\ work' = [work EXCEPT ![r] = IF a.pid THEN "running" ELSE "none"]
    <3>a. PICK a \in Args[r] :
            /\ ArgsAccepted(a) /\ Locked(r)
            /\ rec' = [rec EXCEPT ![r].args = a,
                         ![r].pc = IF platform = "macos" THEN "clean" ELSE "serve"]
            /\ work' = [work EXCEPT ![r] = IF a.pid THEN "running" ELSE "none"]
      BY <2>1
    <3>b. a \in RecordArgs
      BY RecorderAssumption
    <3> DEFINE x == [rec[r] EXCEPT !.args = a, !.pc = IF platform = "macos" THEN "clean" ELSE "serve"]
    <3>1. /\ rec' = [rec EXCEPT ![r] = x]
          /\ rec[r].pc = "idle"
          /\ lock = None /\ lock' = r
          /\ work' = [work EXCEPT ![r] = IF a.pid THEN "running" ELSE "none"]
          /\ UNCHANGED <<platform, sock, meta, pipe, pend, out, clone, snap>>
      BY <2>1, <1>1, <3>a DEF Launch, Locked, At, others, files
    <3>2. x \in RecStates
      BY <1>r, <3>b DEF RecStates, Pcs
    <3>3. /\ x.pc = (IF platform = "macos" THEN "clean" ELSE "serve") /\ x.args = a
          /\ x.svc = rec[r].svc /\ x.ses = rec[r].ses /\ x.cap = rec[r].cap
          /\ x.streams = rec[r].streams /\ x.fired = rec[r].fired /\ x.lacks = rec[r].lacks
          /\ x.wrote = rec[r].wrote /\ x.dump = rec[r].dump
      BY <1>r DEF RecStates
    <3>4. /\ rec' \in [Recorders -> RecStates] /\ rec'[r] = x
          /\ \A o \in Recorders \ {r} : rec'[o] = rec[o]
      BY <3>1, <3>2, Edited
    <3> HIDE DEF x
    <3>5. RecorderStands(r)'
      BY <1>r, <1>t, <3>1, <3>3, <3>4
    <3>6. RecTypes'
      BY <1>t, <3>1, <3>4 DEF RecorderInv, RecTypes
    <3>7. MetaOwned'
      BY <1>t, <3>1, <3>3, <3>4 DEF MetaOwned
    <3>8. StepOf(r)
      BY <1>t, <3>1, <3>4 DEF StepOf, RecorderInv, RecTypes, Clients
    <3> QED BY <3>1, <3>5, <3>6, <3>7, <3>8, StepKeeps
  <2>2. CASE To(r, "exit") /\ UNCHANGED <<lock, work>>
    <3> DEFINE x == [rec[r] EXCEPT !.pc = "exit"]
    <3>1. /\ rec' = [rec EXCEPT ![r] = x]
          /\ rec[r].pc = "idle"
          /\ UNCHANGED <<platform, lock, sock, meta, work, pipe, pend, out, clone, snap>>
      BY <2>2, <1>1 DEF Launch, At, To, others, files
    <3>2. x \in RecStates
      BY <1>r DEF RecStates, Pcs
    <3>3. /\ x.pc = "exit"
          /\ x.args = rec[r].args /\ x.svc = rec[r].svc /\ x.ses = rec[r].ses
          /\ x.cap = rec[r].cap /\ x.streams = rec[r].streams /\ x.fired = rec[r].fired
          /\ x.lacks = rec[r].lacks /\ x.wrote = rec[r].wrote /\ x.dump = rec[r].dump
      BY <1>r DEF RecStates
    <3>4. /\ rec' \in [Recorders -> RecStates] /\ rec'[r] = x
          /\ \A o \in Recorders \ {r} : rec'[o] = rec[o]
      BY <3>1, <3>2, Edited
    <3> HIDE DEF x
    <3>5. RecorderStands(r)'
      BY <1>r, <1>t, <3>1, <3>3, <3>4
    <3>6. RecTypes'
      BY <1>t, <3>1, <3>4 DEF RecorderInv, RecTypes
    <3>7. MetaOwned'
      BY <1>t, <3>1, <3>3, <3>4 DEF MetaOwned
    <3>8. StepOf(r)
      BY <1>t, <3>1, <3>4 DEF StepOf, RecorderInv, RecTypes, Clients
    <3> QED BY <3>1, <3>5, <3>6, <3>7, <3>8, StepKeeps
  <2> QED BY <1>1, <2>1, <2>2 DEF Launch
<1>2. CASE CleanStale(r)
  <2> DEFINE x == [rec[r] EXCEPT !.pc = "serve"]
  <2>1. /\ rec' = [rec EXCEPT ![r] = x]
        /\ rec[r].pc = "clean"
        /\ sock' \in {None, sock} /\ meta' \in {NoMeta, meta}
        /\ UNCHANGED <<platform, lock, work, pipe, pend, out, clone, snap>>
    BY <1>2 DEF CleanStale, At, To, others, files
  <2>2. x \in RecStates
    BY <1>r DEF RecStates, Pcs
  <2>3. /\ x.pc = "serve"
        /\ x.args = rec[r].args /\ x.svc = rec[r].svc /\ x.ses = rec[r].ses
        /\ x.cap = rec[r].cap /\ x.streams = rec[r].streams /\ x.fired = rec[r].fired
        /\ x.lacks = rec[r].lacks /\ x.wrote = rec[r].wrote /\ x.dump = rec[r].dump
    BY <1>r DEF RecStates
  <2>4. /\ rec' \in [Recorders -> RecStates] /\ rec'[r] = x
        /\ \A o \in Recorders \ {r} : rec'[o] = rec[o]
    BY <2>1, <2>2, Edited
  <2> HIDE DEF x
  <2>5. RecorderStands(r)'
    BY <1>r, <1>t, <2>1, <2>3, <2>4
  <2>6. RecTypes'
    BY <1>t, <2>1, <2>4 DEF RecorderInv, RecTypes
  <2>7. MetaOwned'
    BY <1>t, <2>1, <2>3, <2>4 DEF MetaOwned
  <2>8. StepOf(r)
    BY <1>t, <2>1, <2>4 DEF StepOf, RecorderInv, RecTypes, Clients
  <2> QED BY <2>1, <2>5, <2>6, <2>7, <2>8, StepKeeps
<1>3. CASE StartService(r)
  <2>1. CASE /\ sock' = r /\ UNCHANGED lock
             /\ rec' = [rec EXCEPT ![r].pc = "target", ![r].svc = TRUE]
    <3> DEFINE x == [rec[r] EXCEPT !.pc = "target", !.svc = TRUE]
    <3>1. /\ rec' = [rec EXCEPT ![r] = x]
          /\ rec[r].pc = "serve"
          /\ sock' = r
          /\ UNCHANGED <<platform, lock, meta, work, pipe, pend, out, clone, snap>>
      BY <2>1, <1>3 DEF StartService, At, To, others, files
    <3>2. x \in RecStates
      BY <1>r, <1>b DEF RecStates, Pcs
    <3>3. /\ x.pc = "target" /\ x.svc = TRUE
          /\ x.args = rec[r].args /\ x.ses = rec[r].ses /\ x.cap = rec[r].cap
          /\ x.streams = rec[r].streams /\ x.fired = rec[r].fired /\ x.lacks = rec[r].lacks
          /\ x.wrote = rec[r].wrote /\ x.dump = rec[r].dump
      BY <1>r DEF RecStates
    <3>4. /\ rec' \in [Recorders -> RecStates] /\ rec'[r] = x
          /\ \A o \in Recorders \ {r} : rec'[o] = rec[o]
      BY <3>1, <3>2, Edited
    <3> HIDE DEF x
    <3>5. RecorderStands(r)'
      BY <1>r, <1>t, <3>1, <3>3, <3>4
    <3>6. RecTypes'
      BY <1>t, <3>1, <3>4 DEF RecorderInv, RecTypes
    <3>7. MetaOwned'
      BY <1>t, <3>1, <3>3, <3>4 DEF MetaOwned
    <3>8. StepOf(r)
      BY <1>t, <3>1, <3>4 DEF StepOf, RecorderInv, RecTypes, Clients
    <3> QED BY <3>1, <3>5, <3>6, <3>7, <3>8, StepKeeps
  <2>2. CASE lock' = None /\ To(r, "exit") /\ sock' \in {None, sock}
    <3> DEFINE x == [rec[r] EXCEPT !.pc = "exit"]
    <3>1. /\ rec' = [rec EXCEPT ![r] = x]
          /\ rec[r].pc = "serve"
          /\ lock' = None /\ sock' \in {None, sock}
          /\ UNCHANGED <<platform, meta, work, pipe, pend, out, clone, snap>>
      BY <2>2, <1>3 DEF StartService, At, To, others, files
    <3>2. x \in RecStates
      BY <1>r DEF RecStates, Pcs
    <3>3. /\ x.pc = "exit"
          /\ x.args = rec[r].args /\ x.svc = rec[r].svc /\ x.ses = rec[r].ses
          /\ x.cap = rec[r].cap /\ x.streams = rec[r].streams /\ x.fired = rec[r].fired
          /\ x.lacks = rec[r].lacks /\ x.wrote = rec[r].wrote /\ x.dump = rec[r].dump
      BY <1>r DEF RecStates
    <3>4. /\ rec' \in [Recorders -> RecStates] /\ rec'[r] = x
          /\ \A o \in Recorders \ {r} : rec'[o] = rec[o]
      BY <3>1, <3>2, Edited
    <3> HIDE DEF x
    <3>5. RecorderStands(r)'
      BY <1>r, <1>t, <3>1, <3>3, <3>4
    <3>6. RecTypes'
      BY <1>t, <3>1, <3>4 DEF RecorderInv, RecTypes
    <3>7. MetaOwned'
      BY <1>t, <3>1, <3>3, <3>4 DEF MetaOwned
    <3>8. StepOf(r)
      BY <1>t, <3>1, <3>4 DEF StepOf, RecorderInv, RecTypes, Clients
    <3> QED BY <3>1, <3>5, <3>6, <3>7, <3>8, StepKeeps
  <2> QED BY <1>3, <2>1, <2>2 DEF StartService
<1>4. CASE AcquireTarget(r)
  <2>1. CASE /\ To(r, "capture") /\ UNCHANGED lock
             /\ work' = [work EXCEPT ![r] = "running"]
    <3> DEFINE x == [rec[r] EXCEPT !.pc = "capture"]
    <3>1. /\ rec' = [rec EXCEPT ![r] = x]
          /\ rec[r].pc = "target"
          /\ work' = [work EXCEPT ![r] = "running"]
          /\ UNCHANGED <<platform, lock, sock, meta, pipe, pend, out, clone, snap>>
      BY <2>1, <1>4 DEF AcquireTarget, At, To, others, files
    <3>2. x \in RecStates
      BY <1>r DEF RecStates, Pcs
    <3>3. /\ x.pc = "capture"
          /\ x.args = rec[r].args /\ x.svc = rec[r].svc /\ x.ses = rec[r].ses
          /\ x.cap = rec[r].cap /\ x.streams = rec[r].streams /\ x.fired = rec[r].fired
          /\ x.lacks = rec[r].lacks /\ x.wrote = rec[r].wrote /\ x.dump = rec[r].dump
      BY <1>r DEF RecStates
    <3>4. /\ rec' \in [Recorders -> RecStates] /\ rec'[r] = x
          /\ \A o \in Recorders \ {r} : rec'[o] = rec[o]
      BY <3>1, <3>2, Edited
    <3> HIDE DEF x
    <3>5. RecorderStands(r)'
      BY <1>r, <1>t, <3>1, <3>3, <3>4
    <3>6. RecTypes'
      BY <1>t, <3>1, <3>4 DEF RecorderInv, RecTypes
    <3>7. MetaOwned'
      BY <1>t, <3>1, <3>3, <3>4 DEF MetaOwned
    <3>8. StepOf(r)
      BY <1>t, <3>1, <3>4 DEF StepOf, RecorderInv, RecTypes, Clients
    <3> QED BY <3>1, <3>5, <3>6, <3>7, <3>8, StepKeeps
  <2>2. CASE EarlyExit(r) /\ UNCHANGED work
    <3> DEFINE x == [Fresh EXCEPT !.pc = "exit"]
    <3>1. /\ rec' = [rec EXCEPT ![r] = x]
          /\ rec[r].pc = "target"
          /\ lock' = None
          /\ UNCHANGED <<platform, sock, meta, work, pipe, pend, out, clone, snap>>
      BY <2>2, <1>4 DEF EarlyExit, AcquireTarget, At, others, files
    <3>2. x \in RecStates
      BY FreshTyped DEF Pcs
    <3>3. /\ x.pc = "exit" /\ ~x.svc /\ x.cap = "none" /\ x.streams = {}
          /\ ~x.wrote /\ x.lacks = {} /\ x.args = NoArgs /\ x.dump = "none"
      BY <1>r DEF Fresh
    <3>4. /\ rec' \in [Recorders -> RecStates] /\ rec'[r] = x
          /\ \A o \in Recorders \ {r} : rec'[o] = rec[o]
      BY <3>1, <3>2, Edited
    <3> HIDE DEF x
    <3>5. RecorderStands(r)'
      BY <1>r, <1>t, <3>1, <3>3, <3>4
    <3>6. RecTypes'
      BY <1>t, <3>1, <3>4 DEF RecorderInv, RecTypes
    <3>7. MetaOwned'
      BY <1>t, <3>1, <3>3, <3>4 DEF MetaOwned
    <3>8. StepOf(r)
      BY <1>t, <3>1, <3>4 DEF StepOf, RecorderInv, RecTypes, Clients
    <3> QED BY <3>1, <3>5, <3>6, <3>7, <3>8, StepKeeps
  <2> QED BY <1>4, <2>1, <2>2 DEF AcquireTarget
<1>5. CASE StartCaptures(r)
  <2>a. PICK S \in SUBSET StreamsOf(rec[r].args) :
           rec' = [rec EXCEPT ![r].pc = "session", ![r].streams = S,
                              ![r].cap = IF S = {} THEN "none" ELSE "up"]
    BY <1>5 DEF StartCaptures
  <2>p. platform \in {"macos", "linux"}
    BY DEF RecorderInv, RecTypes
  <2>b. S \subseteq (IF platform = "macos" THEN {"ring", "heap"} ELSE {"cpu", "offcpu"})
    BY <2>p DEF StreamsOf
  <2> DEFINE c == IF S = {} THEN "none" ELSE "up"
  <2>c. S \in SUBSET Streams /\ c \in {"none", "up"} /\ (c = "none" => S = {})
    BY <2>b DEF Streams
  <2> HIDE DEF c
  <2> DEFINE x == [rec[r] EXCEPT !.pc = "session", !.streams = S, !.cap = c]
  <2>1. /\ rec' = [rec EXCEPT ![r] = x]
        /\ rec[r].pc = "capture"
        /\ UNCHANGED <<platform, lock, sock, meta, work, pipe, pend, out, clone, snap>>
    BY <1>5, <2>a DEF c, StartCaptures, At, others, files
  <2>2. x \in RecStates
    BY <1>r, <2>c, ZenonT(60) DEF RecStates, Pcs
  <2>3. /\ x.pc = "session" /\ x.streams = S
        /\ x.cap = c
        /\ x.args = rec[r].args /\ x.svc = rec[r].svc /\ x.ses = rec[r].ses
        /\ x.fired = rec[r].fired /\ x.lacks = rec[r].lacks /\ x.wrote = rec[r].wrote
        /\ x.dump = rec[r].dump
    BY <1>r DEF RecStates
  <2>4. /\ rec' \in [Recorders -> RecStates] /\ rec'[r] = x
        /\ \A o \in Recorders \ {r} : rec'[o] = rec[o]
    BY <2>1, <2>2, Edited
  <2> HIDE DEF x
  <2>5. RecorderStands(r)'
    BY <1>r, <1>t, <2>1, <2>3, <2>4, <2>b, <2>c, <2>p
  <2>6. RecTypes'
    BY <1>t, <2>1, <2>4 DEF RecorderInv, RecTypes
  <2>7. MetaOwned'
    BY <1>t, <2>1, <2>3, <2>4 DEF MetaOwned
  <2>8. StepOf(r)
    BY <1>t, <2>1, <2>4 DEF StepOf, RecorderInv, RecTypes, Clients
  <2> QED BY <2>1, <2>5, <2>6, <2>7, <2>8, StepKeeps
<1>6. CASE StartSession(r)
  <2>1. CASE /\ UNCHANGED lock
             /\ rec' = [rec EXCEPT ![r].pc = "meta", ![r].ses = "run"]
    <3> DEFINE x == [rec[r] EXCEPT !.pc = "meta", !.ses = "run"]
    <3>1. /\ rec' = [rec EXCEPT ![r] = x]
          /\ rec[r].pc = "session"
          /\ UNCHANGED <<platform, lock, sock, meta, work, pipe, pend, out, clone, snap>>
      BY <2>1, <1>6 DEF StartSession, At, To, others, files
    <3>2. x \in RecStates
      BY <1>r DEF RecStates, Pcs
    <3>3. /\ x.pc = "meta" /\ x.ses = "run"
          /\ x.args = rec[r].args /\ x.svc = rec[r].svc /\ x.cap = rec[r].cap
          /\ x.streams = rec[r].streams /\ x.fired = rec[r].fired /\ x.lacks = rec[r].lacks
          /\ x.wrote = rec[r].wrote /\ x.dump = rec[r].dump
      BY <1>r DEF RecStates
    <3>4. /\ rec' \in [Recorders -> RecStates] /\ rec'[r] = x
          /\ \A o \in Recorders \ {r} : rec'[o] = rec[o]
      BY <3>1, <3>2, Edited
    <3> HIDE DEF x
    <3>5. RecorderStands(r)'
      BY <1>r, <1>t, <3>1, <3>3, <3>4
    <3>6. RecTypes'
      BY <1>t, <3>1, <3>4 DEF RecorderInv, RecTypes
    <3>7. MetaOwned'
      BY <1>t, <3>1, <3>3, <3>4 DEF MetaOwned
    <3>8. StepOf(r)
      BY <1>t, <3>1, <3>4 DEF StepOf, RecorderInv, RecTypes, Clients
    <3> QED BY <3>1, <3>5, <3>6, <3>7, <3>8, StepKeeps
  <2>2. CASE EarlyExit(r)
    <3> DEFINE x == [Fresh EXCEPT !.pc = "exit"]
    <3>1. /\ rec' = [rec EXCEPT ![r] = x]
          /\ rec[r].pc = "session"
          /\ lock' = None
          /\ UNCHANGED <<platform, sock, meta, work, pipe, pend, out, clone, snap>>
      BY <2>2, <1>6 DEF EarlyExit, StartSession, At, others, files
    <3>2. x \in RecStates
      BY FreshTyped DEF Pcs
    <3>3. /\ x.pc = "exit" /\ ~x.svc /\ x.cap = "none" /\ x.streams = {}
          /\ ~x.wrote /\ x.lacks = {} /\ x.args = NoArgs /\ x.dump = "none"
      BY <1>r DEF Fresh
    <3>4. /\ rec' \in [Recorders -> RecStates] /\ rec'[r] = x
          /\ \A o \in Recorders \ {r} : rec'[o] = rec[o]
      BY <3>1, <3>2, Edited
    <3> HIDE DEF x
    <3>5. RecorderStands(r)'
      BY <1>r, <1>t, <3>1, <3>3, <3>4
    <3>6. RecTypes'
      BY <1>t, <3>1, <3>4 DEF RecorderInv, RecTypes
    <3>7. MetaOwned'
      BY <1>t, <3>1, <3>3, <3>4 DEF MetaOwned
    <3>8. StepOf(r)
      BY <1>t, <3>1, <3>4 DEF StepOf, RecorderInv, RecTypes, Clients
    <3> QED BY <3>1, <3>5, <3>6, <3>7, <3>8, StepKeeps
  <2> QED BY <1>6, <2>1, <2>2 DEF StartSession
<1>7. CASE WriteMeta(r)
  <2> DEFINE x == [rec[r] EXCEPT !.pc = "pipe"]
  <2>1. /\ rec' = [rec EXCEPT ![r] = x]
        /\ rec[r].pc = "meta"
        /\ meta' \in {meta, NoMeta} \/ (platform = "macos" /\ meta' = [by |-> r, deep |-> rec[r].args.deep])
        /\ UNCHANGED <<platform, lock, sock, work, pipe, pend, out, clone, snap>>
    BY <1>7 DEF WriteMeta, At, To, others, files
  <2>2. x \in RecStates
    BY <1>r DEF RecStates, Pcs
  <2>3. /\ x.pc = "pipe" /\ x.ses = rec[r].ses
        /\ x.args = rec[r].args /\ x.svc = rec[r].svc /\ x.cap = rec[r].cap
        /\ x.streams = rec[r].streams /\ x.fired = rec[r].fired /\ x.lacks = rec[r].lacks
        /\ x.wrote = rec[r].wrote /\ x.dump = rec[r].dump
    BY <1>r DEF RecStates
  <2>4. /\ rec' \in [Recorders -> RecStates] /\ rec'[r] = x
        /\ \A o \in Recorders \ {r} : rec'[o] = rec[o]
    BY <2>1, <2>2, Edited
  <2> HIDE DEF x
  <2>5. RecorderStands(r)'
    BY <1>r, <1>t, <2>1, <2>3, <2>4
  <2>6. RecTypes'
    BY <1>t, <2>1, <2>4 DEF RecorderInv, RecTypes
  <2>7. MetaOwned'
    BY <1>t, <2>1, <2>3, <2>4 DEF MetaOwned
  <2>8. StepOf(r)
    BY <1>t, <2>1, <2>4 DEF StepOf, RecorderInv, RecTypes, Clients
  <2> QED BY <2>1, <2>5, <2>6, <2>7, <2>8, StepKeeps
<1>8. CASE OpenPipe(r)
  <2>1. CASE /\ UNCHANGED <<lock, meta>>
             /\ \E w \in {"off", "on"} :
                  rec' = [rec EXCEPT ![r].pc = "wait", ![r].fd = TRUE, ![r].watch = w,
                                     ![r].timer = IF rec[r].args.timed THEN "on" ELSE "off"]
    <3>a. PICK w \in {"off", "on"} :
            rec' = [rec EXCEPT ![r].pc = "wait", ![r].fd = TRUE, ![r].watch = w,
                               ![r].timer = IF rec[r].args.timed THEN "on" ELSE "off"]
      BY <2>1
    <3> DEFINE t == IF rec[r].args.timed THEN "on" ELSE "off"
    <3>b. w \in Watches /\ t \in Timers
      BY DEF Watches, Timers
    <3> HIDE DEF t
    <3> DEFINE y == [rec[r] EXCEPT !.pc = "wait", !.fd = TRUE]
    <3>c. y \in RecStates
      BY <1>r, <1>b DEF RecStates, Pcs
    <3>d. /\ y.pc = "wait" /\ y.args = rec[r].args /\ y.svc = rec[r].svc /\ y.ses = rec[r].ses
          /\ y.cap = rec[r].cap /\ y.streams = rec[r].streams /\ y.fired = rec[r].fired
          /\ y.lacks = rec[r].lacks /\ y.wrote = rec[r].wrote /\ y.dump = rec[r].dump
      BY <1>r DEF RecStates
    <3> HIDE DEF y
    <3> DEFINE x == [y EXCEPT !.watch = w, !.timer = t]
    <3>1. /\ rec' = [rec EXCEPT ![r] = x]
          /\ rec[r].pc = "pipe"
          /\ UNCHANGED <<platform, lock, sock, meta, work, pipe, pend, out, clone, snap>>
      BY <2>1, <1>8, <3>a DEF t, y, OpenPipe, At, To, others, files
    <3>2. x \in RecStates
      BY <1>r, <3>b, <3>c DEF RecStates, Pcs
    <3>3. /\ x.pc = "wait"
          /\ x.args = rec[r].args /\ x.svc = rec[r].svc /\ x.ses = rec[r].ses
          /\ x.cap = rec[r].cap /\ x.streams = rec[r].streams /\ x.fired = rec[r].fired
          /\ x.lacks = rec[r].lacks /\ x.wrote = rec[r].wrote /\ x.dump = rec[r].dump
      BY <1>r, <3>c, <3>d DEF RecStates
    <3>4. /\ rec' \in [Recorders -> RecStates] /\ rec'[r] = x
          /\ \A o \in Recorders \ {r} : rec'[o] = rec[o]
      BY <3>1, <3>2, Edited
    <3> HIDE DEF x
    <3>5. RecorderStands(r)'
      BY <1>r, <1>t, <3>1, <3>3, <3>4
    <3>6. RecTypes'
      BY <1>t, <3>1, <3>4 DEF RecorderInv, RecTypes
    <3>7. MetaOwned'
      BY <1>t, <3>1, <3>3, <3>4 DEF MetaOwned
    <3>8. StepOf(r)
      BY <1>t, <3>1, <3>4 DEF StepOf, RecorderInv, RecTypes, Clients
    <3> QED BY <3>1, <3>5, <3>6, <3>7, <3>8, StepKeeps
  <2>2. CASE EarlyExit(r) /\ meta' \in {NoMeta, meta}
    <3> DEFINE x == [Fresh EXCEPT !.pc = "exit"]
    <3>1. /\ rec' = [rec EXCEPT ![r] = x]
          /\ rec[r].pc = "pipe"
          /\ lock' = None
          /\ meta' \in {NoMeta, meta}
          /\ UNCHANGED <<platform, sock, work, pipe, pend, out, clone, snap>>
      BY <2>2, <1>8 DEF EarlyExit, OpenPipe, At, others, files
    <3>2. x \in RecStates
      BY FreshTyped DEF Pcs
    <3>3. /\ x.pc = "exit" /\ ~x.svc /\ x.cap = "none" /\ x.streams = {}
          /\ ~x.wrote /\ x.lacks = {} /\ x.args = NoArgs /\ x.dump = "none"
      BY <1>r DEF Fresh
    <3>4. /\ rec' \in [Recorders -> RecStates] /\ rec'[r] = x
          /\ \A o \in Recorders \ {r} : rec'[o] = rec[o]
      BY <3>1, <3>2, Edited
    <3> HIDE DEF x
    <3>5. RecorderStands(r)'
      BY <1>r, <1>t, <3>1, <3>3, <3>4
    <3>6. RecTypes'
      BY <1>t, <3>1, <3>4 DEF RecorderInv, RecTypes
    <3>7. MetaOwned'
      BY <1>t, <3>1, <3>3, <3>4 DEF MetaOwned
    <3>8. StepOf(r)
      BY <1>t, <3>1, <3>4 DEF StepOf, RecorderInv, RecTypes, Clients
    <3> QED BY <3>1, <3>5, <3>6, <3>7, <3>8, StepKeeps
  <2> QED BY <1>8, <2>1, <2>2 DEF OpenPipe
<1> QED BY <1>1, <1>2, <1>3, <1>4, <1>5, <1>6, <1>7, <1>8 DEF Starts

(* The target, the writers of the pipe and the loop: the data of a stream    *)
(* waits with its capture, the hook comes before SIGTERM.                     *)
LEMMA LoopKeeps ==
  ASSUME RecorderInv, NEW r \in Recorders, LoopSteps(r)
  PROVE  RecorderInv'
<1> USE DEF RecorderStands, HoldsLock, HookFirst, Outstanding, Awaited, CloneAwaited, Saved,
            UnderWay, Rolling, ShutEarly, CloneMisses, Holding, Starting, Ending
<1>r. rec[r] \in RecStates
  BY DEF RecorderInv, RecTypes
<1>s. rec = [rec EXCEPT ![r] = rec[r]]
  BY DEF RecorderInv, RecTypes
<1>t. /\ RecorderStands(r) /\ MetaOwned /\ r # None
      /\ work \in [Recorders -> {"none", "running", "termed", "zombie", "gone"}]
      /\ pend \in [Recorders -> SUBSET Streams] /\ pipe \in [Recorders -> Seq(Bytes)]
      /\ r \in Clients /\ clone \in [Clients -> Clones] /\ out \in [Clients -> Files]
  BY RecorderAssumption DEF RecorderInv, RecTypes, Clients
<1>b. TRUE \in BOOLEAN /\ FALSE \in BOOLEAN
  BY Zenon
<1>1. CASE Produce(r)
  <2> DEFINE x == rec[r]
  <2>1. /\ rec' = [rec EXCEPT ![r] = x]
        /\ rec[r].pc = "wait"
        /\ rec[r].cap = "up"
        /\ pend' = [pend EXCEPT ![r] = rec[r].streams]
        /\ UNCHANGED <<platform, lock, sock, meta, work, pipe, out, clone, snap>>
    BY <1>1, <1>s DEF Produce, Alive, At, others, files
  <2>2. x \in RecStates
    BY <1>r DEF RecStates, Pcs
  <2>3. /\ x.pc = "wait"
        /\ x.args = rec[r].args /\ x.svc = rec[r].svc /\ x.ses = rec[r].ses
        /\ x.cap = rec[r].cap /\ x.streams = rec[r].streams /\ x.fired = rec[r].fired
        /\ x.lacks = rec[r].lacks /\ x.wrote = rec[r].wrote /\ x.dump = rec[r].dump
    BY <1>r, <2>1 DEF RecStates
  <2>4. /\ rec' \in [Recorders -> RecStates] /\ rec'[r] = x
        /\ \A o \in Recorders \ {r} : rec'[o] = rec[o]
    BY <2>1, <2>2, Edited
  <2> HIDE DEF x
  <2>5. RecorderStands(r)'
    BY <1>r, <1>t, <2>1, <2>3, <2>4
  <2>6. RecTypes'
    BY <1>t, <2>1, <2>4, <1>r DEF RecorderInv, RecTypes, RecStates
  <2>7. MetaOwned'
    BY <1>t, <2>1, <2>3, <2>4 DEF MetaOwned
  <2>8. StepOf(r)
    BY <1>t, <2>1, <2>4 DEF StepOf, RecorderInv, RecTypes, Clients
  <2> QED BY <2>1, <2>5, <2>6, <2>7, <2>8, StepKeeps
<1>2. CASE TargetExit(r)
  <2> DEFINE w == IF rec[r].args.pid \/ rec[r].pc \in {"exit", "dead"} THEN "gone" ELSE "zombie"
  <2>a. w \in {"zombie", "gone"}
    OBVIOUS
  <2> DEFINE x == rec[r]
  <2>1. /\ rec' = [rec EXCEPT ![r] = x]
        /\ work' = [work EXCEPT ![r] = w]
        /\ UNCHANGED <<platform, lock, sock, meta, pipe, pend, out, clone, snap>>
    BY <1>2, <1>s DEF TargetExit, At, others, files
  <2>2. x \in RecStates
    BY <1>r DEF RecStates, Pcs
  <2>3. /\ x.pc = rec[r].pc
        /\ x.args = rec[r].args /\ x.svc = rec[r].svc /\ x.ses = rec[r].ses
        /\ x.cap = rec[r].cap /\ x.streams = rec[r].streams /\ x.fired = rec[r].fired
        /\ x.lacks = rec[r].lacks /\ x.wrote = rec[r].wrote /\ x.dump = rec[r].dump
    BY <1>r DEF RecStates
  <2>4. /\ rec' \in [Recorders -> RecStates] /\ rec'[r] = x
        /\ \A o \in Recorders \ {r} : rec'[o] = rec[o]
    BY <2>1, <2>2, Edited
  <2> HIDE DEF x
  <2>5. RecorderStands(r)'
    BY <1>r, <1>t, <2>1, <2>3, <2>4, <2>a
  <2>6. RecTypes'
    BY <1>t, <2>1, <2>4, <2>a DEF RecorderInv, RecTypes
  <2>7. MetaOwned'
    BY <1>t, <2>1, <2>3, <2>4 DEF MetaOwned
  <2>8. StepOf(r)
    BY <1>t, <2>1, <2>4 DEF StepOf, RecorderInv, RecTypes, Clients
  <2> QED BY <2>1, <2>5, <2>6, <2>7, <2>8, StepKeeps
<1>3. CASE Reap(r)
  <2> DEFINE x == [rec[r] EXCEPT !.watch = "seen"]
  <2>1. /\ rec' = [rec EXCEPT ![r] = x]
        /\ work' = [work EXCEPT ![r] = "gone"]
        /\ UNCHANGED <<platform, lock, sock, meta, pipe, pend, out, clone, snap>>
    BY <1>3 DEF Reap, At, others, files
  <2>2. x \in RecStates
    BY <1>r DEF RecStates, Pcs, Watches
  <2>3. /\ x.pc = rec[r].pc
        /\ x.args = rec[r].args /\ x.svc = rec[r].svc /\ x.ses = rec[r].ses
        /\ x.cap = rec[r].cap /\ x.streams = rec[r].streams /\ x.fired = rec[r].fired
        /\ x.lacks = rec[r].lacks /\ x.wrote = rec[r].wrote /\ x.dump = rec[r].dump
    BY <1>r DEF RecStates
  <2>4. /\ rec' \in [Recorders -> RecStates] /\ rec'[r] = x
        /\ \A o \in Recorders \ {r} : rec'[o] = rec[o]
    BY <2>1, <2>2, Edited
  <2> HIDE DEF x
  <2>5. RecorderStands(r)'
    BY <1>r, <1>t, <2>1, <2>3, <2>4
  <2>6. RecTypes'
    BY <1>t, <2>1, <2>4 DEF RecorderInv, RecTypes
  <2>7. MetaOwned'
    BY <1>t, <2>1, <2>3, <2>4 DEF MetaOwned
  <2>8. StepOf(r)
    BY <1>t, <2>1, <2>4 DEF StepOf, RecorderInv, RecTypes, Clients
  <2> QED BY <2>1, <2>5, <2>6, <2>7, <2>8, StepKeeps
<1>4. CASE WatchWrite(r)
  <2>a. Append(pipe[r], "X") \in Seq(Bytes)
    BY <1>t DEF Bytes
  <2> DEFINE x == [rec[r] EXCEPT !.watch = "ended"]
  <2>1. /\ rec' = [rec EXCEPT ![r] = x]
        /\ pipe' = [pipe EXCEPT ![r] = IF rec[r].fd THEN Append(pipe[r], "X") ELSE pipe[r]]
        /\ UNCHANGED <<platform, lock, sock, meta, work, pend, out, clone, snap>>
    BY <1>4 DEF WatchWrite, WriteByte, At, others, files
  <2>2. x \in RecStates
    BY <1>r DEF RecStates, Pcs, Watches
  <2>3. /\ x.pc = rec[r].pc
        /\ x.args = rec[r].args /\ x.svc = rec[r].svc /\ x.ses = rec[r].ses
        /\ x.cap = rec[r].cap /\ x.streams = rec[r].streams /\ x.fired = rec[r].fired
        /\ x.lacks = rec[r].lacks /\ x.wrote = rec[r].wrote /\ x.dump = rec[r].dump
    BY <1>r DEF RecStates
  <2>4. /\ rec' \in [Recorders -> RecStates] /\ rec'[r] = x
        /\ \A o \in Recorders \ {r} : rec'[o] = rec[o]
    BY <2>1, <2>2, Edited
  <2> HIDE DEF x
  <2>5. RecorderStands(r)'
    BY <1>r, <1>t, <2>1, <2>3, <2>4
  <2>6. RecTypes'
    BY <1>t, <2>1, <2>4, <2>a DEF RecorderInv, RecTypes
  <2>7. MetaOwned'
    BY <1>t, <2>1, <2>3, <2>4 DEF MetaOwned
  <2>8. StepOf(r)
    BY <1>t, <2>1, <2>4 DEF StepOf, RecorderInv, RecTypes, Clients
  <2> QED BY <2>1, <2>5, <2>6, <2>7, <2>8, StepKeeps
<1>5. CASE TimerFire(r)
  <2>a. Append(pipe[r], "T") \in Seq(Bytes)
    BY <1>t DEF Bytes
  <2> DEFINE x == [rec[r] EXCEPT !.timer = "off"]
  <2>1. /\ rec' = [rec EXCEPT ![r] = x]
        /\ pipe' = [pipe EXCEPT ![r] = IF rec[r].fd THEN Append(pipe[r], "T") ELSE pipe[r]]
        /\ UNCHANGED <<platform, lock, sock, meta, work, pend, out, clone, snap>>
    BY <1>5 DEF TimerFire, WriteByte, At, others, files
  <2>2. x \in RecStates
    BY <1>r DEF RecStates, Pcs, Timers
  <2>3. /\ x.pc = rec[r].pc
        /\ x.args = rec[r].args /\ x.svc = rec[r].svc /\ x.ses = rec[r].ses
        /\ x.cap = rec[r].cap /\ x.streams = rec[r].streams /\ x.fired = rec[r].fired
        /\ x.lacks = rec[r].lacks /\ x.wrote = rec[r].wrote /\ x.dump = rec[r].dump
    BY <1>r DEF RecStates
  <2>4. /\ rec' \in [Recorders -> RecStates] /\ rec'[r] = x
        /\ \A o \in Recorders \ {r} : rec'[o] = rec[o]
    BY <2>1, <2>2, Edited
  <2> HIDE DEF x
  <2>5. RecorderStands(r)'
    BY <1>r, <1>t, <2>1, <2>3, <2>4
  <2>6. RecTypes'
    BY <1>t, <2>1, <2>4, <2>a DEF RecorderInv, RecTypes
  <2>7. MetaOwned'
    BY <1>t, <2>1, <2>3, <2>4 DEF MetaOwned
  <2>8. StepOf(r)
    BY <1>t, <2>1, <2>4 DEF StepOf, RecorderInv, RecTypes, Clients
  <2> QED BY <2>1, <2>5, <2>6, <2>7, <2>8, StepKeeps
<1>6. CASE HandleSigint(r)
  <2>a. Append(pipe[r], "I") \in Seq(Bytes)
    BY <1>t DEF Bytes
  <2> DEFINE x == [rec[r] EXCEPT !.sigs = @ + 1]
  <2>1. /\ rec' = [rec EXCEPT ![r] = x]
        /\ pipe' = [pipe EXCEPT ![r] = IF rec[r].fd THEN Append(pipe[r], "I") ELSE pipe[r]]
        /\ UNCHANGED <<platform, lock, sock, meta, work, pend, out, clone, snap>>
    BY <1>6 DEF HandleSigint, WriteByte, At, others, files
  <2>2. x \in RecStates
    BY <1>r DEF RecStates, Pcs
  <2>3. /\ x.pc = rec[r].pc
        /\ x.args = rec[r].args /\ x.svc = rec[r].svc /\ x.ses = rec[r].ses
        /\ x.cap = rec[r].cap /\ x.streams = rec[r].streams /\ x.fired = rec[r].fired
        /\ x.lacks = rec[r].lacks /\ x.wrote = rec[r].wrote /\ x.dump = rec[r].dump
    BY <1>r DEF RecStates
  <2>4. /\ rec' \in [Recorders -> RecStates] /\ rec'[r] = x
        /\ \A o \in Recorders \ {r} : rec'[o] = rec[o]
    BY <2>1, <2>2, Edited
  <2> HIDE DEF x
  <2>5. RecorderStands(r)'
    BY <1>r, <1>t, <2>1, <2>3, <2>4
  <2>6. RecTypes'
    BY <1>t, <2>1, <2>4, <2>a DEF RecorderInv, RecTypes
  <2>7. MetaOwned'
    BY <1>t, <2>1, <2>3, <2>4 DEF MetaOwned
  <2>8. StepOf(r)
    BY <1>t, <2>1, <2>4 DEF StepOf, RecorderInv, RecTypes, Clients
  <2> QED BY <2>1, <2>5, <2>6, <2>7, <2>8, StepKeeps
<1>7. CASE ReadPipe(r)
  <2>a. pipe[r] \in Seq(Bytes)
    BY <1>t
  <2>b. <<>> \in Seq(Bytes)
    OBVIOUS
  <2> DEFINE x == [rec[r] EXCEPT !.buf = pipe[r]]
  <2>1. /\ rec' = [rec EXCEPT ![r] = x]
        /\ pipe' = [pipe EXCEPT ![r] = <<>>]
        /\ UNCHANGED <<platform, lock, sock, meta, work, pend, out, clone, snap>>
    BY <1>7 DEF ReadPipe, At, others, files
  <2>2. x \in RecStates
    BY <1>r, <2>a DEF RecStates, Pcs
  <2>3. /\ x.pc = rec[r].pc
        /\ x.args = rec[r].args /\ x.svc = rec[r].svc /\ x.ses = rec[r].ses
        /\ x.cap = rec[r].cap /\ x.streams = rec[r].streams /\ x.fired = rec[r].fired
        /\ x.lacks = rec[r].lacks /\ x.wrote = rec[r].wrote /\ x.dump = rec[r].dump
    BY <1>r DEF RecStates
  <2>4. /\ rec' \in [Recorders -> RecStates] /\ rec'[r] = x
        /\ \A o \in Recorders \ {r} : rec'[o] = rec[o]
    BY <2>1, <2>2, Edited
  <2> HIDE DEF x
  <2>5. RecorderStands(r)'
    BY <1>r, <1>t, <2>1, <2>3, <2>4
  <2>6. RecTypes'
    BY <1>t, <2>1, <2>4, <2>b DEF RecorderInv, RecTypes
  <2>7. MetaOwned'
    BY <1>t, <2>1, <2>3, <2>4 DEF MetaOwned
  <2>8. StepOf(r)
    BY <1>t, <2>1, <2>4 DEF StepOf, RecorderInv, RecTypes, Clients
  <2> QED BY <2>1, <2>5, <2>6, <2>7, <2>8, StepKeeps
<1>8. CASE HandleExitByte(r)
  <2> DEFINE b == Tail(rec[r].buf)
  <2>a. b \in Seq(Bytes)
    BY <1>8, <1>r DEF HandleExitByte, RecStates
  <2> HIDE DEF b
  <2> DEFINE x == [rec[r] EXCEPT !.buf = b, !.done = TRUE]
  <2>1. /\ rec' = [rec EXCEPT ![r] = x]
        /\ rec[r].pc = "wait"
        /\ UNCHANGED <<platform, lock, sock, meta, work, pipe, pend, out, clone, snap>>
    BY <1>8 DEF b, HandleExitByte, At, others, files
  <2>2. x \in RecStates
    BY <1>r, <2>a, <1>b DEF RecStates, Pcs
  <2>3. /\ x.pc = "wait"
        /\ x.args = rec[r].args /\ x.svc = rec[r].svc /\ x.ses = rec[r].ses
        /\ x.cap = rec[r].cap /\ x.streams = rec[r].streams /\ x.fired = rec[r].fired
        /\ x.lacks = rec[r].lacks /\ x.wrote = rec[r].wrote /\ x.dump = rec[r].dump
    BY <1>r, <2>1 DEF RecStates
  <2>4. /\ rec' \in [Recorders -> RecStates] /\ rec'[r] = x
        /\ \A o \in Recorders \ {r} : rec'[o] = rec[o]
    BY <2>1, <2>2, Edited
  <2> HIDE DEF x
  <2>5. RecorderStands(r)'
    BY <1>r, <1>t, <2>1, <2>3, <2>4
  <2>6. RecTypes'
    BY <1>t, <2>1, <2>4 DEF RecorderInv, RecTypes
  <2>7. MetaOwned'
    BY <1>t, <2>1, <2>3, <2>4 DEF MetaOwned
  <2>8. StepOf(r)
    BY <1>t, <2>1, <2>4 DEF StepOf, RecorderInv, RecTypes, Clients
  <2> QED BY <2>1, <2>5, <2>6, <2>7, <2>8, StepKeeps
<1>9. CASE PreStopHook(r)
  <2>a. PICK d \in {"none", "tmp"} : rec' = [rec EXCEPT ![r].fired = TRUE, ![r].dump = d]
    BY <1>9 DEF PreStopHook
  <2> DEFINE x == [rec[r] EXCEPT !.fired = TRUE, !.dump = d]
  <2>1. /\ rec' = [rec EXCEPT ![r] = x]
        /\ rec[r].pc = "wait"
        /\ UNCHANGED <<platform, lock, sock, meta, work, pipe, pend, out, clone, snap>>
    BY <1>9, <2>a DEF PreStopHook, StopByteNext, At, others, files
  <2>2. x \in RecStates
    BY <1>r, <2>a, <1>b DEF RecStates, Pcs
  <2>3. /\ x.pc = "wait" /\ x.fired = TRUE
        /\ x.dump = d
        /\ x.args = rec[r].args /\ x.svc = rec[r].svc /\ x.ses = rec[r].ses
        /\ x.cap = rec[r].cap /\ x.streams = rec[r].streams /\ x.lacks = rec[r].lacks
        /\ x.wrote = rec[r].wrote
    BY <1>r, <2>1 DEF RecStates
  <2>4. /\ rec' \in [Recorders -> RecStates] /\ rec'[r] = x
        /\ \A o \in Recorders \ {r} : rec'[o] = rec[o]
    BY <2>1, <2>2, Edited
  <2> HIDE DEF x
  <2>5. RecorderStands(r)'
    BY <1>r, <1>t, <2>1, <2>3, <2>4
  <2>6. RecTypes'
    BY <1>t, <2>1, <2>4 DEF RecorderInv, RecTypes
  <2>7. MetaOwned'
    BY <1>t, <2>1, <2>3, <2>4 DEF MetaOwned
  <2>8. StepOf(r)
    BY <1>t, <2>1, <2>4 DEF StepOf, RecorderInv, RecTypes, Clients
  <2> QED BY <2>1, <2>5, <2>6, <2>7, <2>8, StepKeeps
<1>10. CASE HandleStopByte(r)
  <2> DEFINE b == Tail(rec[r].buf)
            e == rec[r].done \/ rec[r].args.pid
            w == IF ~rec[r].args.pid /\ work[r] = "running" THEN "termed" ELSE work[r]
  <2>a. b \in Seq(Bytes)
    BY <1>10, <1>r DEF HandleStopByte, StopByteNext, RecStates
  <2>b. e \in BOOLEAN
    BY Zenon
  <2>c. w \in {"none", "running", "termed", "zombie", "gone"}
    BY <1>t
  <2> HIDE DEF b, e, w
  <2> DEFINE x == [rec[r] EXCEPT !.buf = b, !.done = e]
  <2>1. /\ rec' = [rec EXCEPT ![r] = x]
        /\ rec[r].pc = "wait"
        /\ rec[r].args.deep => rec[r].fired
        /\ work' = [work EXCEPT ![r] = w]
        /\ UNCHANGED <<platform, lock, sock, meta, pipe, pend, out, clone, snap>>
    BY <1>10 DEF b, e, w, HandleStopByte, StopByteNext, HookDue, At, others, files
  <2>2. x \in RecStates
    BY <1>r, <2>a, <2>b DEF RecStates, Pcs
  <2>3. /\ x.pc = "wait"
        /\ x.args = rec[r].args /\ x.svc = rec[r].svc /\ x.ses = rec[r].ses
        /\ x.cap = rec[r].cap /\ x.streams = rec[r].streams /\ x.fired = rec[r].fired
        /\ x.lacks = rec[r].lacks /\ x.wrote = rec[r].wrote /\ x.dump = rec[r].dump
    BY <1>r, <2>1 DEF RecStates
  <2>4. /\ rec' \in [Recorders -> RecStates] /\ rec'[r] = x
        /\ \A o \in Recorders \ {r} : rec'[o] = rec[o]
    BY <2>1, <2>2, Edited
  <2> HIDE DEF x
  <2>5. RecorderStands(r)'
    BY <1>r, <1>t, <2>1, <2>3, <2>4
  <2>6. RecTypes'
    BY <1>t, <2>1, <2>4, <2>c DEF RecorderInv, RecTypes
  <2>7. MetaOwned'
    BY <1>t, <2>1, <2>3, <2>4 DEF MetaOwned
  <2>8. StepOf(r)
    BY <1>t, <2>1, <2>4 DEF StepOf, RecorderInv, RecTypes, Clients
  <2> QED BY <2>1, <2>5, <2>6, <2>7, <2>8, StepKeeps
<1>11. CASE LoopEnds(r)
  <2> DEFINE p == IF rec[r].args.long THEN "stop"
                 ELSE IF platform = "linux" THEN "shut" ELSE "clone"
  <2>a. p \in Pcs
    BY DEF Pcs
  <2>b. /\ p \in {"stop", "shut", "clone"} /\ (p = "stop" => rec[r].args.long)
        /\ (p = "shut" => platform = "linux") /\ (p = "clone" => platform # "linux" /\ ~rec[r].args.long)
    OBVIOUS
  <2>c. platform \in {"macos", "linux"}
    BY DEF RecorderInv, RecTypes
  <2> HIDE DEF p
  <2> DEFINE x == [rec[r] EXCEPT !.pc = p]
  <2>1. /\ rec' = [rec EXCEPT ![r] = x]
        /\ rec[r].pc = "wait"
        /\ UNCHANGED <<platform, lock, sock, meta, work, pipe, pend, out, clone, snap>>
    BY <1>11 DEF p, LoopEnds, To, At, others, files
  <2>2. x \in RecStates
    BY <1>r, <2>a DEF RecStates, Pcs
  <2>3. /\ x.pc = p
        /\ x.args = rec[r].args /\ x.svc = rec[r].svc /\ x.ses = rec[r].ses
        /\ x.cap = rec[r].cap /\ x.streams = rec[r].streams /\ x.fired = rec[r].fired
        /\ x.lacks = rec[r].lacks /\ x.wrote = rec[r].wrote /\ x.dump = rec[r].dump
    BY <1>r DEF RecStates
  <2>4. /\ rec' \in [Recorders -> RecStates] /\ rec'[r] = x
        /\ \A o \in Recorders \ {r} : rec'[o] = rec[o]
    BY <2>1, <2>2, Edited
  <2> HIDE DEF x
  <2>5. RecorderStands(r)'
    BY <1>r, <1>t, <2>1, <2>3, <2>4, <2>b, <2>c
  <2>6. RecTypes'
    BY <1>t, <2>1, <2>4 DEF RecorderInv, RecTypes
  <2>7. MetaOwned'
    BY <1>t, <2>1, <2>3, <2>4, <2>b DEF MetaOwned
  <2>8. StepOf(r)
    BY <1>t, <2>1, <2>4 DEF StepOf, RecorderInv, RecTypes, Clients
  <2> QED BY <2>1, <2>5, <2>6, <2>7, <2>8, StepKeeps
<1> QED BY <1>1, <1>2, <1>3, <1>4, <1>5, <1>6, <1>7, <1>8, <1>9, <1>10, <1>11 DEF LoopSteps

(* Saving: what the clone or the stop leaves behind, and what the file holds. *)
LEMMA SaveKeeps ==
  ASSUME RecorderInv, NEW r \in Recorders, Saves(r)
  PROVE  RecorderInv'
<1> USE DEF RecorderStands, HoldsLock, HookFirst, Outstanding, Awaited, CloneAwaited, Saved,
            UnderWay, Rolling, ShutEarly, CloneMisses, Holding, Starting, Ending
<1>r. rec[r] \in RecStates
  BY DEF RecorderInv, RecTypes
<1>s. rec = [rec EXCEPT ![r] = rec[r]]
  BY DEF RecorderInv, RecTypes
<1>t. /\ RecorderStands(r) /\ MetaOwned /\ r # None
      /\ work \in [Recorders -> {"none", "running", "termed", "zombie", "gone"}]
      /\ pend \in [Recorders -> SUBSET Streams] /\ pipe \in [Recorders -> Seq(Bytes)]
      /\ r \in Clients /\ clone \in [Clients -> Clones] /\ out \in [Clients -> Files]
  BY RecorderAssumption DEF RecorderInv, RecTypes, Clients
<1>b. TRUE \in BOOLEAN /\ FALSE \in BOOLEAN
  BY Zenon
<1>1. CASE SaveAsk(r)
  <2>1. CASE AskClone(r) /\ To(r, "cloning")
    <3> DEFINE k == [NoClone EXCEPT !.st = "asked", !.left = Chunks]
    <3>a. k \in Clones /\ k.st = "asked"
      BY AskedTyped
    <3> HIDE DEF k
    <3> DEFINE x == [rec[r] EXCEPT !.pc = "cloning"]
    <3>1. /\ rec' = [rec EXCEPT ![r] = x]
          /\ rec[r].pc = "clone"
          /\ out' = [out EXCEPT ![r] = "partial"] /\ clone' = [clone EXCEPT ![r] = k]
          /\ UNCHANGED <<platform, lock, sock, meta, work, pipe, pend, snap>>
      BY <2>1, <1>1 DEF k, AskClone, SaveAsk, To, At, others, files
    <3>2. x \in RecStates
      BY <1>r DEF RecStates, Pcs
    <3>3. /\ x.pc = "cloning"
          /\ x.args = rec[r].args /\ x.svc = rec[r].svc /\ x.ses = rec[r].ses
          /\ x.cap = rec[r].cap /\ x.streams = rec[r].streams /\ x.fired = rec[r].fired
          /\ x.lacks = rec[r].lacks /\ x.wrote = rec[r].wrote /\ x.dump = rec[r].dump
      BY <1>r DEF RecStates
    <3>4. /\ rec' \in [Recorders -> RecStates] /\ rec'[r] = x
          /\ \A o \in Recorders \ {r} : rec'[o] = rec[o]
      BY <3>1, <3>2, Edited
    <3> HIDE DEF x
    <3>5. RecorderStands(r)'
      BY <1>r, <1>t, <3>1, <3>3, <3>4, <3>a
    <3>6. RecTypes'
      BY <1>t, <3>1, <3>4, <3>a DEF RecorderInv, RecTypes, Files
    <3>7. MetaOwned'
      BY <1>t, <3>1, <3>3, <3>4 DEF MetaOwned
    <3>8. StepOf(r)
      BY <1>t, <3>1, <3>4 DEF StepOf, RecorderInv, RecTypes, Clients
    <3> QED BY <3>1, <3>5, <3>6, <3>7, <3>8, StepKeeps
  <2>2. CASE To(r, "stop") /\ UNCHANGED <<out, clone>>
    <3> DEFINE x == [rec[r] EXCEPT !.pc = "stop"]
    <3>1. /\ rec' = [rec EXCEPT ![r] = x]
          /\ rec[r].pc = "clone"
          /\ UNCHANGED <<platform, lock, sock, meta, work, pipe, pend, out, clone, snap>>
      BY <2>2, <1>1 DEF SaveAsk, To, At, others, files
    <3>2. x \in RecStates
      BY <1>r DEF RecStates, Pcs
    <3>3. /\ x.pc = "stop"
          /\ x.args = rec[r].args /\ x.svc = rec[r].svc /\ x.ses = rec[r].ses
          /\ x.cap = rec[r].cap /\ x.streams = rec[r].streams /\ x.fired = rec[r].fired
          /\ x.lacks = rec[r].lacks /\ x.wrote = rec[r].wrote /\ x.dump = rec[r].dump
      BY <1>r DEF RecStates
    <3>4. /\ rec' \in [Recorders -> RecStates] /\ rec'[r] = x
          /\ \A o \in Recorders \ {r} : rec'[o] = rec[o]
      BY <3>1, <3>2, Edited
    <3> HIDE DEF x
    <3>5. RecorderStands(r)'
      BY <1>r, <1>t, <3>1, <3>3, <3>4
    <3>6. RecTypes'
      BY <1>t, <3>1, <3>4 DEF RecorderInv, RecTypes
    <3>7. MetaOwned'
      BY <1>t, <3>1, <3>3, <3>4 DEF MetaOwned
    <3>8. StepOf(r)
      BY <1>t, <3>1, <3>4 DEF StepOf, RecorderInv, RecTypes, Clients
    <3> QED BY <3>1, <3>5, <3>6, <3>7, <3>8, StepKeeps
  <2> QED BY <1>1, <2>1, <2>2 DEF SaveAsk
<1>2. CASE SaveDone(r)
  <2>a. PICK ok \in BOOLEAN :
           /\ CloseClone(r, ok)
           /\ Becomes(r, IF ok THEN Appended(out[r]) ELSE {out[r]})
           /\ rec' = [rec EXCEPT ![r].wrote = ok,
                        ![r].pc = IF platform = "linux" THEN "names" ELSE "stop"]
    BY <1>2 DEF SaveDone
  <2> DEFINE p == IF platform = "linux" THEN "names" ELSE "stop"
             k == clone'[r]
             f == out'[r]
  <2>b. p \in Pcs /\ p \in {"names", "stop"} /\ (p = "names" <=> platform = "linux")
    BY DEF Pcs
  <2>c. /\ clone' = [clone EXCEPT ![r] = k] /\ k \in Clones /\ k.st \in {"none", "abandoned"}
        /\ (ok => clone[r].st = "read" /\ ~clone[r].bad)
    BY <2>a, <1>t, ClosesClone
  <2>d. out' = [out EXCEPT ![r] = f] /\ f \in Files /\ (IF ok THEN f \in TraceFirst ELSE f = out[r])
    <3>1. (IF ok THEN Appended(out[r]) ELSE {out[r]}) = (IF ok THEN {"plain", "torn"} ELSE {out[r]})
      BY <2>c, <1>t DEF Appended
    <3>2. PICK g \in (IF ok THEN {"plain", "torn"} ELSE {out[r]}) : out' = [out EXCEPT ![r] = g]
      BY <2>a, <3>1 DEF Becomes
    <3> QED BY <3>2, <1>t DEF Files, TraceFirst
  <2>e. platform \in {"macos", "linux"}
    BY DEF RecorderInv, RecTypes
  <2> HIDE DEF p, k, f
  <2> DEFINE x == [rec[r] EXCEPT !.wrote = ok, !.pc = p]
  <2>1. /\ rec' = [rec EXCEPT ![r] = x]
        /\ rec[r].pc = "cloning"
        /\ clone' = [clone EXCEPT ![r] = k] /\ out' = [out EXCEPT ![r] = f]
        /\ UNCHANGED <<platform, lock, sock, meta, work, pipe, pend, snap>>
    BY <1>2, <2>a, <2>c, <2>d, ZenonT(60) DEF k, f, p, SaveDone, At, others, files
  <2>2. x \in RecStates
    BY <1>r, <2>a, <2>b DEF RecStates, Pcs
  <2>3. /\ x.pc = p /\ x.wrote = ok
        /\ x.args = rec[r].args /\ x.svc = rec[r].svc /\ x.ses = rec[r].ses
        /\ x.cap = rec[r].cap /\ x.streams = rec[r].streams /\ x.fired = rec[r].fired
        /\ x.lacks = rec[r].lacks /\ x.dump = rec[r].dump
    BY <1>r DEF RecStates
  <2>4. /\ rec' \in [Recorders -> RecStates] /\ rec'[r] = x
        /\ \A o \in Recorders \ {r} : rec'[o] = rec[o]
    BY <2>1, <2>2, Edited
  <2> HIDE DEF x
  <2>5. RecorderStands(r)'
    BY <1>r, <1>t, <2>1, <2>3, <2>4, <2>a, <2>b, <2>c, <2>d, <2>e, SMTT(30) DEF TraceFirst
  <2>6. RecTypes'
    BY <1>t, <2>1, <2>4, <2>c, <2>d DEF RecorderInv, RecTypes
  <2>7. MetaOwned'
    BY <1>t, <2>1, <2>3, <2>4, <2>b DEF MetaOwned
  <2>8. StepOf(r)
    BY <1>t, <2>1, <2>4 DEF StepOf, RecorderInv, RecTypes, Clients
  <2> QED BY <2>1, <2>5, <2>6, <2>7, <2>8, StepKeeps
<1>3. CASE StopSession(r)
  <2> DEFINE P == pend[r] \ StopBrings(r)
  <2>a. pend' = [pend EXCEPT ![r] = P] /\ P = pend'[r]
    BY <1>3, <1>t DEF StopSession
  <2>b. P \in SUBSET Streams /\ P \subseteq pend[r] /\ rec[r].pc = "stop"
    BY <1>3, <1>t DEF StopSession, At
  <2>c. rec[r].args.long => P = {}
    BY <1>t, <1>r, <2>b DEF StopBrings, Alive, RecStates
  <2>d. platform \in {"macos", "linux"}
    BY DEF RecorderInv, RecTypes
  <2> HIDE DEF P
  <2>1. CASE rec[r].args.long
    <3>f. PICK f \in {"plain", "torn"} : out' = [out EXCEPT ![r] = f]
      BY <2>1, <1>3 DEF StopSession, Becomes, Appended
    <3> DEFINE x == [rec[r] EXCEPT !.ses = "stopped", !.wrote = TRUE, !.pc = "shut", !.lacks = P]
    <3>1. /\ rec' = [rec EXCEPT ![r] = x]
          /\ rec[r].pc = "stop"
          /\ pend' = [pend EXCEPT ![r] = P]
          /\ out' = [out EXCEPT ![r] = f]
          /\ UNCHANGED <<platform, lock, sock, meta, work, pipe, clone, snap>>
      BY <2>1, <1>3, <2>a, <3>f DEF StopSession, At, others, files
    <3>2. x \in RecStates
      BY <1>r, <1>b, <2>b DEF RecStates, Pcs
    <3>3. /\ x.pc = "shut" /\ x.ses = "stopped"
          /\ x.wrote = TRUE /\ x.lacks = P
          /\ x.args = rec[r].args /\ x.svc = rec[r].svc /\ x.cap = rec[r].cap
          /\ x.streams = rec[r].streams /\ x.fired = rec[r].fired /\ x.dump = rec[r].dump
      BY <1>r DEF RecStates
    <3>4. /\ rec' \in [Recorders -> RecStates] /\ rec'[r] = x
          /\ \A o \in Recorders \ {r} : rec'[o] = rec[o]
      BY <3>1, <3>2, Edited
    <3> HIDE DEF x
    <3>5. RecorderStands(r)'
      BY <1>r, <1>t, <3>1, <3>3, <3>4, <2>1, <2>b, <2>c, <3>f DEF TraceFirst
    <3>6. RecTypes'
      BY <1>t, <3>1, <3>4, <2>b, <3>f DEF RecorderInv, RecTypes, Files
    <3>7. MetaOwned'
      BY <1>t, <3>1, <3>3, <3>4 DEF MetaOwned
    <3>8. StepOf(r)
      BY <1>t, <3>1, <3>4 DEF StepOf, RecorderInv, RecTypes, Clients
    <3> QED BY <3>1, <3>5, <3>6, <3>7, <3>8, StepKeeps
  <2>2. CASE ~rec[r].args.long
    <3> DEFINE p == IF platform = "linux" THEN "unpipe" ELSE "shut"
    <3>a. p \in Pcs /\ p \in {"unpipe", "shut"} /\ (p = "unpipe" <=> platform = "linux")
      BY DEF Pcs
    <3> HIDE DEF p
    <3> DEFINE x == [rec[r] EXCEPT !.ses = "stopped", !.pc = p]
    <3>1. /\ rec' = [rec EXCEPT ![r] = x]
          /\ rec[r].pc = "stop"
          /\ pend' = [pend EXCEPT ![r] = P]
          /\ UNCHANGED <<platform, lock, sock, meta, work, pipe, out, clone, snap>>
      BY <2>2, <1>3, <2>a DEF p, StopSession, At, others, files
    <3>2. x \in RecStates
      BY <1>r, <3>a DEF RecStates, Pcs
    <3>3. /\ x.pc = p /\ x.ses = "stopped"
          /\ x.args = rec[r].args /\ x.svc = rec[r].svc /\ x.cap = rec[r].cap
          /\ x.streams = rec[r].streams /\ x.fired = rec[r].fired /\ x.lacks = rec[r].lacks
          /\ x.wrote = rec[r].wrote /\ x.dump = rec[r].dump
      BY <1>r DEF RecStates
    <3>4. /\ rec' \in [Recorders -> RecStates] /\ rec'[r] = x
          /\ \A o \in Recorders \ {r} : rec'[o] = rec[o]
      BY <3>1, <3>2, Edited
    <3> HIDE DEF x
    <3>5. RecorderStands(r)'
      BY <1>r, <1>t, <3>1, <3>3, <3>4, <2>2, <2>b, <2>d, <3>a
    <3>6. RecTypes'
      BY <1>t, <3>1, <3>4, <2>b DEF RecorderInv, RecTypes
    <3>7. MetaOwned'
      BY <1>t, <3>1, <3>3, <3>4, <3>a DEF MetaOwned
    <3>8. StepOf(r)
      BY <1>t, <3>1, <3>4 DEF StepOf, RecorderInv, RecTypes, Clients
    <3> QED BY <3>1, <3>5, <3>6, <3>7, <3>8, StepKeeps
  <2> QED BY <1>3, <2>1, <2>2 DEF StopSession
<1>4. CASE Shutdown(r)
  <2> DEFINE P == pend[r] \ ShutdownBrings(r)
             c == IF rec[r].cap = "up" THEN "freed" ELSE rec[r].cap
             p == IF platform = "linux" /\ ~rec[r].args.long THEN "clone" ELSE "names"
  <2>a. pend' = [pend EXCEPT ![r] = P]
    BY <1>4 DEF Shutdown
  <2>b. c \in {"none", "up", "freed"} /\ c # "up" /\ (c = "none" => rec[r].cap = "none")
    BY <1>r DEF RecStates
  <2>c. p \in Pcs /\ p \in {"clone", "names"} /\ (p = "clone" <=> ShutEarly(r))
    BY DEF Pcs
  <2>d. platform \in {"macos", "linux"}
    BY DEF RecorderInv, RecTypes
  <2>e. P \in SUBSET Streams /\ P \subseteq pend[r]
    BY <1>t
  <2>f. ShutEarly(r) => P \subseteq {"offcpu"}
    BY <1>4, <1>r, <1>t, <2>d DEF ShutdownBrings, Alive, RecStates, Shutdown, At
  <2> HIDE DEF P, c, p
  <2> DEFINE x == [rec[r] EXCEPT !.cap = c, !.pc = p]
  <2>1. /\ rec' = [rec EXCEPT ![r] = x]
        /\ rec[r].pc = "shut"
        /\ pend' = [pend EXCEPT ![r] = P]
        /\ UNCHANGED <<platform, lock, sock, meta, work, pipe, out, clone, snap>>
    BY <1>4, <2>a DEF c, p, Shutdown, At, others, files
  <2>2. x \in RecStates
    BY <1>r, <2>b, <2>c, ZenonT(60) DEF RecStates, Pcs
  <2>3. /\ x.pc = p /\ x.cap = c
        /\ x.args = rec[r].args /\ x.svc = rec[r].svc /\ x.ses = rec[r].ses
        /\ x.streams = rec[r].streams /\ x.fired = rec[r].fired /\ x.lacks = rec[r].lacks
        /\ x.wrote = rec[r].wrote /\ x.dump = rec[r].dump
    BY <1>r DEF RecStates
  <2>4. /\ rec' \in [Recorders -> RecStates] /\ rec'[r] = x
        /\ \A o \in Recorders \ {r} : rec'[o] = rec[o]
    BY <2>1, <2>2, Edited
  <2> HIDE DEF x
  <2>5. RecorderStands(r)'
    BY <1>r, <1>t, <2>1, <2>3, <2>4, <2>b, <2>c, <2>d, <2>e, <2>f
  <2>6. RecTypes'
    BY <1>t, <2>1, <2>4, <2>e DEF RecorderInv, RecTypes
  <2>7. MetaOwned'
    BY <1>t, <2>1, <2>3, <2>4, <2>c DEF MetaOwned
  <2>8. StepOf(r)
    BY <1>t, <2>1, <2>4 DEF StepOf, RecorderInv, RecTypes, Clients
  <2> QED BY <2>1, <2>5, <2>6, <2>7, <2>8, StepKeeps
<1>5. CASE Symbolize(r)
  <2> DEFINE p == IF platform = "macos" THEN "dump"
                  ELSE IF rec[r].args.long THEN "unpipe" ELSE "stop"
             f == out'[r]
  <2>a. /\ p \in Pcs /\ p \in {"dump", "unpipe", "stop"} /\ (p = "stop" => platform # "macos" /\ ~rec[r].args.long)
        /\ (p = "dump" => platform = "macos")
    BY DEF Pcs
  <2>b. /\ f \in Files /\ out' = [out EXCEPT ![r] = f]
        /\ IF rec[r].wrote THEN f \in TraceFirst ELSE f = out[r]
    <3>1. rec[r].wrote => out[r] \in TraceFirst
      BY <1>5, <1>t DEF Symbolize, At
    <3>2. PICK g \in (IF rec[r].wrote THEN Appended(out[r]) ELSE {out[r]}) : out' = [out EXCEPT ![r] = g]
      BY <1>5 DEF Symbolize, Becomes
    <3>3. rec[r].wrote => g \in TraceFirst
      BY <3>1, <3>2 DEF Appended, TraceFirst
    <3> QED BY <3>2, <3>3, <1>t DEF Files, TraceFirst
  <2>c. platform \in {"macos", "linux"}
    BY DEF RecorderInv, RecTypes
  <2> HIDE DEF p, f
  <2> DEFINE x == [rec[r] EXCEPT !.pc = p]
  <2>1. /\ rec' = [rec EXCEPT ![r] = x]
        /\ rec[r].pc = "names"
        /\ out' = [out EXCEPT ![r] = f]
        /\ UNCHANGED <<platform, lock, sock, meta, work, pipe, pend, clone, snap>>
    BY <1>5, <2>b DEF p, f, Symbolize, To, At, others, files
  <2>2. x \in RecStates
    BY <1>r, <2>a DEF RecStates, Pcs
  <2>3. /\ x.pc = p
        /\ x.args = rec[r].args /\ x.svc = rec[r].svc /\ x.ses = rec[r].ses
        /\ x.cap = rec[r].cap /\ x.streams = rec[r].streams /\ x.fired = rec[r].fired
        /\ x.lacks = rec[r].lacks /\ x.wrote = rec[r].wrote /\ x.dump = rec[r].dump
    BY <1>r DEF RecStates
  <2>4. /\ rec' \in [Recorders -> RecStates] /\ rec'[r] = x
        /\ \A o \in Recorders \ {r} : rec'[o] = rec[o]
    BY <2>1, <2>2, Edited
  <2> HIDE DEF x
  <2>5. RecorderStands(r)'
    BY <1>r, <1>t, <2>1, <2>3, <2>4, <2>a, <2>b, <2>c, SMTT(30) DEF TraceFirst
  <2>6. RecTypes'
    BY <1>t, <2>1, <2>4, <2>b DEF RecorderInv, RecTypes
  <2>7. MetaOwned'
    BY <1>t, <2>1, <2>3, <2>4, <2>a DEF MetaOwned
  <2>8. StepOf(r)
    BY <1>t, <2>1, <2>4 DEF StepOf, RecorderInv, RecTypes, Clients
  <2> QED BY <2>1, <2>5, <2>6, <2>7, <2>8, StepKeeps
<1>6. CASE FinalizeDump(r)
  <2> DEFINE d == IF rec[r].dump = "tmp" THEN "gone" ELSE rec[r].dump
             f == out'[r]
  <2>a. d \in {"none", "tmp", "gone"}
    BY <1>r DEF RecStates
  <2>b. out' = [out EXCEPT ![r] = f] /\ f \in Files /\ (f = out[r] \/ (out[r] = "plain" /\ f \in {"plain", "tar"}))
    <3>0. out \in [Clients -> Files] /\ r \in Clients /\ out[r] \in Files
      BY <1>t
    <3>1. CASE rec[r].dump = "tmp" /\ rec[r].wrote
      <4>1. PICK k \in {"tar", "plain"} : out' = [out EXCEPT ![r] = IF out[r] = "plain" THEN k ELSE out[r]]
        BY <1>6, <3>1 DEF FinalizeDump
      <4>2. f = (IF out[r] = "plain" THEN k ELSE out[r])
        BY <3>0, <4>1
      <4> QED BY <4>1, <4>2, <3>0 DEF Files
    <3>2. CASE ~(rec[r].dump = "tmp" /\ rec[r].wrote)
      <4>1. out' = out
        BY <1>6, <3>2 DEF FinalizeDump
      <4> QED BY <4>1, <3>0
    <3> QED BY <3>1, <3>2
  <2> HIDE DEF d, f
  <2> DEFINE x == [rec[r] EXCEPT !.dump = d, !.pc = "unpipe"]
  <2>1. /\ rec' = [rec EXCEPT ![r] = x]
        /\ rec[r].pc = "dump"
        /\ out' = [out EXCEPT ![r] = f]
        /\ UNCHANGED <<platform, lock, sock, meta, work, pipe, pend, clone, snap>>
    BY <1>6, <2>b DEF d, FinalizeDump, At, others, files
  <2>2. x \in RecStates
    BY <1>r, <2>a DEF RecStates, Pcs
  <2>3. /\ x.pc = "unpipe" /\ x.dump = d
        /\ x.args = rec[r].args /\ x.svc = rec[r].svc /\ x.ses = rec[r].ses
        /\ x.cap = rec[r].cap /\ x.streams = rec[r].streams /\ x.fired = rec[r].fired
        /\ x.lacks = rec[r].lacks /\ x.wrote = rec[r].wrote
    BY <1>r DEF RecStates
  <2>4. /\ rec' \in [Recorders -> RecStates] /\ rec'[r] = x
        /\ \A o \in Recorders \ {r} : rec'[o] = rec[o]
    BY <2>1, <2>2, Edited
  <2> HIDE DEF x
  <2>5. RecorderStands(r)'
    BY <1>r, <1>t, <2>1, <2>3, <2>4, <2>b
  <2>6. RecTypes'
    BY <1>t, <2>1, <2>4, <2>b DEF RecorderInv, RecTypes
  <2>7. MetaOwned'
    BY <1>t, <2>1, <2>3, <2>4 DEF MetaOwned
  <2>8. StepOf(r)
    BY <1>t, <2>1, <2>4 DEF StepOf, RecorderInv, RecTypes, Clients
  <2> QED BY <2>1, <2>5, <2>6, <2>7, <2>8, StepKeeps
<1> QED BY <1>1, <1>2, <1>3, <1>4, <1>5, <1>6 DEF Saves

(* Tearing down, and being killed: the lock goes last.                        *)
LEMMA EndKeeps ==
  ASSUME RecorderInv, NEW r \in Recorders, Ends(r)
  PROVE  RecorderInv'
<1> USE DEF RecorderStands, HoldsLock, HookFirst, Outstanding, Awaited, CloneAwaited, Saved,
            UnderWay, Rolling, ShutEarly, CloneMisses, Holding, Starting, Ending
<1>r. rec[r] \in RecStates
  BY DEF RecorderInv, RecTypes
<1>s. rec = [rec EXCEPT ![r] = rec[r]]
  BY DEF RecorderInv, RecTypes
<1>t. /\ RecorderStands(r) /\ MetaOwned /\ r # None
      /\ work \in [Recorders -> {"none", "running", "termed", "zombie", "gone"}]
      /\ pend \in [Recorders -> SUBSET Streams] /\ pipe \in [Recorders -> Seq(Bytes)]
      /\ r \in Clients /\ clone \in [Clients -> Clones] /\ out \in [Clients -> Files]
  BY RecorderAssumption DEF RecorderInv, RecTypes, Clients
<1>b. TRUE \in BOOLEAN /\ FALSE \in BOOLEAN
  BY Zenon
<1>1. CASE ClosePipe(r)
  <2>a. <<>> \in Seq(Bytes)
    OBVIOUS
  <2> DEFINE x == [rec[r] EXCEPT !.fd = FALSE, !.ses = "none", !.pc = "close"]
  <2>1. /\ rec' = [rec EXCEPT ![r] = x]
        /\ rec[r].pc = "unpipe"
        /\ pipe' = [pipe EXCEPT ![r] = <<>>]
        /\ UNCHANGED <<platform, lock, sock, meta, work, pend, out, clone, snap>>
    BY <1>1 DEF ClosePipe, At, others, files
  <2>2. x \in RecStates
    BY <1>r, <1>b DEF RecStates, Pcs
  <2>3. /\ x.pc = "close" /\ x.ses = "none"
        /\ x.args = rec[r].args /\ x.svc = rec[r].svc /\ x.cap = rec[r].cap
        /\ x.streams = rec[r].streams /\ x.fired = rec[r].fired /\ x.lacks = rec[r].lacks
        /\ x.wrote = rec[r].wrote /\ x.dump = rec[r].dump
    BY <1>r DEF RecStates
  <2>4. /\ rec' \in [Recorders -> RecStates] /\ rec'[r] = x
        /\ \A o \in Recorders \ {r} : rec'[o] = rec[o]
    BY <2>1, <2>2, Edited
  <2> HIDE DEF x
  <2>5. RecorderStands(r)'
    BY <1>r, <1>t, <2>1, <2>3, <2>4
  <2>6. RecTypes'
    BY <1>t, <2>1, <2>4, <2>a DEF RecorderInv, RecTypes
  <2>7. MetaOwned'
    BY <1>t, <2>1, <2>3, <2>4 DEF MetaOwned
  <2>8. StepOf(r)
    BY <1>t, <2>1, <2>4 DEF StepOf, RecorderInv, RecTypes, Clients
  <2> QED BY <2>1, <2>5, <2>6, <2>7, <2>8, StepKeeps
<1>2. CASE Teardown(r)
  <2> DEFINE x == [rec[r] EXCEPT !.svc = FALSE, !.pc = "unlock"]
  <2>1. /\ rec' = [rec EXCEPT ![r] = x]
        /\ rec[r].pc = "close"
        /\ sock' \in {sock, None} /\ meta' \in {meta, NoMeta}
        /\ UNCHANGED <<platform, lock, work, pipe, pend, out, clone, snap>>
    BY <1>2 DEF Teardown, At, others, files
  <2>2. x \in RecStates
    BY <1>r, <1>b DEF RecStates, Pcs
  <2>3. /\ x.pc = "unlock" /\ x.svc = FALSE
        /\ x.args = rec[r].args /\ x.ses = rec[r].ses /\ x.cap = rec[r].cap
        /\ x.streams = rec[r].streams /\ x.fired = rec[r].fired /\ x.lacks = rec[r].lacks
        /\ x.wrote = rec[r].wrote /\ x.dump = rec[r].dump
    BY <1>r DEF RecStates
  <2>4. /\ rec' \in [Recorders -> RecStates] /\ rec'[r] = x
        /\ \A o \in Recorders \ {r} : rec'[o] = rec[o]
    BY <2>1, <2>2, Edited
  <2> HIDE DEF x
  <2>5. RecorderStands(r)'
    BY <1>r, <1>t, <2>1, <2>3, <2>4
  <2>6. RecTypes'
    BY <1>t, <2>1, <2>4 DEF RecorderInv, RecTypes
  <2>7. MetaOwned'
    BY <1>t, <2>1, <2>3, <2>4 DEF MetaOwned
  <2>8. StepOf(r)
    BY <1>t, <2>1, <2>4 DEF StepOf, RecorderInv, RecTypes, Clients
  <2> QED BY <2>1, <2>5, <2>6, <2>7, <2>8, StepKeeps
<1>3. CASE Release(r)
  <2> DEFINE x == [Fresh EXCEPT !.pc = "exit"]
  <2>1. /\ rec' = [rec EXCEPT ![r] = x]
        /\ rec[r].pc = "unlock"
        /\ lock' = None
        /\ pend' = [pend EXCEPT ![r] = {}]
        /\ out' = [out EXCEPT ![r] = NoFile]
        /\ clone' = [clone EXCEPT ![r] = NoClone]
        /\ UNCHANGED <<platform, sock, meta, work, pipe, snap>>
    BY <1>3 DEF Release, At, others, files
  <2>2. x \in RecStates
    BY FreshTyped DEF Pcs
  <2>3. /\ x.pc = "exit" /\ ~x.svc /\ x.cap = "none" /\ x.streams = {}
        /\ ~x.wrote /\ x.lacks = {} /\ x.args = NoArgs /\ x.dump = "none"
    BY <1>r DEF Fresh
  <2>4. /\ rec' \in [Recorders -> RecStates] /\ rec'[r] = x
        /\ \A o \in Recorders \ {r} : rec'[o] = rec[o]
    BY <2>1, <2>2, Edited
  <2> HIDE DEF x
  <2>5. RecorderStands(r)'
    BY <1>r, <1>t, <2>1, <2>3, <2>4, NoCloneTyped DEF NoFile
  <2>6. RecTypes'
    BY <1>t, <2>1, <2>4, NoCloneTyped DEF RecorderInv, RecTypes, NoFile, Files
  <2>7. MetaOwned'
    BY <1>t, <2>1, <2>3, <2>4 DEF MetaOwned
  <2>8. StepOf(r)
    BY <1>t, <2>1, <2>4 DEF StepOf, RecorderInv, RecTypes, Clients
  <2> QED BY <2>1, <2>5, <2>6, <2>7, <2>8, StepKeeps
<1>4. CASE Die(r)
  <2>a. <<>> \in Seq(Bytes)
    OBVIOUS
  <2> DEFINE w == IF work[r] = "zombie" THEN "gone" ELSE work[r]
  <2>b. w \in {"none", "running", "termed", "zombie", "gone"}
    BY <1>t
  <2>c. lock = r
    BY <1>4, <1>r, <1>t DEF Die, RecStates, Pcs
  <2> HIDE DEF w
  <2> DEFINE x == [Fresh EXCEPT !.pc = "dead"]
  <2>1. /\ rec' = [rec EXCEPT ![r] = x]
        /\ lock = r /\ lock' = None
        /\ pend' = [pend EXCEPT ![r] = {}]
        /\ out' = [out EXCEPT ![r] = NoFile]
        /\ clone' = [clone EXCEPT ![r] = NoClone]
        /\ pipe' = [pipe EXCEPT ![r] = <<>>]
        /\ work' = [work EXCEPT ![r] = w]
        /\ UNCHANGED <<platform, sock, meta, snap>>
    BY <1>4, <2>c DEF w, Die, At, others, files
  <2>2. x \in RecStates
    BY FreshTyped DEF Pcs
  <2>3. /\ x.pc = "dead" /\ ~x.svc /\ x.cap = "none" /\ x.streams = {}
        /\ ~x.wrote /\ x.lacks = {} /\ x.args = NoArgs /\ x.dump = "none"
    BY <1>r DEF Fresh
  <2>4. /\ rec' \in [Recorders -> RecStates] /\ rec'[r] = x
        /\ \A o \in Recorders \ {r} : rec'[o] = rec[o]
    BY <2>1, <2>2, Edited
  <2> HIDE DEF x
  <2>5. RecorderStands(r)'
    BY <1>r, <1>t, <2>1, <2>3, <2>4, NoCloneTyped DEF NoFile
  <2>6. RecTypes'
    BY <1>t, <2>1, <2>4, NoCloneTyped, <2>a, <2>b DEF RecorderInv, RecTypes, NoFile, Files
  <2>7. MetaOwned'
    BY <1>t, <2>1, <2>3, <2>4 DEF MetaOwned
  <2>8. StepOf(r)
    BY <1>t, <2>1, <2>4 DEF StepOf, RecorderInv, RecTypes, Clients
  <2> QED BY <2>1, <2>5, <2>6, <2>7, <2>8, StepKeeps
<1> QED BY <1>1, <1>2, <1>3, <1>4 DEF Ends

(* The service answers a recorder: it serves its own session, since it holds *)
(* the lock, and its copy lacks what the flush could not bring.               *)
LEMMA CloneKeeps ==
  ASSUME RecorderInv, NEW r \in Recorders, ServiceStep(r)
  PROVE  RecorderInv'
<1> USE DEF RecorderStands, HoldsLock, HookFirst, Outstanding, Awaited, CloneAwaited, Saved,
            UnderWay, Rolling, ShutEarly, CloneMisses, Holding, Starting, Ending
<1>r. rec[r] \in RecStates
  BY DEF RecorderInv, RecTypes
<1>s. rec = [rec EXCEPT ![r] = rec[r]]
  BY DEF RecorderInv, RecTypes
<1>t. /\ RecorderStands(r) /\ MetaOwned /\ r # None
      /\ work \in [Recorders -> {"none", "running", "termed", "zombie", "gone"}]
      /\ pend \in [Recorders -> SUBSET Streams] /\ pipe \in [Recorders -> Seq(Bytes)]
      /\ r \in Clients /\ clone \in [Clients -> Clones] /\ out \in [Clients -> Files]
  BY RecorderAssumption DEF RecorderInv, RecTypes, Clients
<1>b. TRUE \in BOOLEAN /\ FALSE \in BOOLEAN
  BY Zenon
<1>1. CASE ServeClone(r)
  <2>a. PICK q \in Recorders :
           /\ Serving(q) /\ rec[q].ses = "run"
           /\ pend' = [pend EXCEPT ![q] = @ \ FlushBrings(q)]
           /\ clone' = [clone EXCEPT ![r].st = "reading", ![r].of = q]
           /\ rec' = [rec EXCEPT ![r].lacks = pend'[q]]
    BY <1>1 DEF ServeClone
  <2>b. rec[r].pc = "cloning" /\ clone[r].st = "asked" /\ lock = r
    BY <1>1, <1>t DEF ServeClone
  <2>c. q = r
    BY <2>a, <2>b DEF RecorderInv, Serving
  <2> DEFINE P == pend[r] \ FlushBrings(r)
             k == [clone[r] EXCEPT !.st = "reading", !.of = r]
  <2>d. k \in Clones /\ k.st = "reading"
    BY <1>t, ZenonT(60) DEF Clones, CloneStates
  <2>e. P \in SUBSET Streams /\ P \subseteq pend[r] /\ pend'[r] = P
    BY <2>a, <2>c, <1>t
  <2>f. P \subseteq CloneMisses(r)
    <3>1. platform \in {"macos", "linux"}
      BY DEF RecorderInv, RecTypes
    <3>2. CASE platform = "linux"
      BY <1>t, <2>b, <2>e, <3>2
    <3>3. CASE platform = "macos"
      <4>1. rec[r].cap # "freed" /\ rec[r].cap \in {"none", "up", "freed"}
        BY <1>r, <1>t, <2>b, <3>3 DEF RecStates
      <4> QED BY <1>t, <2>b, <3>3, <4>1 DEF FlushBrings, Alive
    <3> QED BY <3>1, <3>2, <3>3
  <2> HIDE DEF P, k
  <2> DEFINE x == [rec[r] EXCEPT !.lacks = P]
  <2>1. /\ rec' = [rec EXCEPT ![r] = x]
        /\ rec[r].pc = "cloning"
        /\ clone[r].st = "asked"
        /\ pend' = [pend EXCEPT ![r] = P]
        /\ clone' = [clone EXCEPT ![r] = k]
        /\ UNCHANGED <<platform, lock, sock, meta, work, pipe, out, snap>>
    BY <1>1, <2>a, <2>b, <2>c, <2>e, ZenonT(60) DEF k, P, ServeClone, At, others, files
  <2>2. x \in RecStates
    BY <1>r, <2>e DEF RecStates, Pcs
  <2>3. /\ x.pc = "cloning" /\ x.lacks = P
        /\ x.args = rec[r].args /\ x.svc = rec[r].svc /\ x.ses = rec[r].ses
        /\ x.cap = rec[r].cap /\ x.streams = rec[r].streams /\ x.fired = rec[r].fired
        /\ x.wrote = rec[r].wrote /\ x.dump = rec[r].dump
    BY <1>r, <2>1 DEF RecStates
  <2>4. /\ rec' \in [Recorders -> RecStates] /\ rec'[r] = x
        /\ \A o \in Recorders \ {r} : rec'[o] = rec[o]
    BY <2>1, <2>2, Edited
  <2> HIDE DEF x
  <2>5. RecorderStands(r)'
    BY <1>r, <1>t, <2>1, <2>3, <2>4, <2>d, <2>e, <2>f
  <2>6. RecTypes'
    BY <1>t, <2>1, <2>4, <2>d, <2>e DEF RecorderInv, RecTypes
  <2>7. MetaOwned'
    BY <1>t, <2>1, <2>3, <2>4 DEF MetaOwned
  <2>8. StepOf(r)
    BY <1>t, <2>1, <2>4 DEF StepOf, RecorderInv, RecTypes, Clients
  <2> QED BY <2>1, <2>5, <2>6, <2>7, <2>8, StepKeeps
<1>2. CASE Chunk(r)
  <2> DEFINE k == clone'[r]
             f == out'[r]
  <2>a. /\ clone' = [clone EXCEPT ![r] = k] /\ k \in Clones /\ k.st \in {"reading", "read"}
        /\ out' = [out EXCEPT ![r] = f] /\ f \in Files /\ f \in {out[r], "plain"}
        /\ (k.st = "read" /\ ~k.bad => f = "plain") /\ clone[r].st = "reading"
    BY <1>2, <1>t, ChunkGives
  <2>b. rec[r].pc = "cloning"
    BY <1>t, <2>a
  <2> HIDE DEF k, f
  <2> DEFINE x == rec[r]
  <2>1. /\ rec' = [rec EXCEPT ![r] = x]
        /\ rec[r].pc = "cloning"
        /\ clone' = [clone EXCEPT ![r] = k]
        /\ out' = [out EXCEPT ![r] = f]
        /\ UNCHANGED <<platform, lock, sock, meta, work, pipe, pend, snap>>
    BY <1>2, <1>s, <2>a, <2>b DEF k, f, Chunk, At, others, files
  <2>2. x \in RecStates
    BY <1>r DEF RecStates, Pcs
  <2>3. /\ x.pc = "cloning"
        /\ x.args = rec[r].args /\ x.svc = rec[r].svc /\ x.ses = rec[r].ses
        /\ x.cap = rec[r].cap /\ x.streams = rec[r].streams /\ x.fired = rec[r].fired
        /\ x.lacks = rec[r].lacks /\ x.wrote = rec[r].wrote /\ x.dump = rec[r].dump
    BY <1>r, <2>1 DEF RecStates
  <2>4. /\ rec' \in [Recorders -> RecStates] /\ rec'[r] = x
        /\ \A o \in Recorders \ {r} : rec'[o] = rec[o]
    BY <2>1, <2>2, Edited
  <2> HIDE DEF x
  <2>5. RecorderStands(r)'
    BY <1>r, <1>t, <2>1, <2>3, <2>4, <2>a
  <2>6. RecTypes'
    BY <1>t, <2>1, <2>4, <2>a DEF RecorderInv, RecTypes
  <2>7. MetaOwned'
    BY <1>t, <2>1, <2>3, <2>4 DEF MetaOwned
  <2>8. StepOf(r)
    BY <1>t, <2>1, <2>4 DEF StepOf, RecorderInv, RecTypes, Clients
  <2> QED BY <2>1, <2>5, <2>6, <2>7, <2>8, StepKeeps
<1>3. CASE LateCallback(r)
  <2> DEFINE x == rec[r]
  <2>1. /\ rec' = [rec EXCEPT ![r] = x]
        /\ clone' = [clone EXCEPT ![r] = NoClone]
        /\ UNCHANGED <<platform, lock, sock, meta, work, pipe, pend, out, snap>>
    BY <1>3, <1>s DEF LateCallback, At, others, files
  <2>2. x \in RecStates
    BY <1>r DEF RecStates, Pcs
  <2>3. /\ x.pc = rec[r].pc
        /\ x.args = rec[r].args /\ x.svc = rec[r].svc /\ x.ses = rec[r].ses
        /\ x.cap = rec[r].cap /\ x.streams = rec[r].streams /\ x.fired = rec[r].fired
        /\ x.lacks = rec[r].lacks /\ x.wrote = rec[r].wrote /\ x.dump = rec[r].dump
    BY <1>r DEF RecStates
  <2>4. /\ rec' \in [Recorders -> RecStates] /\ rec'[r] = x
        /\ \A o \in Recorders \ {r} : rec'[o] = rec[o]
    BY <2>1, <2>2, Edited
  <2> HIDE DEF x
  <2>5. RecorderStands(r)'
    BY <1>r, <1>t, <2>1, <2>3, <2>4, NoCloneTyped
  <2>6. RecTypes'
    BY <1>t, <2>1, <2>4, NoCloneTyped DEF RecorderInv, RecTypes
  <2>7. MetaOwned'
    BY <1>t, <2>1, <2>3, <2>4 DEF MetaOwned
  <2>8. StepOf(r)
    BY <1>t, <2>1, <2>4 DEF StepOf, RecorderInv, RecTypes, Clients
  <2> QED BY <2>1, <2>5, <2>6, <2>7, <2>8, StepKeeps
<1> QED BY <1>1, <1>2, <1>3 DEF ServiceStep

(* The same for a snapshot, and the snapshot's own steps.                    *)
SnapSteps(s) == ServiceStep(s) \/ SnapStep(s)

(* A snapshot's step keeps the invariant.                                    *)
LEMMA SnapKeeps ==
  ASSUME RecorderInv, NEW s \in Snapshots, SnapSteps(s)
  PROVE  RecorderInv'
<1> DEFINE k == clone'[s]
           f == out'[s]
<1>t. /\ s \in Clients /\ s \notin Recorders /\ SnapshotStands(s)
      /\ clone \in [Clients -> Clones] /\ out \in [Clients -> Files]
      /\ snap \in [Snapshots -> {"idle", "cloning", "cloned", "exit"}]
      /\ pend \in [Recorders -> SUBSET Streams]
  BY RecorderAssumption DEF RecorderInv, RecTypes, Clients
<1>1. UNCHANGED <<platform, lock, sock, meta, rec, work, pipe>>
  BY <1>t, ZenonT(60) DEF SnapSteps, ServiceStep, SnapStep, ServeClone, Chunk, LateCallback, SnapStart,
              SnapCloned, SnapDump, files
<1>2. pend' \in [Recorders -> SUBSET Streams] /\ \A q \in Recorders : pend'[q] \subseteq pend[q]
  <2>1. CASE ServeClone(s)
    <3>1. PICK q \in Recorders : pend' = [pend EXCEPT ![q] = @ \ FlushBrings(q)]
      BY <2>1 DEF ServeClone
    <3> QED BY <3>1, <1>t
  <2>2. CASE pend' = pend
    BY <2>2, <1>t
  <2> QED BY <2>1, <2>2 DEF SnapSteps, ServiceStep, SnapStep, Chunk, LateCallback, SnapStart,
                            SnapCloned, SnapDump
<1>3. /\ clone' = [clone EXCEPT ![s] = k] /\ k \in Clones
      /\ out' = [out EXCEPT ![s] = f] /\ f \in Files
      /\ snap' = [snap EXCEPT ![s] = snap'[s]]
      /\ snap'[s] \in {"idle", "cloning", "cloned", "exit"}
      /\ SnapshotStands(s)'
  <2> USE DEF SnapshotStands, Awaited, SnapAwaited, UnderWay
  <2>1. CASE ServeClone(s)
    <3>1. PICK q \in Recorders : clone' = [clone EXCEPT ![s].st = "reading", ![s].of = q]
      BY <2>1 DEF ServeClone
    <3> DEFINE y == [clone[s] EXCEPT !.st = "reading", !.of = q]
    <3>2. y \in Clones /\ y.st = "reading"
      <4>1. clone[s] \in Clones /\ "reading" \in CloneStates /\ q \in Recorders \cup {None}
        BY <1>t DEF CloneStates
      <4> QED BY <4>1 DEF Clones
    <3>3. clone' = [clone EXCEPT ![s] = y] /\ k = y
      BY <3>1, <1>t
    <3> HIDE DEF y
    <3>4. out' = out /\ snap' = snap /\ clone[s].st = "asked"
      BY <2>1 DEF ServeClone
    <3> QED BY <3>2, <3>3, <3>4, <1>t
  <2>2. CASE Chunk(s)
    <3>1. snap' = snap /\ clone[s].st = "reading"
      BY <2>2 DEF Chunk
    <3>2. /\ clone' = [clone EXCEPT ![s] = k] /\ k \in Clones /\ k.st \in {"reading", "read"}
          /\ out' = [out EXCEPT ![s] = f] /\ f \in Files /\ f \in {out[s], "plain"}
          /\ (k.st = "read" /\ ~k.bad => f = "plain")
      BY <2>2, <1>t, ChunkGives
    <3> QED BY <3>1, <3>2, <1>t
  <2>3. CASE LateCallback(s)
    BY <2>3, <1>t, NoCloneTyped DEF LateCallback
  <2>4. CASE SnapStart(s)
    <3>1. k = [NoClone EXCEPT !.st = "asked", !.left = Chunks]
      BY <2>4, <1>t DEF SnapStart, AskClone
    <3>2. k \in Clones /\ k.st = "asked"
      BY <3>1, AskedTyped
    <3>3. /\ clone' = [clone EXCEPT ![s] = k] /\ out' = [out EXCEPT ![s] = "partial"]
          /\ snap' = [snap EXCEPT ![s] = "cloning"]
      BY <2>4, <3>1 DEF SnapStart, AskClone
    <3> HIDE DEF k
    <3>4. k = clone'[s] /\ out'[s] = "partial" /\ snap'[s] = "cloning"
      BY <3>3, <1>t
    <3> QED BY <3>2, <3>3, <3>4, <1>t DEF Files
  <2>5. CASE SnapCloned(s)
    <3>1. PICK ok \in BOOLEAN :
            /\ CloseClone(s, ok)
            /\ snap' = [snap EXCEPT ![s] = IF ok THEN "cloned" ELSE "exit"]
            /\ out' = [out EXCEPT ![s] = IF ok THEN @ ELSE NoFile]
      BY <2>5 DEF SnapCloned
    <3>2. /\ clone' = [clone EXCEPT ![s] = k] /\ k \in Clones /\ k.st \in {"none", "abandoned"}
          /\ ok => clone[s].st = "read" /\ ~clone[s].bad
      BY <3>1, <1>t, ClosesClone
    <3>3. f = (IF ok THEN out[s] ELSE NoFile) /\ snap'[s] = (IF ok THEN "cloned" ELSE "exit")
      BY <3>1, <1>t
    <3>4. f \in Files /\ out' = [out EXCEPT ![s] = f]
      BY <3>1, <3>3, <1>t DEF Files, NoFile
    <3>5. snap' = [snap EXCEPT ![s] = snap'[s]]
      BY <3>1, <3>3
    <3> HIDE DEF k, f
    <3>6. SnapshotStands(s)'
      BY <3>2, <3>3, <1>t DEF NoFile, k, f
    <3> QED BY <3>2, <3>3, <3>4, <3>5, <3>6
  <2>6. CASE SnapDump(s)
    <3>1. PICK j \in {"plain", "tar"} : out' = [out EXCEPT ![s] = IF @ = "plain" THEN j ELSE "spoiled"]
      BY <2>6 DEF SnapDump
    <3>2. snap[s] = "cloned" /\ snap' = [snap EXCEPT ![s] = "exit"] /\ clone' = clone
      BY <2>6 DEF SnapDump
    <3>3. out[s] = "plain" /\ f = j
      BY <3>1, <3>2, <1>t
    <3> QED BY <3>1, <3>2, <3>3, <1>t DEF Files
  <2> QED BY <2>1, <2>2, <2>3, <2>4, <2>5, <2>6 DEF SnapSteps, ServiceStep, SnapStep
<1> HIDE DEF k, f
<1>4. \A c \in Clients \ {s} : out'[c] = out[c] /\ clone'[c] = clone[c]
  BY <1>3, <1>t
<1>5. ASSUME NEW q \in Recorders PROVE RecorderStands(q)'
  <2>1. RecorderStands(q) /\ out'[q] = out[q] /\ clone'[q] = clone[q]
    BY <1>4, <1>t DEF RecorderInv, Clients
  <2> QED BY <2>1, <1>1, <1>2 DEF RecorderStands, HoldsLock, HookFirst, Outstanding, Awaited,
            CloneAwaited, Saved, UnderWay, Rolling, ShutEarly, CloneMisses
<1>6. ASSUME NEW t \in Snapshots PROVE SnapshotStands(t)'
  <2>1. CASE t = s
    BY <2>1, <1>3
  <2>2. CASE t # s
    <3>1. SnapshotStands(t) /\ out'[t] = out[t] /\ clone'[t] = clone[t] /\ snap'[t] = snap[t]
      BY <2>2, <1>3, <1>4, <1>t DEF RecorderInv, Clients
    <3> QED BY <3>1 DEF SnapshotStands, Awaited, SnapAwaited, UnderWay
  <2> QED BY <2>1, <2>2
<1>7. RecTypes'
  BY <1>1, <1>2, <1>3, <1>t DEF RecorderInv, RecTypes
<1>8. MetaOwned'
  BY <1>1 DEF RecorderInv, MetaOwned
<1> QED BY <1>5, <1>6, <1>7, <1>8 DEF RecorderInv

------------------------------------------------------------------------------
(* The machine before any command satisfies the invariant.                   *)
LEMMA RecorderInitInv == Init => RecorderInv
<1> SUFFICES ASSUME Init PROVE RecorderInv
  OBVIOUS
<1>1. /\ Fresh \in RecStates /\ Fresh.pc = "idle" /\ ~Fresh.svc /\ Fresh.cap = "none"
      /\ Fresh.streams = {} /\ ~Fresh.wrote
  BY FreshTyped DEF Fresh
<1>2. \A r \in Recorders : rec[r] = Fresh /\ pend[r] = {} /\ work[r] = "none" /\ lock # r
  BY RecorderAssumption DEF Init, Clients
<1>3. \A c \in Clients : out[c] = "none" /\ clone[c].st = "none"
  BY NoCloneTyped DEF Init, NoFile
<1>4. RecTypes
  <2>1. <<>> \in Seq(Bytes)
    OBVIOUS
  <2> QED BY <1>1, <2>1, NoCloneTyped, RecorderAssumption DEF Init, RecTypes, NoFile, Files
<1>5. \A r \in Recorders : RecorderStands(r)
  BY <1>1, <1>2, <1>3 DEF Clients, RecorderStands, HoldsLock, HookFirst, Outstanding, Awaited,
       CloneAwaited, Saved, UnderWay, Rolling, ShutEarly, CloneMisses, Holding, Starting, Ending
<1>6. \A s \in Snapshots : SnapshotStands(s)
  BY <1>3 DEF Init, Clients, SnapshotStands, Awaited, SnapAwaited, UnderWay
<1>7. MetaOwned
  BY DEF Init, MetaOwned
<1> QED BY <1>4, <1>5, <1>6, <1>7 DEF RecorderInv

(* Every step of every process keeps it.                                     *)
LEMMA RecorderNextInv == RecorderInv /\ [Next]_vars => RecorderInv'
<1> SUFFICES ASSUME RecorderInv, [Next]_vars PROVE RecorderInv'
  OBVIOUS
<1>1. ASSUME NEW r \in Recorders, Starts(r) \/ LoopSteps(r) \/ Saves(r) \/ Ends(r) PROVE RecorderInv'
  BY <1>1, StartKeeps, LoopKeeps, SaveKeeps, EndKeeps
<1>2. ASSUME NEW c \in Clients, ServiceStep(c) PROVE RecorderInv'
  BY <1>2, CloneKeeps, SnapKeeps DEF Clients, SnapSteps
<1>3. ASSUME NEW s \in Snapshots, SnapStep(s) PROVE RecorderInv'
  BY <1>3, SnapKeeps DEF SnapSteps
<1>4. CASE UNCHANGED vars
  BY <1>4 DEF vars, RecorderInv, RecTypes, MetaOwned, RecorderStands, HoldsLock, HookFirst,
       Outstanding, Awaited, CloneAwaited, Saved, UnderWay, Rolling, ShutEarly, CloneMisses,
       SnapshotStands, SnapAwaited
<1> QED BY <1>1, <1>2, <1>3, <1>4
        DEF Next, RecorderStep, WatcherStep, Starts, LoopSteps, Saves, Ends

(* RecorderInv holds in every state, for any number of recorders and         *)
(* snapshots, any command lines and any number of signals and kills.         *)
THEOREM RecorderSafe == Spec => []RecorderInv
BY RecorderInitInv, RecorderNextInv, PTL DEF Spec

(* A trace reported as saved lacks only what the clone cannot bring.         *)
THEOREM TraceSaved == Spec => []SavedComplete
<1>1. RecorderInv => SavedComplete
  BY DEF RecorderInv, RecorderStands, Saved, SavedComplete
<1> QED BY <1>1, RecorderSafe, PTL

(* A file reported as written is a whole trace, alone or in a bundle, or     *)
(* begins with one, behind which an append failed half-way; nothing is put   *)
(* into a file that is not the trace.                                        *)
THEOREM OutputSound == Spec => []OutputWhole
<1>1. RecorderInv => OutputWhole
  BY DEF RecorderInv, RecorderStands, SnapshotStands, Saved, Awaited, SnapAwaited, OutputWhole, Clients,
     TraceFirst
<1> QED BY <1>1, RecorderSafe, PTL

(* Sockets and meta file are touched by the session that holds the lock, and *)
(* by the next one only once their owner has ended.                          *)
FilesOfOwner ==
  /\ sock # None /\ sock' # sock /\ rec[sock].svc => ~rec'[sock].svc
  /\ meta # NoMeta /\ meta' # meta => lock = meta.by \/ rec[meta.by].pc \in {"exit", "dead"}

(* The socket and the meta file are touched by their owner, or once it has   *)
(* ended.                                                                    *)
LEMMA FilesStep == RecorderInv /\ Next => FilesOfOwner
<1> SUFFICES ASSUME RecorderInv, Next PROVE FilesOfOwner
  OBVIOUS
<1>1. meta # NoMeta => lock = meta.by \/ rec[meta.by].pc \in {"exit", "dead"}
  <2> SUFFICES ASSUME meta # NoMeta PROVE lock = meta.by \/ rec[meta.by].pc \in {"exit", "dead"}
    OBVIOUS
  <2>1. meta.by \in Recorders /\ RecorderStands(meta.by) /\ MetaOwned
    BY DEF RecorderInv, RecTypes
  <2> QED BY <2>1 DEF MetaOwned, RecorderStands, HoldsLock, Holding, Starting
<1>2. ASSUME sock # None, sock' # sock, rec[sock].svc PROVE ~rec'[sock].svc
  <2>1. sock \in Recorders /\ RecorderStands(sock)
    BY <1>2 DEF RecorderInv, RecTypes
  <2>2. lock = sock /\ rec[sock].pc \notin {"clean", "serve"}
    BY <1>2, <2>1 DEF RecorderStands, HoldsLock, Holding, Starting, Ending
  <2>3. PICK r \in Recorders : CleanStale(r) \/ StartService(r) \/ Teardown(r)
    <3>1. ASSUME NEW r \in Recorders,
                 (Starts(r) /\ ~CleanStale(r) /\ ~StartService(r)) \/ LoopSteps(r)
          PROVE  sock' = sock
      BY <3>1 DEF Starts, Launch, AcquireTarget, StartCaptures, StartSession, WriteMeta, OpenPipe,
           LoopSteps, Produce, TargetExit, Reap, WatchWrite, TimerFire, HandleSigint, ReadPipe,
           HandleExitByte, PreStopHook, HandleStopByte, LoopEnds, files
    <3>2. ASSUME NEW r \in Recorders, Saves(r) \/ (Ends(r) /\ ~Teardown(r)) PROVE sock' = sock
      BY <3>2, SMTT(30) DEF Saves, SaveAsk, SaveDone, StopSession, Shutdown, Symbolize, FinalizeDump, Ends,
           ClosePipe, Release, Die, files
    <3>3. ASSUME NEW c \in Clients, ServiceStep(c) \/ SnapStep(c) PROVE sock' = sock
      BY <3>3 DEF ServiceStep, ServeClone, Chunk, LateCallback, SnapStep, SnapStart, SnapCloned,
           SnapDump, files
    <3>4. PICK r \in Recorders : Starts(r) \/ LoopSteps(r) \/ Saves(r) \/ Ends(r)
      BY <1>2, <3>3 DEF Next, RecorderStep, WatcherStep, Starts, LoopSteps, Saves, Ends, Clients
    <3> QED BY <1>2, <3>1, <3>2, <3>4, SMTT(30) DEF Ends
  <2>4. rec[r].pc \in {"clean", "serve", "close"}
    BY <2>3 DEF CleanStale, StartService, Teardown, At
  <2>5. r = sock
    <3>1. RecorderStands(r)
      BY DEF RecorderInv
    <3> QED BY <2>2, <2>4, <3>1 DEF RecorderStands, HoldsLock, Holding, Starting, Ending
  <2>6. Teardown(sock)
    BY <2>2, <2>3, <2>5 DEF CleanStale, StartService, At
  <2>7. rec' = [rec EXCEPT ![sock] = [rec[sock] EXCEPT !.svc = FALSE, !.pc = "unlock"]]
    BY <2>6 DEF Teardown
  <2> QED BY <2>1, <2>7 DEF RecorderInv, RecTypes, RecStates
<1> QED BY <1>1, <1>2 DEF FilesOfOwner

(* A recorder tears down a socket or a meta file only while it is its own:   *)
(* another recorder's files are left alone.                                  *)
THEOREM FilesOwned == Spec => OthersUntouched
<1>1. RecorderInv /\ [Next]_vars => [FilesOfOwner]_vars
  BY FilesStep
<1> QED BY <1>1, RecorderSafe, PTL DEF Spec, OthersUntouched, FilesOfOwner

(* The dump is taken once, in a running session and before SIGTERM.          *)
LEMMA HookStep == RecorderInv /\ Next => DumpInTime
<1> SUFFICES ASSUME RecorderInv, Next, NEW r \in Recorders, rec'[r].dump = "tmp", rec[r].dump # "tmp"
             PROVE  work[r] = "running" /\ rec[r].ses = "run" /\ ~rec[r].fired
  BY DEF DumpInTime
<1>1. rec \in [Recorders -> RecStates] /\ rec[r] \in RecStates /\ RecorderStands(r)
  BY DEF RecorderInv, RecTypes
<1> DEFINE Kept == rec'[r].dump \in {rec[r].dump, "none", "gone"}
<1>2. ASSUME NEW q \in Recorders, Starts(q) PROVE Kept
  <2>1. CASE Launch(q)
    <3>1. CASE \E a \in Args[q] :
              rec' = [rec EXCEPT ![q].args = a,
                        ![q].pc = IF platform = "macos" THEN "clean" ELSE "serve"]
      <4>1. PICK a, p : rec' = [rec EXCEPT ![q].args = a, ![q].pc = p]
        BY <3>1
      <4> QED BY <1>1, <4>1 DEF RecStates
    <3>2. CASE rec' = [rec EXCEPT ![q].pc = "exit"]
      BY <1>1, <3>2 DEF RecStates
    <3> QED BY <2>1, <3>1, <3>2 DEF Launch, To
  <2>2. CASE CleanStale(q)
    BY <1>1, <2>2 DEF CleanStale, To, RecStates
  <2>3. CASE StartService(q)
    <3>1. CASE rec' = [rec EXCEPT ![q].pc = "target", ![q].svc = TRUE]
      BY <1>1, <3>1 DEF RecStates
    <3>2. CASE rec' = [rec EXCEPT ![q].pc = "exit"]
      BY <1>1, <3>2 DEF RecStates
    <3> QED BY <2>3, <3>1, <3>2 DEF StartService, To
  <2>4. CASE AcquireTarget(q)
    <3>1. CASE rec' = [rec EXCEPT ![q].pc = "capture"]
      BY <1>1, <3>1 DEF RecStates
    <3>2. CASE rec' = [rec EXCEPT ![q] = [Fresh EXCEPT !.pc = "exit"]]
      BY <1>1, <3>2 DEF RecStates, Fresh
    <3> QED BY <2>4, <3>1, <3>2 DEF AcquireTarget, EarlyExit, To
  <2>5. CASE StartCaptures(q)
    BY <1>1, <2>5 DEF StartCaptures, To, RecStates
  <2>6. CASE StartSession(q)
    <3>1. CASE rec' = [rec EXCEPT ![q].pc = "meta", ![q].ses = "run"]
      BY <1>1, <3>1 DEF RecStates
    <3>2. CASE rec' = [rec EXCEPT ![q] = [Fresh EXCEPT !.pc = "exit"]]
      BY <1>1, <3>2 DEF RecStates, Fresh
    <3> QED BY <2>6, <3>1, <3>2 DEF StartSession, EarlyExit
  <2>7. CASE WriteMeta(q)
    BY <1>1, <2>7 DEF WriteMeta, To, RecStates
  <2>8. CASE OpenPipe(q)
    <3>1. CASE \E w \in {"off", "on"} :
              rec' = [rec EXCEPT ![q].pc = "wait", ![q].fd = TRUE, ![q].watch = w,
                                 ![q].timer = IF rec[q].args.timed THEN "on" ELSE "off"]
      <4>1. PICK w, t : rec' = [rec EXCEPT ![q].pc = "wait", ![q].fd = TRUE, ![q].watch = w, ![q].timer = t]
        BY <3>1
      <4> QED BY <1>1, <4>1 DEF RecStates
    <3>2. CASE rec' = [rec EXCEPT ![q] = [Fresh EXCEPT !.pc = "exit"]]
      BY <1>1, <3>2 DEF RecStates, Fresh
    <3> QED BY <2>8, <3>1, <3>2 DEF OpenPipe, EarlyExit
  <2> QED BY <1>2, <2>1, <2>2, <2>3, <2>4, <2>5, <2>6, <2>7, <2>8 DEF Starts
<1>3. ASSUME NEW q \in Recorders, LoopSteps(q), ~PreStopHook(q) PROVE Kept
  <2>1. CASE Produce(q)
    BY <1>1, <2>1 DEF Produce, To, RecStates
  <2>2. CASE TargetExit(q)
    BY <1>1, <2>2 DEF TargetExit, To, RecStates
  <2>3. CASE Reap(q)
    BY <1>1, <2>3 DEF Reap, To, RecStates
  <2>4. CASE WatchWrite(q)
    BY <1>1, <2>4 DEF WatchWrite, To, RecStates
  <2>5. CASE TimerFire(q)
    BY <1>1, <2>5 DEF TimerFire, To, RecStates
  <2>6. CASE HandleSigint(q)
    BY <1>1, <2>6 DEF HandleSigint, To, RecStates
  <2>7. CASE ReadPipe(q)
    BY <1>1, <2>7 DEF ReadPipe, To, RecStates
  <2>8. CASE HandleExitByte(q)
    BY <1>1, <2>8 DEF HandleExitByte, To, RecStates
  <2>9. CASE HandleStopByte(q)
    BY <1>1, <2>9 DEF HandleStopByte, To, RecStates
  <2>10. CASE LoopEnds(q)
    BY <1>1, <2>10 DEF LoopEnds, To, RecStates
  <2> QED BY <1>3, <2>1, <2>2, <2>3, <2>4, <2>5, <2>6, <2>7, <2>8, <2>9, <2>10 DEF LoopSteps
<1>4. ASSUME NEW q \in Recorders, Saves(q) PROVE Kept
  <2>1. CASE SaveAsk(q)
    BY <1>1, <2>1 DEF SaveAsk, To, RecStates
  <2>2. CASE SaveDone(q)
    BY <1>1, <2>2 DEF SaveDone, To, RecStates
  <2>3. CASE StopSession(q)
    <3>1. CASE \E l : rec' = [rec EXCEPT ![q].ses = "stopped", ![q].wrote = TRUE, ![q].pc = "shut", ![q].lacks = l]
      <4>1. PICK l : rec' = [rec EXCEPT ![q].ses = "stopped", ![q].wrote = TRUE, ![q].pc = "shut", ![q].lacks = l]
        BY <3>1
      <4> QED BY <1>1, <4>1 DEF RecStates
    <3>2. CASE \E p : rec' = [rec EXCEPT ![q].ses = "stopped", ![q].pc = p]
      <4>1. PICK p : rec' = [rec EXCEPT ![q].ses = "stopped", ![q].pc = p]
        BY <3>2
      <4> QED BY <1>1, <4>1 DEF RecStates
    <3> QED BY <2>3, <3>1, <3>2 DEF StopSession
  <2>4. CASE Shutdown(q)
    BY <1>1, <2>4 DEF Shutdown, To, RecStates
  <2>5. CASE Symbolize(q)
    BY <1>1, <2>5 DEF Symbolize, To, RecStates
  <2>6. CASE FinalizeDump(q)
    BY <1>1, <2>6 DEF FinalizeDump, To, RecStates
  <2> QED BY <1>4, <2>1, <2>2, <2>3, <2>4, <2>5, <2>6 DEF Saves
<1>5. ASSUME NEW q \in Recorders, Ends(q) PROVE Kept
  <2>1. CASE ClosePipe(q)
    BY <1>1, <2>1 DEF ClosePipe, To, RecStates
  <2>2. CASE Teardown(q)
    BY <1>1, <2>2 DEF Teardown, To, RecStates
  <2>3. CASE Release(q)
    BY <1>1, <2>3 DEF Release, To, RecStates, Fresh
  <2>4. CASE Die(q)
    BY <1>1, <2>4, SMTT(30) DEF Die, To, RecStates, Fresh
  <2> QED BY <1>5, <2>1, <2>2, <2>3, <2>4 DEF Ends
<1>6. ASSUME NEW c \in Clients, ServiceStep(c) \/ SnapStep(c) PROVE Kept
  <2>1. CASE ServeClone(c)
    <3>1. PICK v : rec' = IF c \in Recorders THEN [rec EXCEPT ![c].lacks = v] ELSE rec
      BY <2>1 DEF ServeClone
    <3> QED BY <1>1, <3>1 DEF RecStates
  <2>2. CASE rec' = rec
    BY <2>2
  <2> QED BY <1>6, <2>1, <2>2 DEF ServiceStep, Chunk, LateCallback, SnapStep, SnapStart, SnapCloned, SnapDump
<1>7. PICK q \in Recorders : PreStopHook(q)
  <2>1. PICK q \in Recorders : Starts(q) \/ LoopSteps(q) \/ Saves(q) \/ Ends(q)
    BY <1>6 DEF Next, RecorderStep, WatcherStep, Starts, LoopSteps, Saves, Ends, Clients
  <2> QED BY <1>2, <1>3, <1>4, <1>5, <2>1
<1>8. q = r
  <2>1. PICK d : rec' = [rec EXCEPT ![q] = [rec[q] EXCEPT !.fired = TRUE, !.dump = d]]
    BY <1>7 DEF PreStopHook
  <2> QED BY <1>1, <2>1
<1>9. PICK d \in {"none", "tmp"} :
        /\ d = "tmp" => work[r] \in {"running", "termed"}
        /\ rec' = [rec EXCEPT ![r] = [rec[r] EXCEPT !.fired = TRUE, !.dump = d]]
  BY <1>7, <1>8, ZenonT(60) DEF PreStopHook
<1>10. d = "tmp"
  BY <1>1, <1>9 DEF RecStates
<1>11. rec[r].pc = "wait" /\ rec[r].args.deep /\ ~rec[r].fired
  BY <1>7, <1>8 DEF PreStopHook, StopByteNext, HookDue, At
<1> QED BY <1>1, <1>9, <1>10, <1>11 DEF RecorderStands, HookFirst, Holding

(* The pre-stop hook dumps the heap before the target is told to end.        *)
THEOREM HookTaken == Spec => DumpBeforeTerm
<1>1. RecorderInv /\ [Next]_vars => [DumpInTime]_vars
  BY HookStep
<1> QED BY <1>1, RecorderSafe, PTL DEF Spec, DumpBeforeTerm, DumpInTime

------------------------------------------------------------------------------
(* Doctor.                                                                  *)

DoctorRuns ==
  [pc : {"exited", "caps", "tracefs", "paranoid", "decide", "escalate", "grant", "reread",
         "chown", "lower"},
   by : Users, euid : Users, sudoUid : Users \cup {NoUid}, fix : BOOLEAN, capsOk : BOOLEAN,
   tfix : {0, 1, 2}, pfix : BOOLEAN, failed : BOOLEAN, rc : {0, 1}]
Machines == [caps : Caps, tracefs : [TRACEFS_BASES -> TracingOn], search : Searchers,
             paranoid : Paranoid]
DoctorTypes ==
  /\ sys \in Machines
  /\ doc \in DoctorRuns
  /\ shed \in BOOLEAN /\ runs \in Nat

(* What a recording by the user behind this run needs.                       *)
CapsThere == sys.caps = "all" \/ shed
TracefsTheirs ==
  sys.tracefs[1] # NotMounted /\ sys.tracefs[1].ownerWrites =>
    (Reaches(doc.by) \/ doc.tfix = 1 => Reaches(doc.by) /\ Writable(1, doc.by))
ParanoiaLow == sys.paranoid <= 1

(* The checks are made for the user who invoked doctor, also behind sudo.    *)
ForInvoker ==
  /\ doc.pc # "exited" => recording_uid = doc.by
  /\ doc.pc = "escalate" => doc.euid # 0
  /\ doc.pc \in {"escalate", "grant", "reread", "chown", "lower"} => doc.fix

(* A check that found nothing to fix is right until the run ends.            *)
ChecksStand ==
  /\ doc.pc \in {"tracefs", "paranoid", "decide", "escalate", "grant"} => (doc.capsOk => CapsThere)
  /\ doc.pc \in {"paranoid", "decide", "escalate", "grant", "reread", "chown"} =>
       /\ doc.tfix = 0 => TracefsTheirs
       /\ doc.tfix = 2 => sys.tracefs[1] = NotMounted
       /\ doc.tfix # 0 => sys.tracefs[doc.tfix] # NotMounted
  /\ doc.pc \in {"decide", "escalate", "grant", "reread", "chown", "lower"} =>
       (~doc.pfix => ParanoiaLow)

(* A repair that did not fail holds.                                         *)
RepairsStand ==
  /\ doc.pc \in {"chown", "lower"} => (~doc.failed => CapsThere)
  /\ doc.pc = "lower" => (~doc.failed => TracefsTheirs)

DoctorInv == DoctorTypes /\ ForInvoker /\ ChecksStand /\ RepairsStand /\ FixHolds

(* Before the first run and after a reboot there is no run.                  *)
LEMMA NoRunTyped == NoRun \in DoctorRuns
<1>1. FALSE \in BOOLEAN
  BY Zenon
<1> QED BY <1>1, DoctorAssumption DEF NoRun, DoctorRuns, NoUid

(* The machine in whatever state it is, before the first run.                *)
LEMMA DoctorInitInv == DoctorInit => DoctorInv
<1> SUFFICES ASSUME DoctorInit PROVE DoctorInv
  OBVIOUS
<1>1. DoctorTypes
  <2>1. shed \in BOOLEAN
    BY Zenon DEF DoctorInit
  <2> QED BY <2>1, NoRunTyped DEF DoctorInit, DoctorTypes, Machines
<1>2. doc.pc = "exited" /\ doc.rc = 1
  BY DEF DoctorInit, NoRun
<1> QED BY <1>1, <1>2 DEF DoctorInv, ForInvoker, ChecksStand, RepairsStand, FixHolds, Upon

(* A step that goes on with the run of the same user on the same machine     *)
(* keeps who it is for.                                                      *)
SameInvoker == doc'.by = doc.by /\ doc'.euid = doc.euid /\ doc'.sudoUid = doc.sudoUid /\ doc'.fix = doc.fix
SameFindings == doc'.capsOk = doc.capsOk /\ doc'.tfix = doc.tfix /\ doc'.pfix = doc.pfix

(* Every step of doctor, a rebuild and a reboot keep the invariant.          *)
LEMMA DoctorNextInv == DoctorInv /\ [DoctorNext]_doctorVars => DoctorInv'
<1> SUFFICES ASSUME DoctorInv, [DoctorNext]_doctorVars PROVE DoctorInv'
  OBVIOUS
<1>t. /\ doc \in DoctorRuns /\ shed \in BOOLEAN /\ runs \in Nat
      /\ sys \in Machines
  BY DEF DoctorInv, DoctorTypes
<1> DEFINE Stands == ForInvoker /\ ChecksStand /\ RepairsStand /\ FixHolds
<1>s. Stands
  BY DEF DoctorInv
<1>q. DoctorTypes' /\ Stands' => DoctorInv'
  BY DEF DoctorInv
<1> USE DEF Machines, ForInvoker, ChecksStand, RepairsStand, FixHolds, CapsThere, TracefsTheirs,
            ParanoiaLow, recording_uid, Upon, SameInvoker, SameFindings
<1>1. CASE StartDoctor
  <2>1. PICK u \in Users, sudo \in BOOLEAN, fix \in BOOLEAN :
            doc' = [NoRun EXCEPT !.pc = "caps", !.by = u, !.euid = IF sudo THEN 0 ELSE u,
                      !.sudoUid = IF sudo THEN u ELSE NoUid, !.fix = fix]
    BY <1>1 DEF StartDoctor
  <2>2. /\ doc'.pc = "caps" /\ doc'.by = u /\ doc'.euid = (IF sudo THEN 0 ELSE u)
        /\ doc'.sudoUid = (IF sudo THEN u ELSE NoUid)
    BY <2>1 DEF NoRun
  <2>3. DoctorTypes'
    <3>1. doc' \in DoctorRuns
      BY <2>1, NoRunTyped, DoctorAssumption DEF DoctorRuns
    <3>2. shed' \in BOOLEAN
      BY <1>1, Zenon DEF StartDoctor
    <3> QED BY <3>1, <3>2, <1>1, <1>t DEF StartDoctor, DoctorTypes
  <2>4. Stands'
    BY <2>2, DoctorAssumption DEF NoUid
  <2> QED BY <2>3, <2>4, <1>q
<1>2. CASE check_caps
  <2>1. /\ doc' = [doc EXCEPT !.pc = "tracefs", !.capsOk = (sys.caps = "all")]
        /\ doc.pc = "caps" /\ UNCHANGED <<sys, shed, runs>>
    BY <1>2 DEF check_caps, machine
  <2>2. doc'.pc = "tracefs" /\ SameInvoker /\ (doc'.capsOk <=> sys.caps = "all")
    BY <2>1, <1>t DEF DoctorRuns
  <2>3. DoctorTypes'
    BY <2>1, <1>t DEF DoctorTypes, DoctorRuns
  <2>4. Stands'
    BY <2>1, <2>2, <1>s
  <2> QED BY <2>3, <2>4, <1>q
<1>3. CASE tracefs_needing_fix
  <2> DEFINE seen == {b \in TRACEFS_BASES : Visible(b)}
             first == IF 1 \in seen THEN 1 ELSE 2
             fixed == IF seen = {} \/ Writable(first, recording_uid) THEN 0 ELSE first
  <2>1. /\ doc' = [doc EXCEPT !.pc = "paranoid", !.tfix = fixed]
        /\ doc.pc = "tracefs" /\ UNCHANGED <<sys, shed, runs>>
    BY <1>3 DEF tracefs_needing_fix, machine
  <2>2. /\ doc'.pc = "paranoid" /\ SameInvoker /\ doc'.capsOk = doc.capsOk /\ doc'.tfix = fixed
    BY <2>1, <1>t DEF DoctorRuns
  <2>3. DoctorTypes'
    <3>1. fixed \in {0, 1, 2}
      OBVIOUS
    <3> HIDE DEF fixed
    <3> QED BY <3>1, <2>1, <1>t DEF DoctorTypes, DoctorRuns
  <2>4. recording_uid = doc.by
    BY <2>1, <1>s
  <2>5. sys.tracefs[1] # NotMounted /\ (doc.euid = 0 \/ Reaches(doc.by)) => first = 1 /\ seen # {}
    <3>1. doc.euid = 0 \/ doc.euid = doc.by
      BY <2>4
    <3> QED BY <3>1 DEF Visible, TRACEFS_BASES
  <2>6. fixed = 0 => (sys.tracefs[1] # NotMounted => (Reaches(doc.by) => Writable(1, doc.by)))
    BY <2>4, <2>5
  <2>7. fixed = 2 => sys.tracefs[1] = NotMounted
    <3>1. fixed = 2 => 2 \in seen /\ 1 \notin seen
      BY DEF TRACEFS_BASES
    <3>2. 2 \in seen => doc.euid = 0
      BY DEF Visible
    <3> QED BY <3>1, <3>2, <2>5
  <2>m. fixed # 0 => sys.tracefs[fixed] # NotMounted
    BY DEF Visible, TRACEFS_BASES
  <2>8. fixed = 0 => TracefsTheirs'
    <3> HIDE DEF fixed
    <3> QED BY <2>1, <2>2, <2>6 DEF Writable, Reaches
  <2>9. fixed \in {0, 1, 2}
    OBVIOUS
  <2>10. Stands'
    <3> HIDE DEF fixed
    <3> QED BY <2>1, <2>2, <2>7, <2>m, <2>8, <2>9, <1>s
  <2> QED BY <2>3, <2>10, <1>q
<1>4. CASE check_perf_paranoid
  <2>1. /\ doc' = [doc EXCEPT !.pc = "decide", !.pfix = (sys.paranoid > 1)]
        /\ doc.pc = "paranoid" /\ UNCHANGED <<sys, shed, runs>>
    BY <1>4 DEF check_perf_paranoid, machine
  <2>2. /\ doc'.pc = "decide" /\ SameInvoker /\ doc'.capsOk = doc.capsOk /\ doc'.tfix = doc.tfix
        /\ (doc'.pfix <=> sys.paranoid > 1)
    BY <2>1, <1>t DEF DoctorRuns
  <2>3. DoctorTypes'
    <3>1. TRUE \in BOOLEAN /\ FALSE \in BOOLEAN
      BY Zenon
    <3>2. CASE sys.paranoid > 1
      <4>1. doc' = [doc EXCEPT !.pc = "decide", !.pfix = TRUE]
        BY <2>1, <3>2
      <4> QED BY <4>1, <3>1, <2>1, <1>t DEF DoctorTypes, DoctorRuns
    <3>3. CASE ~(sys.paranoid > 1)
      <4>0. (sys.paranoid > 1) = FALSE
        BY <3>3
      <4>1. doc' = [doc EXCEPT !.pc = "decide", !.pfix = FALSE]
        BY <2>1, <4>0, Zenon
      <4> QED BY <4>1, <3>1, <2>1, <1>t DEF DoctorTypes, DoctorRuns
    <3> QED BY <3>2, <3>3
  <2>4. Stands'
    BY <2>1, <2>2, <1>s, <1>t DEF Writable, Reaches, Paranoid
  <2> QED BY <2>3, <2>4, <1>q
<1>5. CASE run_decides
  <2> DEFINE ready == doc.capsOk /\ doc.tfix = 0
  <2>1. doc.pc = "decide" /\ UNCHANGED <<sys, shed, runs>>
    BY <1>5 DEF run_decides, machine
  <2>2. CASE ~doc.fix
    <3>1. doc' = [doc EXCEPT !.pc = "exited", !.rc = IF ready THEN 0 ELSE 1]
      BY <1>5, <2>2 DEF run_decides, Exit
    <3>2. doc'.pc = "exited" /\ SameInvoker /\ SameFindings /\ doc'.rc = (IF ready THEN 0 ELSE 1)
      BY <3>1, <1>t DEF DoctorRuns
    <3>3. DoctorTypes'
      BY <2>1, <3>1, <1>t DEF DoctorTypes, DoctorRuns
    <3>4. Stands'
      BY <2>1, <2>2, <3>2, <1>s DEF Writable, Reaches
    <3> QED BY <3>3, <3>4, <1>q
  <2>3. CASE doc.fix /\ ready /\ ~doc.pfix
    <3>1. doc' = [doc EXCEPT !.pc = "exited", !.rc = 0]
      BY <1>5, <2>3 DEF run_decides, Exit
    <3>2. doc'.pc = "exited" /\ SameInvoker /\ SameFindings /\ doc'.rc = 0
      BY <3>1, <1>t DEF DoctorRuns
    <3>3. DoctorTypes'
      BY <2>1, <3>1, <1>t DEF DoctorTypes, DoctorRuns
    <3>4. Stands'
      BY <2>1, <2>3, <3>2, <1>s DEF Writable, Reaches
    <3> QED BY <3>3, <3>4, <1>q
  <2>4. CASE doc.fix /\ ~(ready /\ ~doc.pfix)
    <3>1. doc' = [doc EXCEPT !.pc = IF doc.euid = 0 THEN "grant" ELSE "escalate"]
      BY <1>5, <2>4 DEF run_decides
    <3>2. /\ doc'.pc = (IF doc.euid = 0 THEN "grant" ELSE "escalate")
          /\ SameInvoker /\ SameFindings
      BY <3>1, <1>t DEF DoctorRuns
    <3>3. DoctorTypes'
      BY <2>1, <3>1, <1>t DEF DoctorTypes, DoctorRuns
    <3>4. Stands'
      BY <2>1, <2>4, <3>2, <1>s DEF Writable, Reaches
    <3> QED BY <3>3, <3>4, <1>q
  <2> QED BY <2>2, <2>3, <2>4
<1>6. CASE escalate_fix
  <2>1. doc.pc = "escalate" /\ UNCHANGED <<sys, shed, runs>>
    BY <1>6 DEF escalate_fix, machine
  <2>2. CASE doc' = Exit(1)
    <3>1. doc'.pc = "exited" /\ doc'.rc = 1
      BY <2>2, <1>t DEF DoctorRuns, Exit
    <3>2. DoctorTypes'
      BY <2>1, <2>2, <1>t DEF DoctorTypes, DoctorRuns, Exit
    <3>3. Stands'
      BY <3>1
    <3> QED BY <3>2, <3>3, <1>q
  <2>3. CASE doc' = [NoRun EXCEPT !.pc = "caps", !.by = doc.by, !.euid = 0,
                       !.sudoUid = doc.euid, !.fix = TRUE]
    <3>1. doc'.pc = "caps" /\ doc'.by = doc.by /\ doc'.euid = 0 /\ doc'.sudoUid = doc.euid
      BY <2>3 DEF NoRun
    <3>2. DoctorTypes'
      <4>1. TRUE \in BOOLEAN
        BY Zenon
      <4>2. doc' \in DoctorRuns
        BY <2>3, <4>1, <1>t, NoRunTyped, DoctorAssumption DEF DoctorRuns
      <4> QED BY <2>1, <4>2, <1>t DEF DoctorTypes
    <3>3. doc.euid # NoUid
      BY <1>t, DoctorAssumption DEF DoctorRuns, NoUid
    <3>4. Stands'
      BY <2>1, <3>1, <3>3, <1>s
    <3> QED BY <3>2, <3>4, <1>q
  <2> QED BY <2>2, <2>3, <1>6 DEF escalate_fix
<1>7. CASE write_file_caps
  <2>1. doc.pc = "grant" /\ UNCHANGED <<shed, runs>>
    BY <1>7 DEF write_file_caps
  <2>2. CASE doc.capsOk /\ doc' = [doc EXCEPT !.pc = "chown"] /\ UNCHANGED sys
    <3>1. doc'.pc = "chown" /\ SameInvoker /\ SameFindings
      BY <2>2, <1>t DEF DoctorRuns
    <3>2. DoctorTypes'
      BY <2>1, <2>2, <1>t DEF DoctorTypes, DoctorRuns
    <3>3. Stands'
      BY <2>1, <2>2, <3>1, <1>s DEF Writable, Reaches
    <3> QED BY <3>2, <3>3, <1>q
  <2>3. CASE /\ ~doc.capsOk /\ doc' = [doc EXCEPT !.pc = "reread"]
             /\ sys' = [sys EXCEPT !.caps = "all"]
    <3>1. /\ doc'.pc = "reread" /\ SameInvoker /\ SameFindings
          /\ sys'.tracefs = sys.tracefs /\ sys'.paranoid = sys.paranoid
          /\ sys'.search = sys.search
      BY <2>3, <1>t DEF DoctorRuns
    <3>2. DoctorTypes'
      BY <2>1, <2>3, <1>t DEF DoctorTypes, DoctorRuns, Caps
    <3>3. Stands'
      BY <2>1, <3>1, <1>s DEF Writable, Reaches
    <3> QED BY <3>2, <3>3, <1>q
  <2>4. CASE /\ ~doc.capsOk /\ doc' = [doc EXCEPT !.pc = "chown", !.failed = TRUE]
             /\ UNCHANGED sys
    <3>1. doc'.pc = "chown" /\ SameInvoker /\ SameFindings /\ doc'.failed
      BY <2>4, <1>t DEF DoctorRuns
    <3>2. DoctorTypes'
      <4>1. TRUE \in BOOLEAN
        BY Zenon
      <4> QED BY <2>1, <2>4, <4>1, <1>t DEF DoctorTypes, DoctorRuns
    <3>3. Stands'
      BY <2>1, <2>4, <3>1, <1>s DEF Writable, Reaches
    <3> QED BY <3>2, <3>3, <1>q
  <2> QED BY <2>2, <2>3, <2>4, <1>7 DEF write_file_caps
<1>8. CASE read_file_caps
  <2>1. /\ doc' = [doc EXCEPT !.pc = "chown", !.failed = (@ \/ sys.caps # "all")]
        /\ doc.pc = "reread" /\ UNCHANGED <<sys, shed, runs>>
    BY <1>8 DEF read_file_caps, machine
  <2>2. /\ doc'.pc = "chown" /\ SameInvoker /\ SameFindings
        /\ (~doc'.failed => sys.caps = "all")
    BY <2>1, <1>t DEF DoctorRuns
  <2>3. DoctorTypes'
    BY <2>1, <1>t DEF DoctorTypes, DoctorRuns
  <2>4. Stands'
    BY <2>1, <2>2, <1>s DEF Writable, Reaches
  <2> QED BY <2>3, <2>4, <1>q
<1>9. CASE ChownTracefs
  <2>1. doc.pc = "chown" /\ UNCHANGED <<shed, runs>>
    BY <1>9 DEF ChownTracefs
  <2>2. CASE doc.tfix = 0 /\ doc' = [doc EXCEPT !.pc = "lower"] /\ UNCHANGED sys
    <3>1. doc'.pc = "lower" /\ SameInvoker /\ SameFindings /\ doc'.failed = doc.failed
      BY <2>2, <1>t DEF DoctorRuns
    <3>2. DoctorTypes'
      BY <2>1, <2>2, <1>t DEF DoctorTypes, DoctorRuns
    <3>3. Stands'
      BY <2>1, <2>2, <3>1, <1>s DEF Writable, Reaches
    <3> QED BY <3>2, <3>3, <1>q
  <2>3. CASE /\ doc.tfix # 0 /\ recording_uid # 0
             /\ sys' = TreeChowned
             /\ \E failed \in BOOLEAN : doc' = [doc EXCEPT !.pc = "lower", !.failed = @ \/ failed]
    <3>1. PICK failed \in BOOLEAN : doc' = [doc EXCEPT !.pc = "lower", !.failed = @ \/ failed]
      BY <2>3
    <3>2. /\ doc'.pc = "lower" /\ SameInvoker /\ SameFindings
          /\ (~doc'.failed => ~doc.failed)
      BY <3>1, <1>t DEF DoctorRuns
    <3>3. doc.tfix \in {1, 2} /\ recording_uid = doc.by /\ doc.by \in Users
      BY <2>1, <2>3, <1>s, <1>t DEF DoctorRuns
    <3>4. /\ sys'.caps = sys.caps /\ sys'.paranoid = sys.paranoid
          /\ sys'.tracefs = [sys.tracefs EXCEPT ![doc.tfix].owner = doc.by]
          /\ sys'.search = IF doc.tfix = 1 /\ sys.search # Anyone THEN doc.by ELSE sys.search
          /\ sys' \in [caps : {sys'.caps}, tracefs : {sys'.tracefs}, search : {sys'.search},
                      paranoid : {sys'.paranoid}]
      BY <2>3, <3>3, <1>t DEF TreeChowned
    <3>s. sys'.search \in Searchers /\ (doc.tfix = 1 => Reaches(doc.by)')
      BY <3>2, <3>3, <3>4, <1>t DEF Searchers, Reaches
    <3>5. doc.tfix = 2 => sys'.tracefs[1] = sys.tracefs[1]
      BY <3>4, <1>t DEF TRACEFS_BASES
    <3>6. doc.tfix = 1 => sys'.tracefs[1] = [sys.tracefs[1] EXCEPT !.owner = doc.by]
      BY <3>4, <1>t DEF TRACEFS_BASES
    <3>7. doc.tfix = 1 => sys'.tracefs[1].owner = doc.by
      BY <3>6, <1>t DEF TRACEFS_BASES, TracingOn, NotMounted
    <3>8. doc.tfix = 2 => sys'.tracefs[1] = NotMounted
      BY <2>1, <3>5, <1>s
    <3>9. DoctorTypes'
      <4>1. doc' \in DoctorRuns
        BY <3>1, <1>t DEF DoctorRuns
      <4>2. sys.tracefs[doc.tfix] # NotMounted
        BY <2>1, <3>3, <1>s
      <4>3. [sys.tracefs[doc.tfix] EXCEPT !.owner = doc.by] \in TracingOn
        BY <4>2, <3>3, <1>t DEF TracingOn, TRACEFS_BASES
      <4>4. sys'.tracefs \in [TRACEFS_BASES -> TracingOn]
        BY <3>4, <4>3, <1>t
      <4> QED BY <2>1, <3>4, <3>s, <4>1, <4>4, <1>t DEF DoctorTypes
    <3>10. Stands'
      BY <2>1, <3>2, <3>3, <3>4, <3>s, <3>7, <3>8, <1>s DEF Writable
    <3> QED BY <3>9, <3>10, <1>q
  <2>4. CASE /\ doc.tfix # 0 /\ doc' = [doc EXCEPT !.pc = "lower", !.failed = TRUE]
             /\ sys' \in {sys} \cup (IF recording_uid # 0 THEN {FileChowned} ELSE {})
    <3>1. doc'.pc = "lower" /\ SameInvoker /\ SameFindings /\ doc'.failed
      BY <2>4, <1>t DEF DoctorRuns
    <3>2. doc' \in DoctorRuns
      <4>1. TRUE \in BOOLEAN
        BY Zenon
      <4> QED BY <2>4, <4>1, <1>t DEF DoctorRuns
    <3>3. sys' \in Machines /\ sys'.paranoid = sys.paranoid /\ sys'.caps = sys.caps
      <4>1. CASE sys' = sys
        BY <4>1, <1>t
      <4>2. CASE sys' = FileChowned
        <5>1. doc.tfix \in {1, 2} /\ recording_uid = doc.by /\ doc.by \in Users
          BY <2>1, <2>4, <1>s, <1>t DEF DoctorRuns
        <5>2. [sys.tracefs[doc.tfix] EXCEPT !.owner = doc.by] \in TracingOn
          <6>1. sys.tracefs[doc.tfix] # NotMounted
            BY <2>1, <5>1, <1>s
          <6> QED BY <6>1, <5>1, <1>t DEF TracingOn, TRACEFS_BASES
        <5>3. sys' = [sys EXCEPT !.tracefs =
                        [sys.tracefs EXCEPT ![doc.tfix] = [sys.tracefs[doc.tfix] EXCEPT !.owner = doc.by]]]
          BY <4>2, <5>1, <1>t DEF FileChowned
        <5> QED BY <5>2, <5>3, <1>t
      <4> QED BY <2>4, <4>1, <4>2
    <3>4. Stands'
      BY <2>1, <3>1, <3>3, <1>s
    <3> QED BY <2>1, <3>2, <3>3, <3>4, <1>t, <1>q DEF DoctorTypes
  <2> QED BY <2>2, <2>3, <2>4, <1>9 DEF ChownTracefs
<1>10. CASE LowerParanoid
  <2>1. doc.pc = "lower" /\ UNCHANGED <<shed, runs>>
    BY <1>10 DEF LowerParanoid
  <2>2. CASE ~doc.pfix /\ doc' = Exit(IF doc.failed THEN 1 ELSE 0) /\ UNCHANGED sys
    <3>1. doc'.pc = "exited" /\ SameInvoker /\ SameFindings /\ doc'.rc = (IF doc.failed THEN 1 ELSE 0)
      BY <2>2, <1>t DEF DoctorRuns, Exit
    <3>2. DoctorTypes'
      BY <2>1, <2>2, <1>t DEF DoctorTypes, DoctorRuns, Exit
    <3>3. Stands'
      BY <2>1, <2>2, <3>1, <1>s DEF Writable, Reaches
    <3> QED BY <3>2, <3>3, <1>q
  <2>3. CASE /\ doc.pfix /\ sys' = [sys EXCEPT !.paranoid = 1]
             /\ doc' = Exit(IF doc.failed THEN 1 ELSE 0)
    <3>1. /\ doc'.pc = "exited" /\ SameInvoker /\ SameFindings /\ doc'.rc = (IF doc.failed THEN 1 ELSE 0)
          /\ sys'.caps = sys.caps /\ sys'.tracefs = sys.tracefs /\ sys'.paranoid = 1
          /\ sys'.search = sys.search
      BY <2>3, <1>t DEF DoctorRuns, Exit
    <3>2. DoctorTypes'
      BY <2>1, <2>3, <1>t DEF DoctorTypes, DoctorRuns, Exit, Paranoid
    <3>3. Stands'
      BY <2>1, <3>1, <1>s DEF Writable, Reaches
    <3> QED BY <3>2, <3>3, <1>q
  <2>4. CASE doc.pfix /\ doc' = Exit(1) /\ UNCHANGED sys
    <3>1. doc'.pc = "exited" /\ doc'.rc = 1
      BY <2>4, <1>t DEF DoctorRuns, Exit
    <3>2. DoctorTypes'
      BY <2>1, <2>4, <1>t DEF DoctorTypes, DoctorRuns, Exit
    <3>3. Stands'
      BY <3>1
    <3> QED BY <3>2, <3>3, <1>q
  <2> QED BY <2>2, <2>3, <2>4, <1>10 DEF LowerParanoid
<1>11. CASE Rebuild
  <2>1. sys' = [sys EXCEPT !.caps = "none"] /\ shed' = TRUE /\ doc' = doc /\ runs' = runs + 1
    BY <1>11 DEF Rebuild
  <2>2. sys'.tracefs = sys.tracefs /\ sys'.paranoid = sys.paranoid /\ sys'.search = sys.search
    BY <2>1, <1>t
  <2>3. DoctorTypes'
    <3>1. shed' \in BOOLEAN
      BY <2>1, Zenon
    <3> QED BY <2>1, <3>1, <1>t DEF DoctorTypes, Caps
  <2>4. Stands'
    BY <2>1, <2>2, <1>s DEF Writable, Reaches
  <2> QED BY <2>3, <2>4, <1>q
<1>12. CASE Reboot
  <2>1. doc' = NoRun /\ shed' = FALSE /\ runs' = runs + 1
    BY <1>12 DEF Reboot
  <2>2. doc'.pc = "exited" /\ doc'.rc = 1
    BY <2>1 DEF NoRun
  <2>3. DoctorTypes'
    <3> DEFINE given == [owner |-> 0, ownerWrites |-> TRUE, allWrite |-> FALSE]
               mounts == [b \in TRACEFS_BASES |->
                            IF sys.tracefs[b] = NotMounted THEN NotMounted ELSE given]
               seekers == IF sys.search = Anyone THEN Anyone ELSE 0
               level == IF sys.paranoid = -1 THEN -1 ELSE 2
    <3>1. given \in TracingOn /\ NotMounted \in TracingOn
      <4>1. TRUE \in BOOLEAN /\ FALSE \in BOOLEAN
        BY Zenon
      <4> QED BY <4>1, DoctorAssumption DEF TracingOn
    <3>2. mounts \in [TRACEFS_BASES -> TracingOn]
      BY <3>1
    <3>3. level \in Paranoid
      BY DEF Paranoid
    <3>4. sys' = [sys EXCEPT !.paranoid = level, !.search = seekers, !.tracefs = mounts]
      BY <1>12 DEF Reboot
    <3>5. shed' \in BOOLEAN
      BY <2>1, Zenon
    <3>s. seekers \in Searchers
      BY DoctorAssumption DEF Searchers
    <3> HIDE DEF mounts, level, seekers
    <3>6. sys' \in Machines
      BY <3>2, <3>3, <3>s, <3>4, <1>t
    <3> QED BY <2>1, <3>5, <3>6, <1>t, NoRunTyped DEF DoctorTypes
  <2>4. Stands'
    BY <2>2
  <2> QED BY <2>3, <2>4, <1>q
<1>13. CASE UNCHANGED doctorVars
  BY <1>13, <1>s, <1>t, <1>q DEF doctorVars, DoctorTypes, Writable, Reaches
<1> QED BY <1>1, <1>2, <1>3, <1>4, <1>5, <1>6, <1>7, <1>8, <1>9, <1>10, <1>11, <1>12, <1>13
        DEF DoctorNext

(* FixHolds for any set of users: an exit code of 0 means that the user who  *)
(* invoked doctor, directly or through sudo, can record.                     *)
THEOREM DoctorFixHolds == DoctorSpec => []FixHolds
<1>1. DoctorSpec => []DoctorInv
  BY DoctorInitInv, DoctorNextInv, PTL DEF DoctorSpec
<1>2. DoctorInv => FixHolds
  BY DEF DoctorInv
<1> QED BY <1>1, <1>2, PTL

=============================================================================
