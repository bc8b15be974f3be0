------------------------------ MODULE HeapDump ------------------------------
(***************************************************************************)
(* sismo-cli/src: the memory.dump heap dump.  take_memory_deep_dump finds    *)
(* the target's runtime (heap_dump.rs) and has the JVM write its dump        *)
(* through jcmd (jvm_heap_dump.rs) or reads a V8 snapshot from Node's        *)
(* inspector over a WebSocket (v8_heap_dump.rs); once the trace is final     *)
(* finalize_memory_deep_dump puts the dump into a tar with it                *)
(* (tar_bundle.rs) or beside it.  The target may exit, the inspector may     *)
(* stop talking and every file operation may fail, at any step.              *)
(***************************************************************************)
EXTENDS Integers, Sequences, SequencesExt

CONSTANTS Block,      \* cells of a tar block
          Lens,       \* lengths of a trace and of a dump
          MaxMember,  \* largest member a tar header can describe
          NChunks,    \* chunks of a V8 snapshot
          MaxExtra,   \* pings and other notifications among them
          MaxPolls    \* queries of the inspector

ASSUME DumpAssumption ==
  /\ Block \in Nat \ {0} /\ Lens \subseteq Nat /\ MaxMember \in Nat /\ NChunks \in Nat
  /\ MaxExtra \in Nat /\ MaxPolls \in Nat \ {0}

(* Files: the trace, the spooled dump, the bundle under construction, the    *)
(* file beside the trace, and a dump in the target's own directory.          *)
DumpFiles == {"trace", "tmp", "bundle", "sibling", "stray"}
Cells(x, n) == [i \in 1..n |-> <<x, i>>]
Gone == Cells("gone", 1)
Stale == Cells("stale", 1)

VARIABLES tgt,   \* the target: [kind, alive, home (in the recorder's directory), len]
          port,  \* who listens on 9229: "none", "target", "other"
          fs,    \* the files
          dump,  \* the recorder: [pc, rt, cand, polls, msg, out, todo], and as a ghost stuck:
              \* what was at the destination could not be removed
          ins,   \* the inspector: [pc, chunk, frag, extra]
          wire,  \* frames on their way
          lossy, \* ghost: the inspector sent what cannot be decoded, or an error
          traceLen \* length of the trace
dumpVars == <<tgt, port, fs, dump, ins, wire, lossy, traceLen>>

NotTaken == [pc |-> "take", rt |-> "none", cand |-> 0, polls |-> 0, msg |-> <<>>,
             out |-> <<>>, todo |-> 0, stuck |-> FALSE]
Quiet == [pc |-> "idle", chunk |-> 1, frag |-> 1, extra |-> 0]
DumpInit ==
  /\ \E k \in {"java", "embedded", "node", "other"}, h \in BOOLEAN, n \in Lens :
       tgt = [kind |-> k, alive |-> TRUE, home |-> h, len |-> n]
  /\ port \in {"none", "other"} /\ traceLen \in Lens
  /\ \E old \in {Gone, Stale} : fs = [f \in DumpFiles |-> IF f = "tmp" THEN old ELSE Gone]
  /\ dump = NotTaken /\ ins = Quiet /\ wire = <<>> /\ lossy = FALSE

At(pc) == dump.pc = pc
To(pc) == dump' = [dump EXCEPT !.pc = pc]
Put(f, x) == fs' = [fs EXCEPT ![f] = x]
(* remove_file; that it fails is ignored everywhere.                         *)
Unlink(f) == fs' \in {fs, [fs EXCEPT ![f] = Gone]}
outside == <<tgt, port, ins, wire, lossy, traceLen>>

------------------------------------------------------------------------------
(* take_memory_deep_dump: nothing of a target that has exited; detect by the *)
(* executable's name, else by a jcmd that can attach.                        *)
Detects ==
  CASE tgt.kind = "java" -> [dump EXCEPT !.pc = "remove", !.rt = "jvm"]
    [] tgt.kind = "node" -> [dump EXCEPT !.pc = "signal", !.rt = "node"]
    [] OTHER -> [dump EXCEPT !.pc = "probe", !.cand = 3]
take_memory_deep_dump ==
  /\ At("take")
  /\ dump' = IF tgt.alive THEN Detects ELSE [dump EXCEPT !.pc = "none"]
  /\ UNCHANGED <<fs, outside>>

(* jcmd: the candidates in turn until one can be run; that one decides.  It  *)
(* attaches to a live JVM that lets it.                                      *)
JcmdMissing ==
  /\ dump.pc \in {"probe", "jcmd"} /\ dump.cand > 0
  /\ dump' = [dump EXCEPT !.cand = @ - 1, !.pc = IF dump.cand = 1 THEN "none" ELSE @]
  /\ UNCHANGED <<fs, outside>>
JcmdFails == dump.pc \in {"probe", "jcmd"} /\ To("none") /\ UNCHANGED <<fs, outside>>
IsJvm == tgt.alive /\ tgt.kind \in {"java", "embedded"}
is_jvm == At("probe") /\ IsJvm /\ dump' = [dump EXCEPT !.pc = "remove", !.rt = "jvm"] /\ UNCHANGED <<fs, outside>>

(* take_heap_dump: remove the destination, have the JVM write it - where its *)
(* own directory puts a relative path -, then look for it.  The JVM does not *)
(* overwrite a file, and jcmd succeeds when its command was delivered.       *)
RemoveDest ==
  /\ At("remove") /\ Unlink("tmp")
  /\ dump' = [dump EXCEPT !.pc = "jcmd", !.cand = 3, !.stuck = (fs'["tmp"] # Gone)]
  /\ UNCHANGED outside
Dest == IF tgt.home THEN "tmp" ELSE "stray"
HeapDumpStarts ==
  /\ At("jcmd") /\ IsJvm
  /\ \/ fs[Dest] = Gone /\ To("writing") /\ Put(Dest, <<>>)
     \/ fs[Dest] # Gone /\ To(IF fs["tmp"] = Gone THEN "none" ELSE "taken") /\ UNCHANGED fs
  /\ UNCHANGED outside
HeapDumpWrites ==
  /\ At("writing") /\ tgt.alive /\ Len(fs[Dest]) < tgt.len
  /\ Put(Dest, Append(fs[Dest], <<"d", Len(fs[Dest]) + 1>>)) /\ UNCHANGED <<dump, outside>>
take_heap_dump ==
  /\ At("writing")
  /\ \/ ~tgt.alive /\ To("none")
     \/ /\ tgt.alive /\ fs[Dest] = Cells("d", tgt.len)
        /\ To(IF fs["tmp"] = Gone THEN "none" ELSE "taken")
  /\ UNCHANGED <<fs, outside>>

------------------------------------------------------------------------------
(* Node: SIGUSR1 starts the inspector, unless another process has the port.  *)
Signal ==
  /\ At("signal")
  /\ To(IF tgt.alive THEN "poll" ELSE "none")
  /\ UNCHANGED <<fs, outside>>
InspectorOpens ==
  /\ At("poll") /\ tgt.alive /\ port = "none" /\ port' = "target"
  /\ UNCHANGED <<tgt, fs, dump, ins, wire, lossy, traceLen>>
Listens == port = "other" \/ (port = "target" /\ tgt.alive)

(* wait_for_inspector: query until an answer has the URL or time is up.      *)
wait_for_inspector ==
  /\ At("poll")
  /\ \/ Listens /\ To("handshake")
     \/ dump.polls < MaxPolls - 1 /\ dump' = [dump EXCEPT !.polls = @ + 1]
     \/ To("none")
  /\ UNCHANGED <<fs, outside>>

(* snapshot_over_ws: connect, upgrade, ask, create the file.                 *)
Handshake ==
  /\ At("handshake") /\ Listens
  /\ dump' = [dump EXCEPT !.pc = "read"] /\ Put("tmp", <<>>)
  /\ ins' = [ins EXCEPT !.pc = "send"]
  /\ UNCHANGED <<tgt, port, wire, lossy, traceLen>>
(* Whatever fails in it - a read of 30 s, the deadline of 300 s, a close, a  *)
(* lost connection, a write - the file is removed.                           *)
SnapshotFails ==
  /\ dump.pc \in {"handshake", "read", "flush"}
  /\ To("none") /\ Unlink("tmp") /\ UNCHANGED outside

(* The inspector: each chunk as a message of two frames or one, control      *)
(* frames anywhere, other notifications between messages; the response last. *)
(* A frame carries parts of a message.                                       *)
Frame(op, fin, parts) == [op |-> op, fin |-> fin, parts |-> parts]
Part(i, k) == <<"chunk", i, k>>
Sends(f) == ins.pc = "send" /\ Listens /\ Len(wire) < 1 /\ wire' = Append(wire, f)
SendChunk ==
  /\ ins.chunk <= NChunks
  /\ \/ /\ ins.frag = 1 /\ Sends(Frame("text", TRUE, <<Part(ins.chunk, 1), Part(ins.chunk, 2)>>))
        /\ ins' = [ins EXCEPT !.chunk = @ + 1] /\ UNCHANGED lossy
     \/ /\ ins.frag = 1 /\ Sends(Frame("text", FALSE, <<Part(ins.chunk, 1)>>))
        /\ ins' = [ins EXCEPT !.frag = 2] /\ UNCHANGED lossy
     \/ /\ ins.frag = 2 /\ Sends(Frame("continuation", TRUE, <<Part(ins.chunk, 2)>>))
        /\ ins' = [ins EXCEPT !.chunk = @ + 1, !.frag = 1] /\ UNCHANGED lossy
     \/ /\ ins.frag = 1 /\ Sends(Frame("text", TRUE, <<Part(ins.chunk, 1)>>))  \* cannot be unescaped
        /\ ins' = [ins EXCEPT !.chunk = @ + 1] /\ lossy' = TRUE
  /\ UNCHANGED <<tgt, port, fs, dump, traceLen>>
SendOther ==
  /\ ins.extra < MaxExtra /\ ins' = [ins EXCEPT !.extra = @ + 1]
  /\ \/ Sends(Frame("ping", TRUE, <<>>))
     \/ Sends(Frame("close", TRUE, <<>>))
     \/ ins.frag = 1 /\ Sends(Frame("text", TRUE, <<<<"note">>>>))
  /\ UNCHANGED <<tgt, port, fs, dump, lossy, traceLen>>
SendResponse ==
  /\ ins.frag = 1 /\ Sends(Frame("text", TRUE, <<<<"id1">>>>))
  /\ lossy' = (lossy \/ ins.chunk <= NChunks)   \* an error
  /\ ins' = [ins EXCEPT !.pc = "done"]
  /\ UNCHANGED <<tgt, port, fs, dump, traceLen>>

(* extract_json_string: the chunk's content, if the string is whole.         *)
IsChunk(m) == m # <<>> /\ m[1][1] = "chunk" /\ m[1][3] = 1
extract_json_string(m) == IF IsChunk(m) /\ Last(m)[1] = "chunk" /\ Last(m)[3] = 2 THEN m ELSE <<>>

(* One frame: a text or continuation frame adds to the message, which is     *)
(* looked at when the last has come; a ping is answered; a close is an error.*)
\* Mutant: a control frame ends the message.
PingClears(f) == IF f.op \in {"text", "continuation"} THEN dump.msg \o f.parts ELSE <<>>
Gather(f) == IF f.op \in {"text", "continuation"} THEN dump.msg \o f.parts ELSE dump.msg
read_frame ==
  /\ At("read") /\ wire # <<>> /\ Head(wire).op # "close"
  /\ wire' = Tail(wire)
  /\ LET f == Head(wire)
         m == Gather(f)
         whole == f.fin /\ f.op \in {"text", "continuation"}
     IN dump' = IF ~whole THEN [dump EXCEPT !.msg = m]
                ELSE [dump EXCEPT !.msg = <<>>, !.out = @ \o extract_json_string(m),
                        !.pc = IF extract_json_string(m) = <<>> /\ Contains(m, <<"id1">>)
                               THEN "flush" ELSE @]
  /\ UNCHANGED <<tgt, port, fs, ins, lossy, traceLen>>
FlushSnapshot ==
  /\ At("flush")
  /\ To("taken") /\ Put("tmp", dump.out) /\ UNCHANGED outside

------------------------------------------------------------------------------
(* finalize_memory_deep_dump, once the recorder is done with the trace; a    *)
(* dump without a trace is dropped.                                          *)
TraceSaved ==
  /\ At("taken") \/ At("none")
  /\ \/ /\ Put("trace", Cells("t", traceLen))
        /\ dump' = [dump EXCEPT !.todo = 1, !.pc =
             IF At("none") THEN "end" ELSE IF dump.rt = "jvm" THEN "create" ELSE "place"]
     \/ /\ IF At("taken") THEN Unlink("tmp") ELSE UNCHANGED fs
        /\ To("end")
  /\ UNCHANGED outside

place_sibling ==
  /\ At("place") /\ To("end")
  /\ \/ fs' = [fs EXCEPT !["sibling"] = fs["tmp"], !["tmp"] = Gone]
     \/ UNCHANGED fs
  /\ UNCHANGED outside

(* write_tar: for each member a header block, the data, padding to a block;  *)
(* two zero blocks.                                                          *)
Zeros(n) == [i \in 1..n |-> <<"zero">>]
header_for(name, size) == <<<<"header", name, size>>>> \o Zeros(Block - 1)
\* Mutant: a member that ends at a block boundary gets a block of padding.
PadAlways(n) == Zeros(Block - (n % Block))
Padding(n) == Zeros((Block - (n % Block)) % Block)
Members == <<"trace", "tmp">>
CreateBundle ==
  /\ At("create") /\ To("member") /\ Put("bundle", <<>>) /\ UNCHANGED outside
WriteMember ==
  /\ At("member") /\ dump.todo <= 2
  /\ LET src == fs[Members[dump.todo]]
     IN /\ Len(src) <= MaxMember
        /\ Put("bundle", fs["bundle"] \o header_for(Members[dump.todo], Len(src)) \o src
                           \o Padding(Len(src)))
  /\ dump' = [dump EXCEPT !.todo = @ + 1]
  /\ UNCHANGED outside
(* Any step fails: a member too large, its size changed, no space.           *)
BundleFails ==
  /\ At("create") \/ At("member")
  /\ To("unlink") /\ Unlink("bundle") /\ UNCHANGED outside
EndArchive ==
  /\ At("member") /\ dump.todo = 3
  /\ To("rename") /\ Put("bundle", fs["bundle"] \o Zeros(2 * Block)) /\ UNCHANGED outside
(* The bundle takes the trace's name; a rename that fails leaves both.       *)
RenameBundle ==
  /\ At("rename") /\ To("unlink")
  /\ \/ fs' = [fs EXCEPT !["trace"] = fs["bundle"], !["bundle"] = Gone]
     \/ UNCHANGED fs
  /\ UNCHANGED outside
RemoveTmp ==
  /\ At("unlink") /\ To("end") /\ Unlink("tmp") /\ UNCHANGED outside

(* The target exits; the recorder is killed.                                 *)
TargetExits ==
  /\ tgt.alive /\ tgt' = [tgt EXCEPT !.alive = FALSE]
  /\ dump.pc \in {"take", "probe", "jcmd", "writing", "signal", "poll", "handshake", "read"}
  /\ UNCHANGED <<port, fs, dump, ins, wire, lossy, traceLen>>
RecorderDies == dump.pc \notin {"end", "dead"} /\ To("dead") /\ UNCHANGED <<fs, outside>>

DumpNext ==
  \/ take_memory_deep_dump \/ JcmdMissing \/ JcmdFails \/ is_jvm \/ RemoveDest
  \/ HeapDumpStarts \/ HeapDumpWrites \/ take_heap_dump
  \/ Signal \/ InspectorOpens \/ wait_for_inspector \/ Handshake \/ SnapshotFails
  \/ SendChunk \/ SendOther \/ SendResponse \/ read_frame \/ FlushSnapshot
  \/ TraceSaved \/ place_sibling \/ CreateBundle \/ WriteMember \/ BundleFails
  \/ EndArchive \/ RenameBundle \/ RemoveTmp \/ TargetExits \/ RecorderDies

DumpSpec == DumpInit /\ [][DumpNext]_dumpVars

------------------------------------------------------------------------------
(* Properties.                                                              *)

Snapshot == FlattenSeq([i \in 1..NChunks |-> <<Part(i, 1), Part(i, 2)>>])
(* What a dump consists of; for a JVM whose destination could not be cleared *)
(* what is there is the file of an earlier run.                              *)
JvmDump == IF dump.stuck THEN Stale ELSE Cells("d", tgt.len)
WholeDump == IF dump.rt = "jvm" THEN JvmDump ELSE Snapshot

(* What is taken for a dump is the whole of what the runtime wrote or sent,  *)
(* however it was cut into frames and whatever came in between.  Excepted:   *)
(* a snapshot whose inspector sent an error or an undecodable chunk, and an  *)
(* older file that take_heap_dump failed to remove (DumpFresh).              *)
DumpWhole ==
  dump.pc \in {"taken", "create", "member", "rename", "place"} /\ ~lossy => fs["tmp"] = WholeDump

(* What take_heap_dump says of itself: a file that was at the destination is *)
(* removed first, so the dump that is taken is never that file.  It does not *)
(* hold: the removal may fail, and whatever is there afterwards is accepted. *)
DumpFresh ==
  dump.pc \in {"taken", "create", "member", "rename", "place"} => fs["tmp"] # Stale

(* What a tar reader finds from cell o on: the members, by their headers.    *)
TarRead(tar) ==
  LET from[o \in 0..Len(tar)] ==
        IF o = Len(tar) \/ tar[o + 1][1] # "header" THEN <<>>
        ELSE LET n == tar[o + 1][3]
                 end == o + Block + ((n + Block - 1) \div Block) * Block
             IN << <<tar[o + 1][2], SubSeq(tar, o + Block + 1, o + Block + n)>> >> \o
                (IF end <= Len(tar) THEN from[end] ELSE <<>>)
  IN from[0]

(* Under the trace's name there is, at every moment and whatever fails or    *)
(* dies, the trace as it was saved or a tar in which a reader finds it and   *)
(* the dump that was taken, whole; nobody removes the one before the other   *)
(* is there.                                                                 *)
BundleWhole ==
  fs["trace"] # Gone =>
    \/ fs["trace"] = Cells("t", traceLen)
    \/ TarRead(fs["trace"]) = << <<"trace", Cells("t", traceLen)>>, <<"tmp", WholeDump>> >>
=============================================================================
