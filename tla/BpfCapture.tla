----------------------------- MODULE BpfCapture -----------------------------
(***************************************************************************)
(* sismo-core/src/cpu/linux_bpf_capture.rs: the Linux CPU capture.  BPF     *)
(* programs put samples into a ring buffer; one worker drains it, resolves  *)
(* every frame against snapshots of the target's mappings, interns stacks   *)
(* per trace sequence and emits packets; the SDK's thread starts, flushes   *)
(* and stops the data source through atomics the worker serves.  Meanwhile  *)
(* the target maps and unmaps modules and its files are rebuilt.            *)
(***************************************************************************)
EXTENDS ModuleRegistry, Sequences, SequencesExt

CONSTANTS Slots,        \* places in the address space a module can be mapped at
          Paths,        \* paths of module files
          MaxEvents,    \* records put into the ring buffer
          MaxFlushes,   \* flush requests
          MaxTurns      \* starts of the data source, and changes of the target's
                        \* mappings and files, together

ASSUME BpfAssumption ==
  /\ PathOf \in [Inodes -> Paths] /\ Slots \subseteq Nat \ {0}
  /\ MaxEvents \in Nat /\ MaxFlushes \in Nat /\ MaxTurns \in Nat

Seqs == {"on", "off"}  \* the on-CPU and the off-CPU packet sequence

VARIABLES vm,      \* per slot: the inode mapped there, NoInode if none
          disk,    \* per path: the inode it names now
          changes, \* changes of vm and disk so far
          ring,    \* the BPF ring buffer
          sent,    \* records put into it so far
          sdk,     \* the tracing thread: [pc, n (session), flushes]
          flag,    \* atomics: [active, need (sequences), flush, stop, exit]
          mark,    \* ghost: `sent` when the pending flush and stop were asked for
          w,       \* the worker: where it is, the flush it serves, its acks
          job,     \* the record the worker is handling
          cap,     \* what the capture knows of the target's modules
          reg,     \* its ModuleRegistry
          tab,     \* per sequence: the Interner, iid = index
          trace,   \* per sequence: what a reader of the trace knows
          aux,     \* session the off-CPU writer is bound to, 0 if not created
          tail     \* off-CPU packets in that writer, not yet committed
vars == <<vm, disk, changes, ring, sent, sdk, flag, mark, w, job, cap, reg, tab,
          trace, aux, tail>>

world == <<vm, disk, changes>>
kernel == <<ring, sent>>
output == <<tab, trace, aux, tail>>

NoJob == [st |-> "none", type |-> "none", slot |-> 0, ino |-> NoInode, typed |-> FALSE,
          live |-> FALSE, todo |-> {}, ret |-> "none", reparsed |-> FALSE, frame |-> <<>>]
EmptyTables == [map |-> <<>>, frame |-> <<>>, stack |-> <<>>]
Nothing == [x \in {} |-> x]
Unread == [ok |-> FALSE, map |-> Nothing, frame |-> Nothing, stack |-> Nothing]
(* What the capture knows of the target: a snapshot of its mappings, whether *)
(* one was read and whether within a second; the build ids in typed frames,  *)
(* those whose file is not held yet, the mappings in raw frames and those    *)
(* tried within a second; the ids read from files; the ids with a path.      *)
NewCapture ==
  [maps |-> [s \in Slots |-> NoInode], tried |-> FALSE, recent |-> FALSE, ids |-> {},
   pending |-> {}, obs |-> {}, cool |-> {}, cache |-> Nothing, paths |-> {}]

(* capture_init.                                                             *)
Init ==
  /\ disk \in [Paths -> Inodes] /\ \A p \in Paths : PathOf[disk[p]] = p
  /\ vm \in [Slots -> {NoInode} \cup Inodes] /\ \E s \in Slots : vm[s] # NoInode
  /\ changes = 0 /\ ring = <<>> /\ sent = 0
  /\ sdk = [pc |-> "idle", n |-> 0, flushes |-> 0]
  /\ flag = [active |-> FALSE, need |-> {}, flush |-> 0, stop |-> FALSE, exit |-> FALSE]
  /\ mark = [flush |-> 0, stop |-> 0]
  /\ w = [pc |-> "top", phase |-> "main", fin |-> FALSE, acks |-> 0]
  /\ job = NoJob
  /\ cap = NewCapture
  /\ reg = EmptyRegistry
  /\ tab = [q \in Seqs |-> EmptyTables] /\ trace = [q \in Seqs |-> Unread]
  /\ aux = 0 /\ tail = 0

------------------------------------------------------------------------------
(* The target and its files; the BPF programs.                              *)

(* The tracing thread and the BPF programs touch nothing that the handling   *)
(* of one record reads or writes: their steps are placed between records.    *)
Between == job.st = "none"
(* Files and mappings change between two steps of the resolution of a record *)
(* or while the worker is about to take the next one.                        *)
Changes == sdk.n + changes < MaxTurns /\ w.pc = "drain" /\ w.phase = "main"
(* A module is mapped at a free place, or at that of one just closed.        *)
Dlopen(s, p) ==
  /\ Changes /\ vm[s] # disk[p] /\ disk[p] # NoInode
  /\ vm' = [vm EXCEPT ![s] = disk[p]] /\ changes' = changes + 1
  /\ UNCHANGED <<disk, kernel, sdk, flag, mark, w, job, cap, reg, output>>
Dlclose(s) ==
  /\ Changes /\ vm[s] # NoInode
  /\ vm' = [vm EXCEPT ![s] = NoInode] /\ changes' = changes + 1
  /\ UNCHANGED <<disk, kernel, sdk, flag, mark, w, job, cap, reg, output>>
(* A file is deleted or replaced by another one (inodes are not reused).     *)
Rebuild(p, i) ==
  /\ Changes /\ i # disk[p]
  /\ i # NoInode => PathOf[i] = p /\ \A s \in Slots : vm[s] # i
  /\ disk' = [disk EXCEPT ![p] = i] /\ changes' = changes + 1
  /\ UNCHANGED <<vm, kernel, sdk, flag, mark, w, job, cap, reg, output>>

(* on_tick and offcpu_emit_wake put a record into the ring.  The helper      *)
(* types a frame by build id where it can; the unwinder's chain is raw.      *)
Sample(type, s, typed) ==
  /\ sent < MaxEvents /\ vm[s] # NoInode /\ Between
  /\ typed => FileId(vm[s]) # NoId
  /\ type = "unwind" => typed
  /\ type = "off" => sent > 0
  /\ ring' = Append(ring, [NoJob EXCEPT !.type = type, !.slot = s, !.ino = vm[s],
                            !.typed = typed, !.live = flag.active /\ sdk.pc = "on"])
  /\ sent' = sent + 1
  /\ UNCHANGED <<world, sdk, flag, mark, w, job, cap, reg, output>>

------------------------------------------------------------------------------
(* The tracing thread: on_start, on_flush, on_stop; shutdown.               *)

(* A new session: a reader of its trace knows nothing yet.  on_start stores  *)
(* need_defaults, offcpu_need_defaults and active, in this order.            *)
\* Mutant: active is stored first.
ActiveFirst ==
  \/ /\ sdk.pc = "idle" /\ sdk.n + changes < MaxTurns /\ ~flag.exit /\ Between
     /\ sdk' = [sdk EXCEPT !.pc = "start", !.n = @ + 1]
     /\ flag' = [flag EXCEPT !.active = TRUE]
     /\ trace' = [q \in Seqs |-> Unread]
     /\ UNCHANGED <<tab, aux, tail>>
  \/ /\ sdk.pc = "start" /\ Between
     /\ sdk' = [sdk EXCEPT !.pc = "on"]
     /\ flag' = [flag EXCEPT !.need = Seqs]
     /\ UNCHANGED output
on_start ==
  \/ /\ sdk.pc = "idle" /\ sdk.n + changes < MaxTurns /\ ~flag.exit /\ Between
     /\ sdk' = [sdk EXCEPT !.pc = "start", !.n = @ + 1]
     /\ flag' = [flag EXCEPT !.need = Seqs]
     /\ trace' = [q \in Seqs |-> Unread]
     /\ UNCHANGED <<tab, aux, tail>>
  \/ /\ sdk.pc = "start" /\ Between
     /\ sdk' = [sdk EXCEPT !.pc = "on"]
     /\ flag' = [flag EXCEPT !.active = TRUE]
     /\ UNCHANGED output
SdkStart == on_start /\ UNCHANGED <<world, kernel, mark, w, job, cap, reg>>

on_flush ==
  /\ sdk.pc \in {"on", "stopping"} /\ sdk.flushes < MaxFlushes /\ w.pc # "done" /\ Between
  /\ sdk' = [sdk EXCEPT !.flushes = @ + 1]
  /\ flag' = [flag EXCEPT !.flush = sdk.flushes + 1]
  /\ mark' = [mark EXCEPT !.flush = sent]
  /\ UNCHANGED <<world, kernel, w, job, cap, reg, output>>
on_stop ==
  /\ sdk.pc = "on" /\ w.pc # "done" /\ Between
  /\ sdk' = [sdk EXCEPT !.pc = "stopping"]
  /\ flag' = [flag EXCEPT !.stop = TRUE]
  /\ mark' = [mark EXCEPT !.stop = sent]
  /\ UNCHANGED <<world, kernel, w, job, cap, reg, output>>

(* Capture::shutdown asks the worker to leave and joins it.                  *)
shutdown ==
  /\ sdk.n > 0 /\ ~flag.exit /\ Between
  /\ flag' = [flag EXCEPT !.exit = TRUE]
  /\ UNCHANGED <<world, kernel, sdk, mark, w, job, cap, reg, output>>

------------------------------------------------------------------------------
(* worker_entry and service_acks.                                           *)

other == <<world, sdk, mark, cap, reg>>
WorkerTop ==
  /\ w.pc = "top"
  /\ w' = [w EXCEPT !.pc = "drain", !.phase = "main", !.fin = flag.exit]
  /\ UNCHANGED <<kernel, flag, job, output, other>>

(* A drain has found the ring empty.                                         *)
Drained(phase) == w.pc = "drain" /\ w.phase = phase /\ job.st = "none" /\ ring = <<>>
AfterAcks == IF w.fin THEN "done" ELSE "top"
EndDrain ==
  /\ Drained("main")
  /\ w' = [w EXCEPT !.pc = "flush"]
  /\ UNCHANGED <<kernel, flag, job, output, other>>

(* Swap out the flush request; if there is one drain, commit, ack.           *)
\* Mutant: the request is acked before the ring is drained.
SwapFlushAndAck ==
  /\ w.pc = "flush"
  /\ w' = [w EXCEPT !.pc = "stop", !.acks = IF flag.flush # 0 THEN @ + 1 ELSE @]
  /\ flag' = [flag EXCEPT !.flush = 0]
  /\ UNCHANGED <<kernel, job, output, other>>
SwapFlush ==
  /\ w.pc = "flush"
  /\ w' = IF flag.flush = 0 THEN [w EXCEPT !.pc = "stop"]
          ELSE [w EXCEPT !.pc = "drain", !.phase = "flush"]
  /\ flag' = [flag EXCEPT !.flush = 0]
  /\ UNCHANGED <<kernel, job, output, other>>
AckFlush ==
  /\ Drained("flush")
  /\ tail' = 0
  /\ w' = [w EXCEPT !.pc = "stop", !.acks = @ + 1]
  /\ mark' = [mark EXCEPT !.flush = 0]
  /\ UNCHANGED <<world, kernel, sdk, flag, job, cap, reg, tab, trace, aux>>

SwapStop ==
  /\ w.pc = "stop"
  /\ w' = IF ~flag.stop THEN [w EXCEPT !.pc = AfterAcks]
          ELSE [w EXCEPT !.pc = "drain", !.phase = "stop"]
  /\ flag' = [flag EXCEPT !.stop = FALSE]
  /\ UNCHANGED <<kernel, job, output, other>>
AckStop ==
  /\ Drained("stop")
  /\ tail' = 0
  /\ flag' = [flag EXCEPT !.active = FALSE]
  /\ w' = [w EXCEPT !.pc = AfterAcks, !.acks = @ + 1]
  /\ sdk' = [sdk EXCEPT !.pc = "idle"]
  /\ mark' = [mark EXCEPT !.stop = 0]
  /\ UNCHANGED <<world, kernel, job, cap, reg, tab, trace, aux>>

------------------------------------------------------------------------------
(* on_event and handle: one record.                                         *)

StreamOf(type) == IF type = "off" THEN "off" ELSE "on"

(* The next record: dropped without a session; otherwise the sequence's      *)
(* defaults come first where they are due, with a fresh interner.  The       *)
(* cooldowns of scans and mappings are a second of the records' timestamps.  *)
on_event ==
  /\ w.pc = "drain" /\ job.st = "none" /\ ring # <<>>
  /\ ring' = Tail(ring)
  /\ LET q == StreamOf(Head(ring).type)
     IN IF ~flag.active
        THEN UNCHANGED <<flag, job, tab, trace, aux, tail>>
        ELSE /\ job' = [Head(ring) EXCEPT !.st = IF Head(ring).typed THEN "ids" ELSE "raw"]
             /\ IF q \notin flag.need
                THEN UNCHANGED <<flag, tab, trace, aux, tail>>
                ELSE /\ flag' = [flag EXCEPT !.need = @ \ {q}]
                     /\ tab' = [tab EXCEPT ![q] = EmptyTables]
                     /\ aux' = IF q = "off" /\ aux = 0 THEN sdk.n ELSE aux
                     /\ tail' = IF q = "off" THEN tail + 1 ELSE tail
                     /\ trace' = IF q = "off" /\ aux' # sdk.n THEN trace
                                 ELSE [trace EXCEPT ![q] = [Unread EXCEPT !.ok = TRUE]]
  /\ \E r \in {cap.recent, FALSE}, c \in {cap.cool, {}} :
       cap' = [cap EXCEPT !.recent = r, !.cool = c]
  /\ UNCHANGED <<world, sent, sdk, mark, w, reg>>

rest == <<world, kernel, sdk, flag, mark, w, output>>
Goto(st) == job' = [job EXCEPT !.st = st]

(* refresh_maps: read the layout (the target may be gone by then) and visit  *)
(* every mapping of it.                                                      *)
Scan(c, j, ret) ==
  /\ \E m \in {vm, c.maps} :
       /\ cap' = [c EXCEPT !.maps = m, !.tried = TRUE, !.recent = TRUE]
       /\ LET todo == IF m = vm THEN {s \in Slots : m[s] # NoInode} ELSE {}
          IN job' = [j EXCEPT !.ret = ret, !.todo = todo,
                              !.st = IF todo = {} THEN ret ELSE "install"]
  /\ UNCHANGED <<reg, rest>>

(* observe_build_ids: the ids of the typed frames, those of an unwound       *)
(* sample's helper stack included.                                           *)
ObserveBuildIds ==
  /\ job.st = "ids"
  /\ LET id == FileId(job.ino)
         unresolved == id \notin cap.paths \/ id \in cap.pending
         after == IF job.type = "unwind" THEN "raw" ELSE "emit"
     IN \/ id \notin cap.ids /\ Scan([cap EXCEPT !.ids = @ \cup {id}], job, after)
        \/ id \in cap.ids /\ unresolved /\ ~cap.recent /\ Scan(cap, job, after)
        \/ /\ id \in cap.ids /\ (unresolved => cap.recent)
           /\ Goto(after) /\ UNCHANGED <<cap, reg, rest>>

(* open_exact_mapping: map_files or the path, if that is the mapped inode;   *)
(* either open may fail.                                                     *)
open_exact_mapping(s, i) ==
  {NoInode} \cup (IF vm[s] = i \/ disk[PathOf[i]] = i THEN {i} ELSE {})

CachedId(k) == IF k \in DOMAIN cap.cache THEN cap.cache[k] ELSE NoId
IdOf(file) == IF file = NoInode THEN NoId ELSE FileId(file)
Register(key, id, path, exact) ==
  IF exact # NoInode THEN register_exact_file(reg, key, IdOf(exact), path, exact)
  ELSE register_exact(reg, key, id, path, disk[path])

(* install_maps, one mapping: learn its id once something was sampled; hold  *)
(* the file if it was.                                                       *)
install_maps ==
  /\ job.st = "install"
  /\ LET s == CHOOSE x \in job.todo : \A y \in job.todo : x <= y
         i == cap.maps[s]
         key == Key(s, i)
         path == PathOf[i]
         looked == key \in DOMAIN cap.cache
         wanted == cap.ids # {} \/ key \in cap.obs
     IN \E exact \in IF ~looked /\ wanted THEN open_exact_mapping(s, i) ELSE {NoInode} :
          LET id == IF looked THEN cap.cache[key] ELSE IdOf(exact)
              sampled == key \in cap.obs \/ (id # NoId /\ id \in cap.ids)
              due == sampled /\ needs_exact_retry(reg, key, id, path)
          IN \E file \in IF ~due \/ exact # NoInode THEN {exact} ELSE open_exact_mapping(s, i) :
               /\ reg' = IF due THEN Register(key, id, path, file) ELSE reg
               /\ cap' = [cap EXCEPT
                    !.cache = IF exact # NoInode THEN With(@, key, id) ELSE @,
                    !.paths = IF id # NoId THEN @ \cup {id} ELSE @,
                    !.pending = IF ~sampled \/ id = NoId THEN @
                                ELSE IF needs_exact_retry(reg', key, id, path)
                                     THEN @ \cup {id} ELSE @ \ {id}]
               /\ job' = [job EXCEPT !.todo = @ \ {s},
                                     !.st = IF job.todo = {s} THEN job.ret ELSE @]
  /\ UNCHANGED rest

(* A raw PC: ensure_maps, and reparse_maps once if no mapping covers it; a   *)
(* PC that none covers gets a residual label.                                *)
FindRaw ==
  /\ job.st = "raw"
  /\ \/ ~cap.tried /\ Scan(cap, job, "raw")
     \/ /\ cap.tried /\ cap.maps[job.slot] # NoInode
        /\ Goto("observe") /\ UNCHANGED <<cap, reg, rest>>
     \/ /\ cap.tried /\ cap.maps[job.slot] = NoInode /\ ~job.reparsed /\ ~cap.recent
        /\ Scan(cap, [job EXCEPT !.reparsed = TRUE], "raw")
     \/ /\ cap.tried /\ cap.maps[job.slot] = NoInode /\ (job.reparsed \/ cap.recent)
        /\ job' = [job EXCEPT !.st = "emit", !.frame = <<"res">>]
        /\ UNCHANGED <<cap, reg, rest>>

(* observe_mapping, and the frame for what it found: by build id, or in the  *)
(* address range of an id-less file, whose id the registry settles.          *)
observe_mapping ==
  /\ job.st = "observe"
  /\ LET s == job.slot
         i == cap.maps[s]
         key == Key(s, i)
         path == PathOf[i]
         first == key \notin cap.obs
         cached == CachedId(key)
         Frame(id, r) == IF id # NoId THEN <<"id", id>> ELSE <<"range", s, i, r.entries[key].id>>
     IN IF ~first /\ (~needs_exact_retry(reg, key, cached, path) \/ key \in cap.cool)
        THEN /\ reg' = IF cached = NoId THEN id_for(reg, key, NoId) ELSE reg
             /\ job' = [job EXCEPT !.st = "emit", !.frame = Frame(cached, reg')]
             /\ UNCHANGED cap
        ELSE \E exact \in open_exact_mapping(s, i) :
               LET id == IdOf(exact)
               IN /\ reg' = Register(key, id, path, exact)
                  /\ cap' = [cap EXCEPT !.obs = @ \cup {key}, !.cool = @ \cup {key},
                       !.cache = IF exact # NoInode THEN With(@, key, id) ELSE @,
                       !.ids = IF id # NoId THEN @ \cup {id} ELSE @,
                       !.paths = IF id # NoId THEN @ \cup {id} ELSE @]
                  /\ job' = [job EXCEPT !.st = "emit", !.frame = Frame(id, reg')]
  /\ UNCHANGED rest

------------------------------------------------------------------------------
(* Interning and the packet.                                                *)

Intern(table, key) == IF Contains(table, key) THEN table ELSE Append(table, key)
Iid(table, key) == CHOOSE n \in DOMAIN table : table[n] = key
InternAll(table, keys) == FoldLeft(Intern, table, keys)
(* The entries of `new` that `old` lacks, as a packet carries them.          *)
Learn(known, old, new) ==
  [n \in DOMAIN known \cup (DOMAIN new \ DOMAIN old) |->
     IF n \in DOMAIN new \ DOMAIN old THEN new[n] ELSE known[n]]

(* intern_callstack: mappings, frames and the stack; a blocked thread's      *)
(* stack has kernel frames too.                                              *)
Mappings ==
  LET user == IF job.typed /\ job.type # "unwind" THEN <<"id", FileId(job.ino)>> ELSE job.frame
  IN IF job.type = "off" THEN <<user, <<"kernel">>>> ELSE <<user>>
InternStack(t, keys) ==
  LET map == InternAll(t.map, keys)
      frames == [n \in DOMAIN keys |-> Iid(map, keys[n])]
      frame == InternAll(t.frame, frames)
      stack == [n \in DOMAIN keys |-> Iid(frame, frames[n])]
  IN [map |-> map, frame |-> frame, stack |-> Intern(t.stack, stack), top |-> stack]

(* emit_oncpu_sample and emit_offcpu_sample, the latter with the off-CPU     *)
(* interner in place of the other.                                           *)
InternerOf(q) == q
(* The packet of the record that is handled.                                 *)
Packet ==
  LET q == StreamOf(job.type)
  IN [seq |-> q, tables |-> InternStack(tab[InternerOf(q)], Mappings), means |-> Mappings,
      lost |-> q = "off" /\ aux # sdk.n]
Emit ==
  /\ job.st = "emit"
  /\ LET p == Packet
         q == p.seq
         n == p.tables
         t == tab[InternerOf(q)]
         known == trace[q]
     IN /\ tab' = [tab EXCEPT ![InternerOf(q)] =
                     [map |-> n.map, frame |-> n.frame, stack |-> n.stack]]
        /\ tail' = IF q = "off" THEN tail + 1 ELSE tail
        /\ trace' = IF p.lost THEN trace ELSE
             [trace EXCEPT ![q] = [ok |-> known.ok, map |-> Learn(known.map, t.map, n.map),
                                   frame |-> Learn(known.frame, t.frame, n.frame),
                                   stack |-> Learn(known.stack, t.stack, n.stack)]]
  /\ job' = NoJob
  /\ UNCHANGED <<world, kernel, sdk, flag, mark, w, cap, reg, aux>>

------------------------------------------------------------------------------
WorkerStep ==
  \/ WorkerTop \/ EndDrain \/ SwapFlush \/ AckFlush \/ SwapStop \/ AckStop
  \/ on_event \/ ObserveBuildIds \/ install_maps \/ FindRaw
  \/ observe_mapping \/ Emit
TargetStep ==
  \/ \E s \in Slots : Dlclose(s) \/ \E p \in Paths : Dlopen(s, p)
  \/ \E p \in Paths, i \in Inodes \cup {NoInode} : Rebuild(p, i)
  \/ \E s \in Slots, t \in BOOLEAN : \E ty \in {"sample", "unwind", "off"} : Sample(ty, s, t)
Next == WorkerStep \/ TargetStep \/ SdkStart \/ on_flush \/ on_stop \/ shutdown

Spec == Init /\ [][Next]_vars

------------------------------------------------------------------------------
(* Properties.                                                              *)

(* Every packet can be decoded by who reads its sequence from the start of   *)
(* the session: defaults came first, and its stack resolves, through the     *)
(* interned entries of this sequence, to the frames that were resolved.      *)
Decodes(t, p) ==
  LET iid == Iid(p.tables.stack, p.tables.top)
  IN /\ t.ok /\ iid \in DOMAIN t.stack
     /\ LET st == t.stack[iid]
        IN /\ DOMAIN st = DOMAIN p.means
           /\ \A n \in DOMAIN st :
                /\ st[n] \in DOMAIN t.frame /\ t.frame[st[n]] \in DOMAIN t.map
                /\ t.map[t.frame[st[n]]] = p.means[n]
PacketsDecode ==
  [][job.st = "emit" /\ job'.st = "none" =>
       LET p == Packet IN ~p.lost => Decodes(trace'[p.seq], p)]_vars

(* An ack covers what was in the ring when it was asked for: those records   *)
(* were handled and the off-CPU packets committed; and no record of a        *)
(* session is dropped as if there were none.                                 *)
Handled == sent - Len(ring) - (IF job.st = "none" THEN 0 ELSE 1)
AckCovered ==
  /\ w'.acks # w.acks =>
       /\ tail' = 0
       /\ Handled >= (IF w.pc = "drain" /\ w.phase = "stop" THEN mark.stop ELSE mark.flush)
  /\ ring # <<>> /\ ring' = Tail(ring) /\ Head(ring).live => job' # job
(* Every step of the capture keeps to that.                                  *)
AckCovers == [][AckCovered]_vars

(* What is known and held is the mapped file itself, whatever was rebuilt or *)
(* remapped meanwhile: an id in the cache was read from the inode of its     *)
(* key, and a held descriptor is of the inode of the id it is offered for.   *)
HeldIsExact ==
  /\ \A k \in DOMAIN cap.cache : cap.cache[k] = FileId(k.ino)
  /\ \A h \in held_fd_paths(reg) :
       IF h[1][1] = "elf" THEN FileId(h[2]) = h[1]
       ELSE \E k \in DOMAIN reg.entries : reg.entries[k].id = h[1] /\ k.ino = h[2]
  /\ Cardinality(reg.fds) <= FdCap

(* A mapping that was sampled is served or tried again: every id its frames  *)
(* are emitted under - the one the registry settled and the one read from    *)
(* the file, perhaps later - finds a held descriptor of the mapped inode, or *)
(* the policy does not want the file, or the next sample of the mapping      *)
(* opens it again.                                                           *)
SampledServed ==
  \A k \in cap.obs \cap DOMAIN reg.entries :
    \/ ~should_hold(PathOf[k.ino])
    \/ needs_exact_retry(reg, k, CachedId(k), PathOf[k.ino])
    \/ \A id \in {reg.entries[k].id, CachedId(k)} \ {NoId} :
         <<id, k.ino>> \in held_fd_paths(reg)
=============================================================================
