# Formal models of sismo

TLA+ models of sismo's capture, recording and post-processing logic, the TLC
configurations that check them and TLAPS proofs of the properties that matter
most. Paths below are relative to the repository; `crates/` paths are shortened
to file names where they are unique.

## 1. The system

`sismo record` starts an in-process perfetto service, registers data sources
with it, runs or attaches to a target process, saves the trace when it is told
to stop and then symbolizes it. `sismo snapshot` saves a copy of a running
recording; `sismo doctor` prepares a machine.

| Part | State it keeps | Operations | Talks to |
|---|---|---|---|
| Heap preload (`sismo-heap-preload`: shim.rs, ring.rs, protocol.rs) | globals `G_ENABLED`, `G_RB`, `G_SESSION_GEN`, `G_SAMPLING_INTERVAL`, `G_SEQ`; per thread a sampler and a batch of frees | malloc family, realloc, free; a listener thread that attaches and detaches | the recorder, by a control socket and a shared-memory ring |
| Heap ring (ring.rs, heap_ring.rs) | metadata page (spinlock, two cursors, counters) and a data block mapped twice | `begin_write`/`end_write` in the target, `begin_read`/`end_read` in the recorder | shared memory |
| Heap capture (macos_heap_capture.rs, heap/mod.rs, worker_sdk.rs) | control flags, two pending handles, the wakeup `Event`, the `HeapBook` | `on_setup`, `on_start`, `on_flush`, `on_stop` on SDK threads; worker loop; profile packets; `shutdown` | SDK, ring, recorder |
| Ring host (ring_host.rs, ring.rs, kdebug.rs) | one `ConsumerCtl` per data source, set-up counter, `Event`, the kdebug ring and kperf (machine-wide singletons) | the same trampolines per data source; worker loop; `shutdown` | SDK, kernel, consumers |
| Sched consumer (ring_host.rs) | a pending switch per CPU, name cache | `on_drain` | ring host |
| kperf consumers (kperf_sample.rs, kperf.rs) | pending triggers and partial stacks per thread, image table, interner | arm, disarm, `on_drain`, emit | ring host, module registry |
| Recorder (cmd_record/*, record_args.rs, sismo_paths.rs, trace_sink.rs, sismo_consumer.cc) | session lock, meta file, sockets, self-pipe, session, output file | record, stop, clone, teardown; snapshot from another process | everything above |
| Linux BPF (sched.bpf.c, sismo_unwind.bpf.h, linux_bpf_capture.rs) | counters per CPU and thread, block records and tags, interning tables, maps of the target | set-up; scheduler and system call hooks; record handler; acks; shutdown | kernel, SDK |
| Module registry (module_registry.rs) | an identity, aliases and a held descriptor per mapping | register, hold, offer to the symbolizer | captures, symbolizer |
| Unwind tables (unwind_tables.rs, proc_maps.rs) | rows, page index, prefix entries in BPF maps; a loader thread with a channel | ping, load, install; the walker's lookup | BPF capture, walker |
| Symbolizer (perf_symbolize.rs, symbolizer.rs, fallback.rs) | the modules of a trace, loaded ranges, a report | query, pick bytes, resolve, disassemble, append | trace file, binaries |
| Heap dumps (heap_dump.rs, jvm_heap_dump.rs, v8_heap_dump.rs, tar_bundle.rs) | a spooled file, a bundle under construction | detect, `jcmd`, the Node inspector, tar | target's runtime, output |
| Doctor (cmd_doctor/linux.rs) | file capabilities, tracefs ownership, the paranoid level | check, escalate, fix | kernel settings |

What is hard about it:

* the preload runs inside somebody else's `malloc` and uses no lock against its
  own listener; sessions come and go while threads are half way through a call;
* the ring has many writers in one process and a reader in another, and
  reservation and publication are separate steps;
* frees are batched per thread, so the recorder sees them late, out of order
  and after the address was reused;
* the workers are driven by callbacks on foreign threads through an event or
  atomics and single-slot mailboxes for handles which must be acked exactly
  once, whether the worker is setting up, failing, draining or going away;
* kernel event streams are cut into batches anywhere, interleave CPUs and lose
  events; two consumers must agree on whose stack an anonymous one is;
* trace packets refer to what earlier packets of the same sequence interned,
  and sessions restart while packets are being built;
* the target maps, unmaps and rebuilds its modules while they are identified,
  while their unwind tables are loaded and before they are symbolized;
* the kernel may refuse any counter, probe or map update of the set-up on its own;
* a recording must end properly however it ends (signal, timer, target exit,
  failed set-up, death), must save everything it captured, must leave a whole
  file, and must not touch another's session.

What makes each part correct: the ring delivers each published record once,
intact and in order; the book never forgets an object the program still holds
and errs otherwise only by frees that are batched or dropped; the shim keeps
sessions apart; a worker loses no wakeup, acks once and only after emitting, and
always ends; the timeline contains exactly the switches that happened; a sample
is emitted whole, by one consumer; every packet can be decoded; what is held or
named under an identity is the file that was sampled; what is armed is aimed at
the target and announced truly; files that others read are whole at every
moment; the recorder owns its singletons exclusively and gives them back.

PROJECT.json lists every component with its status and every hazard with the
line where it bites and the properties aimed at it.

## 2. Modules

| Module | Models | Built on |
|---|---|---|
| `HeapQueue` | what the heap ring promises: reserve, publish, take in order | |
| `HeapRing` | both halves of the ring, one shared access per step | refines `HeapQueue` |
| `HeapRingProofs` | proofs about `HeapRing` | `HeapRing` |
| `HeapBook` | `HeapBook` and `process_record`, as operators | |
| `HeapTracking` | one session end to end: interposed calls, batches, ring (as a bounded queue), book | `HeapBook` |
| `HeapTrackingProofs` | proofs about `HeapTracking` and the operators of `HeapBook` | `HeapTracking` |
| `HeapShim` | listener and interposed calls over several sessions | |
| `HeapShimProofs` | proofs about `HeapShim` | `HeapShim` |
| `HeapWorker` | heap capture worker, trampolines, shutdown, `Event` | |
| `HeapProfile` | the packets of one heap snapshot | |
| `RingHost` | kdebug worker, data sources, trampolines, shutdown | |
| `RingHostProofs` | proofs about `RingHost` | `RingHost` |
| `SchedTimeline` | sched consumer against the kernel's event stream | |
| `Kperf` | arming kperf, the two stack consumers and an emitter | |
| `CaptureProofs` | proofs about `HeapWorker`, `Kperf`, `SchedTimeline` and `HeapDump` | all four |
| `Recorder` | recordings and snapshots on both platforms | |
| `Doctor` | `sismo doctor` on Linux | |
| `RecorderProofs` | proofs about the commands, `Recorder` and `Doctor` | both |
| `ModuleRegistry` | identities and held descriptors, as operators on a registry | |
| `BpfCapture` | the Linux capture's worker, SDK callbacks, interning, module identification | `ModuleRegistry` |
| `BpfInit` | `capture_init`, and the counters and block tags of the BPF programs | |
| `BpfProofs` | proofs about `BpfInit` and `BpfCapture` | both |
| `UnwindTables` | the loader thread, the BPF maps it fills, both lookups | |
| `Symbolize` | the symbolization pass over a saved trace | |
| `SymbolProofs` | proofs about `UnwindTables` and `Symbolize` | both |
| `HeapDump` | JVM and V8 heap dumps and the tar bundle | |
| `MC*` | the instances TLC checks | |

The heap path is composed by promise: `HeapRing` is shown to implement
`HeapQueue`, `HeapTracking` uses a queue of that kind between the shim and the
book, and `HeapWorker` counts the records that queue hands over. The recorder
uses of a capture only what its flush, stop and shutdown bring into the buffer
(`FlushBrings`, `StopBrings`, `ShutdownBrings`), which is what `HeapWorker`,
`RingHost` and `BpfCapture` say. Components that share no state are checked in
one run by an `MC` module in whose behaviours one of them moves and the others'
variables keep one fixed value; the set of states is the union of theirs.

### HeapRing

Memory is counted in 8-byte words (`RECORD_ALIGN`). `data` maps a word to a
number: a header holds the record's length or 0, a payload word the number of
the reservation, so a stale, torn or overwritten read shows up as a wrong
number. `begin_write` is `Refuse` / `Begin`, `Lock`, `LoadCursors`, `Overflow`
or `ZeroHeader`, `Advance`, `Unlock`; then `Fill` and `EndWrite`. `begin_read`
is `Poll`, then `PeekUnpublished` or `PeekRecord`; `Process` copies the record
out and `EndRead` releases it. `Slot(p) = p % Size` is the mask, and the second
mapping of the data block is what lets a record's words run past the end.
Cursors are 64-bit and start at 0 in the code; they do not wrap in any session,
so they are naturals here. The acquire/release pairs of the code (cursor and
header) order exactly the accesses that other parties rely on, so steps are
interleaved sequentially; relaxed counters are never used to decide anything.
`attempts`, `refused`, `log` and `out` are history.

### HeapBook and HeapTracking

An object is known by the sequence number of its record (0: not sampled, or its
record was dropped). `heap` says what the allocator has at an address and who
may touch it: `coming` until the shim returns the pointer, `leaving` from the
call of free or realloc until the real function ran. This is exactly the
ordering that the comment on `sismo_free_shim` relies on. `Stamp` and `Reserve`
are separate steps, as `G_SEQ` is drawn after the slot. The age test of a batch
is a choice: it may pass at any time. The callstack is a member of `Sites`.

### HeapShim

One step per load or store of a global. A batch entry is the generation it was
queued under. `crashed` is set when a thread dereferences a ring that is no
longer mapped; the process is then gone and nothing else happens. Accepting and
mapping may fail at any time. `G_SEQ` and the two counters are reset with the
interval; their values matter only inside a session, which is HeapTracking's
subject. A thread's `IN_CAPTURE` guard makes its own calls sequential.

### HeapWorker and RingHost

`wpc` is the statement the worker is at. A trampoline or `shutdown` is two
steps, the store and the `set`, because the worker can run in between. The SDK
calls trampolines one at a time and in the order setup, start, flushes, stop
(perfetto_ds.cc). A drain counts records (HeapWorker) or events (RingHost) and
remembers in `ret` where to continue. Every heavy set-up step of the heap
worker that can fail ends in `park_until_exit` (`HeavyFails`). In RingHost the
open, the arming and every read may fail; the kernel's ring holds
`kernel_buffer_events` and overwrites its oldest event when full. `mark` and
`read_failed` are history.

### HeapProfile

One `build_trace_data` per site, as the loop of the code interns names, frames
and the stack in turn; the reference is a reader that goes from the packet's
callstack through frame, mapping and string back to address, name and path.

### SchedTimeline

The kernel is external: it logs a switch, later the dispatch of the outgoing
thread on that CPU, kperf events that share a code with a switch, and may
overwrite what was not read. An event's timestamp is its place in `trace`. A
process tree delta is `announced`; the order of the thread map is any order.
MAX_CPUS (256) and THREAD_MAP_CAPACITY (16 K) are not reached by any instance
and are left out; an event of a CPU beyond the limit is skipped by the code.

### Kperf

`arm` sets one knob per step and any of them may fail, which disarms. A sample
of the kernel is a group of events of one thread: trigger, thread info, header,
data events of `PcsPerEvent` frames; `Lose` overwrites the oldest unread one.
`drain_event` gives one event to both consumers (`decode`) and a completed stack
to `emit`. Frames are known by image and place, so a frame of the wrong sample
shows. `cur` and `prev` are history: what was sampled and whether it arrived
whole. One emitter is followed, as emitters share nothing.

### Recorder

A recorder is a record: its statement (`pc`), its command line, and what it owns
(lock, service, session, pipe, captures). The two platforms differ in their teardown order, in what they
wait for and in which captures exist; `platform` is chosen in `Init`. The
arguments are resolved as `RecordArgs::resolve` does, refused combinations
included. `pipe` is the self-pipe that the signal handler, the duration timer and
the exit watcher write and `wait_for_workload_exit` reads. A clone is asked for,
served by the service after a flush of the data sources, delivered in `Chunks`,
and may time out, after which its callbacks still arrive (`LateCallback`). A
recorder may die at any statement: the lock goes, its files stay. `pend` is the
data a capture still holds per stream; it reaches the buffer only by flush, stop
or shutdown as that capture handles them. `out` says what an output file is: a
trace, one that ends in part of a packet because an append failed half-way
(`torn`), one with more behind that part (`buried`), a tar, or no trace at all.
Removing stale sockets and the meta file may fail, which the code ignores.

### Doctor

The machine (capabilities of the binary, the two tracefs mounts, who may look
into the first, the paranoid level), a run of `doctor` as root, through sudo or as
a user, with and without `--fix`; each repair may fail, `chown -R` after the file
and before the directory; between and during runs the binary may be rebuilt and
the machine rebooted, which closes tracefs to all but root again. The second mount
lies under debugfs, which no user but root can look into.

### ModuleRegistry and BpfCapture

Files are inodes with or without a build id; a path names one inode at a time.
Build ids have the kernel's 20 bytes: the branches for shorter and longer ones
(linux_bpf_capture.rs:1159, 1319, 1463), whose files are held but whose frames stay
in address ranges, are left out. The target maps and unmaps (`Dlopen`, `Dlclose`)
and files are rebuilt at any time, so the maps the worker has read may be old. A record's handling is cut
where the code reads files: scan the maps, read build ids, open, register,
intern, emit. `tab` holds an interner per packet sequence, `trace` what a reader
of that sequence knows; packets carry indexes. The SDK thread starts, flushes,
stops and shuts down at any point of the worker. `mark` is history: what had
been sent when a flush or stop was asked for.

### BpfInit

Every call of `capture_init` that is best effort or has an error path is in
`Refusable`; an instance chooses the sets that are refused. Counters are chosen
by host and focus as the code does from its tables. After set-up, one thread of
the target enters and leaves system calls, blocks and wakes, also while probes
are still being attached, and ticks read its counters on any CPU; `hw` is what
the hardware counts, `owed` what a tick should credit. An unwritten word of the
BPF stack holds any value of `Junk`. The x86-64 build is modelled.

### UnwindTables

Addresses have `Bits` bits and pages `PageBits`. The loader takes a ping, merges
the pings waiting, reads the maps at one moment, and then, while the target goes
on mapping, unmapping and replacing files, loads module after module in the
code's order: rows, page index, prefix entries. A maps file is a set of lines;
where its order matters (`find_range`) the lines are taken in `Ascending` order. The
walker may look up any address after any step, so lookups are state functions: `Walk` is the prefix search, the page search and the binary
search of the code, `WalkExact` compares it with the row that covers the address
in the image mapped there. `owners` and `swapped` are history.

### Symbolize

The trace query answers rows of (module, build id, address), each handed to
`on_row`, and may fail at any of them. One module after
the other is picked, its bytes chosen, its addresses translated, loaded with
fallbacks, resolved and disassembled, while files may be edited between the
steps. A binary is what it can name at which address, relative to its image base,
from which table; `base` is that base (0 if the binary is position-independent) and
`shift` leads from file offsets to link addresses. Under an id the build-id
directories hold the binary of that id, nothing, or one of `Strays`: the code only
asks whether the path exists. `common` are functions that bear one name. That the
symbol library's addresses are relative to the image base is elf.rs:110-112 and
dynsym.rs:62-66, where symbolizer.rs:272-273 says otherwise. `saved` is the trace as
its appended packets; an append may stop half way.

### HeapDump

Files are sequences of cells, so a stale, partial or misplaced one shows. The
inspector sends a snapshot in chunks, each cut into two frames, with pings and
other notifications in between, and may close or send what cannot be decoded; the
JVM writes its file under the name it was given, resolved in its own directory.
The archive is written block by block; every step may fail and the target or the
recorder may die. Where the code discards the error of a removal (`Unlink`), the
file may stay.

## 3. What is checked

Each run finishes within about three minutes on two workers of its own. Deadlock
checking is off because every system here may stop: bounded writers run out, a
worker ends after shutdown, a recorder exits.

| Run | Instance | States | Shows |
|---|---|---|---|
| `heap_ring` | 2 writers, 8 words, payloads 5, 9 and 80 bytes, 4 writes | 110 k | `RingInv`, `ReadsIntact`, `LossAccounted`, `PublishedDelivered`, refinement of `HeapQueue` (`QueueSpec`) |
| `heap_data` | 2 threads, 2 addresses, 2 sites, batch of 2, ring of 2, 3 objects; dumps of 2 chunks, archives of up to 3 cells; 2 images, 3 addresses, 2 sites | 1.9 M | `BookFaithful`: frees take their own allocation, book exact when quiescent, overcount bounded, totals balance; `DumpWhole`, `BundleWhole`; `ProfileDecodes` |
| `heap_shim` | 3 sessions, 1 thread with 4 calls, batch of 2 | 237 k | `SessionsApart`: samplers, batch bound, no leak; `ListenerRecovers` |
| `heap_worker` | drain limit 0, 2 records, 2 flushes | 64 k | `WorkerSafe`: wakeups, acks, release; `StopAckedLast`; `WorkerAnswers`: stop, flush and exit answered, records booked |
| `ring_host` | 2 data sources, a kernel ring and a drain of 1 event, 1 event, 1 flush | 127 k | `HostSafe`, `HostServes`: the same for several data sources sharing one worker; kernel singletons |
| `kdebug` | 2 CPUs, 3 threads, 2 processes, 4 events, batches of 2; 2 sampled threads, 2 samples, stacks of 0 and 4 frames, 1 lost event, 2 images | 563 k | `TimelineExact`, `SeenAnnounced`; `SamplingFiltered`, `WholeExact`, `DemuxClean`, `DropsBounded` |
| `commands` | 2 recorders, 1 snapshot, both platforms, 4 command lines, 1 signal, 1 death; 2 users, 2 doctor runs | 3.5 M | `OthersUntouched`, `DumpBeforeTerm`, `SavedComplete`, `OutputWhole`; `FixHolds` |
| `recorder_ends` | 1 recorder, 1 snapshot, 2 signals, 1 death | 428 k | `RecordingEnds` |
| `bpf_capture` | 1 slot, 2 builds of a file, the one on disk mapped at the start, 1 descriptor, 2 records, 1 flush, 2 changes; 2 CPUs, 6 set-ups, every single refusal, 2 calls or ticks | 1.4 M | `PacketsDecode`, `AckCovers`, `HeldIsExact`, `SampledServed`; `ArmedTrue`, `CountsOwn`, `BlockNamed` |
| `symbols` | 5 images in 16 addresses, generated code mapped from the start, 5 rows, 2 moves; 3 binaries, one based at 2, which may lie under another's id; 5 queries, 1 edit | 1.9 M | `LookupsExact`, `TablesArrive`; `NamesExact`, `NamesServed`, `TraceWhole` |
| `recorder_freed` | as `recorder_ends`, 1 signal | | violation, see below |
| `counter_gap` | the set-ups of `bpf_capture` | | violation, see below |

A property whose name stands for several is a conjunction of named parts that
each say one of them (`BookFaithful`, `SessionsApart`, `WorkerSafe`, `HostSafe`,
`ArmedTrue`, `NamesExact`, `TraceWhole`, `LookupsExact` and the three liveness
conjunctions).

Why the bounds are enough:

* eight words and records of two and three words make the ring wrap, fill
  exactly, and leave a gap that one record fits and the other does not; the
  payload of 80 bytes never fits; four writes go once around;
* two addresses, three objects and batches of two give reuse of an address with
  its free still batched in another thread, reallocation in place and elsewhere,
  and overflow of allocation records and of batches;
* three sessions let a batch or a sampler survive a whole session in between;
  the globals are read by each thread separately, so a second thread adds no
  interaction;
* a drain limit of 0 (one record per round, as the code takes one more than its
  limit) makes two records exceed it; two flushes let the second overwrite the
  first's handle;
* two data sources stop one by one around a shared final drain; a third would be
  another instance of the same loop;
* four events hold two switches interleaved on two CPUs, a half pair across a
  batch boundary, or a kperf event inside a pair; two samples of two threads
  interleave or follow each other, and one lost event damages any part of one;
  four frames exceed both a data event and the frame cap of 3;
* two recorders compete for the lock, one takes over from a dead one, and a
  snapshot overlaps either; the command lines cover spawned and attached
  targets, rolling and long traces, external sources and the deep dump; one
  chunk is enough for a clone to be cut before and after it;
* two builds of one path, one with a build id and one without, under a cap of one
  descriptor make every identity path happen; two records use both sequences, a
  restart falls between them;
* every single refusal of the kernel is tried, and two pairs that make the
  sampler fall back on two CPUs;
* images of up to six addresses in pages of four span pages, a table of five rows
  overflows, a moved image lands on another's addresses;
* two users, one with and one without the mount, see tracefs open, closed, chowned
  and closed again by a reboot between two runs of `doctor`;
* the queries hold one module by offset and by address, two modules, a binary with
  a base by offset and by address, a synthetic identity and the kernel, and addresses
  on both sides of the greatest the symbol library takes (2); the binary with a base
  may lie under the other's id; dumps of 0 to 3 cells against blocks of two need no padding, padding,
  and exceed what a header can describe (2).

`FinalDrainFed` (in `HostSafe`) relies on one drain reading the whole kernel
buffer: both default to 256 K events (ring_host.rs:45 and 49), and a larger
configured buffer would break it. That is a hypothesis of the theorem
`HostSafeHolds`, never an assumption of the module: `StopsHeld` does without it.

### Fairness

Only what scheduling gives: the reader of the ring keeps polling (the worker's
wait is bounded by 1 ms while running); a thread inside a trampoline or
`shutdown` finishes; the worker takes its steps; the shim's listener runs and
sees the end of file; the recorder and its exit watcher run (a call to the service
returns, if only by its time-out), and a workload that was sent SIGTERM ends. Nobody
owes a write, a publication, a start, a flush, a stop, a signal or an exit: a
target thread may stop forever between reservation and publication, and
`PublishedDelivered` asks for delivery only when everything before is published.
`RecordingEnds` asks for the end only once the recorder was told to stop.

### Disagreements that a run shows

* `recorder_freed` – on Linux a rolling recording frees its capture before the
  clone and the stop, whose callbacks then use freed memory and are never acked.
* `counter_gap` – a refused counter that is not the last leaves the last announced
  counter unread.

The properties of the passing runs are stated so that these hide nothing else.
`SavedComplete` and `CountsOwn` exempt exactly the off-CPU tail of a capture that was
shut down, and the slots the BPF side does not read; `DumpWhole` a dump whose
destination could not be cleared; `OutputWhole` says of a file with a torn packet only
that the trace before it is whole; `FixHolds` exempts a mount that was closed to
`doctor`; `NamesExact` and `NamesServed` speak of modules that are `Covered` (a real
build id, nothing else under it in the build-id directories, base 0 if sampled by
offset); `Readable` of listings whose name is not shared.

### Disagreements with a configuration to run by hand

These properties are in the modules and TLC finds them violated with the
configurations named (where one is said to be "in" the configuration of a run, it
is put there in place of that run's properties); the passing runs exempt exactly these cases.

* `ReallocNetsOut` (`MCHeapRealloc.cfg`, module `MCHeapTracking`):
  `sismo_realloc_shim` queues the free of the old pointer (shim.rs:405-407) before
  the real realloc; when that fails the object is still held but leaves the book.
  shim.rs:395-398 says a site "still nets out correctly".
* `TargetSurvives` (`MCHeapUnmap.cfg`, `MCHeapShim`): detach unmaps the ring
  (shim.rs:175-180) under a thread that loaded `G_RB` before and is still writing;
  ring.rs:54-56 calls it "a stable mmap".
* `FreesOfOwnSession` (`MCHeapStale.cfg`, `MCHeapShim`): `queue_free` loads the
  generation (295) before `flush_frees` loads the ring (323), so a batch can reach
  the next session's ring; shim.rs:299-300 says such entries are dropped.
* `StopAnswered` (`MCRingPartial.cfg`, `MCRingHost`): `wait_for_setups` waits for
  every registered data source (ring_host.rs:439); a session that enables fewer
  never gets its stop acked, against 420-421 "Defer the ack to the worker".
* `SeenAnnounced` in `MCKdebug.cfg` with `MAX_NEW_THREADS = 1`:
  `refresh_and_emit_tree` caches an entry there was no room to stage
  (ring_host.rs:150-159), so it is never announced.
* `DumpFresh` in `MCHeapData.cfg`: a JVM dump's destination is cleared with the error
  discarded (jvm_heap_dump.rs:143), so the file of an earlier run can be taken for
  the dump and bundled, against 139-140 "any existing file is removed first".
* `NothingBuried` in `MCRecorderFreed.cfg`: a marker whose `write_all` stops inside a packet
  (privileged_marker.rs:121) is only reported; the trace counts as saved and the
  symbols go behind the torn packet, against 117-118 "just concatenated
  length-delimited TracePackets".
* `TracefsAnswered` in `MCCommands.cfg`: tracefs is closed to users by default, and
  cmd_doctor/linux.rs:128 takes what it cannot look at for not mounted: `doctor` tells
  an unprivileged user that tracefs is writable, against 118-123.
* `FixedNames` (`MCSymbolsFixed.cfg`, `MCSymbols`): offsets in a binary linked at a fixed address are
  looked up as absolute addresses (perf_symbolize.rs:633, symbolizer.rs:272-273), where
  the tables have addresses relative to the image base (gopclntab.rs:30-31,
  dynsym.rs:64-66, elf.rs:110-112): no name, or another function's. Which side is wrong
  is for the code to settle; both cannot be right.
* `CachedNames` in `MCSymbols.cfg`: what lies under an id in the build-id
  directories is used because it exists (perf_symbolize.rs:487-506, 597), against
  docs/linux-unwinding-symbolization-lifecycle.html:564 "A path is trusted only after
  identity verification".
* `ListingsApart` (`MCSymbolsTwins.cfg`, `MCSymbols`): a listing goes by its function's name alone
  (perf_symbolize.rs:1325); of two with one name the reader joins the chunks of both
  (annotation.ts:469-505) and shows neither.

### Disagreements without a run

Found while translating; the models follow the code.

Heap path:

* macos_heap_capture.rs:121 "Allocations arrive in seq order": two threads'
  reservations and sequence numbers can be in opposite orders. What
  `apply_free` needs, per-address order, still holds (`ListsAscending`).
* macos_heap_capture.rs:53: the settle pause "covers any in-flight malloc", but
  it waits on the wakeup event and ends at once if that is already signalled;
  modelled as a pause that may be empty.
* macos_heap_capture.rs:362 "the complete accumulated snapshot": the final drain
  gives up after its limit. The limit is documented as 4096 (line 406); the loop
  takes 4097 (line 414).
* heap/mod.rs: an address below every image gets mapping 1 with the address itself
  as offset, so a reader computes another address; `ProfileDecodes` exempts it.

macOS sched and kperf:

* ring_host.rs:405 "nothing per-DS is buffered": a flush is acked inline while up
  to 100 ms of events are still in the kernel's ring.
* ring_host.rs:487: after a failed open the worker returns, and a later stop is
  never acked; `StopAckedWhileServed` states what does hold.
* kperf_sample.rs:15 "they demux cleanly": after a sample with an empty user stack
  or a lost tail its trigger stays pending, and the next stack of the other kind is
  claimed by both; `DemuxClean` says that one whole sample puts this right. The
  parked kernel stack of a damaged sample can be attached to a later one.

Recorder:

* macos.rs:194-197 "traced does not unlink them before bind" against
  sismo_traced.cc:54-55, which does.
* mod.rs:154 sends SIGTERM to a pid the watcher may have reaped already (120).
* A flush of the ring host brings nothing into a clone, so a rolling trace on
  macOS may miss up to the last 100 ms of kdebug events (`CloneMisses`).

Linux capture:

* sched.bpf.c:593-595 "clearing on exit bounds staleness": probes are attached one
  by one and best effort, entry before exit, so a call entered in between, or an
  exit probe that is refused, leaves a tag that names later blocks. `BlockNamed`
  exempts it.
* `capture_init`: every error path after `sismo_ds_register` frees the Capture while
  the data source stays registered with its pointer; the path of a failed cfg[0]
  leaks the object and the descriptors; a failed ring drops the unwind loader
  without joining it.
* sched.bpf.c:270-331 marks a name as sent before it reserves room for it: a dropped
  name record is never sent again.
* perfetto_ds.cc:118-119 "recreated if the instance changes (a session restart)":
  instance indexes are reused, so the stale writer is kept.
* A flush token overwrites one that is still pending, which is then never acked.
* The walker's fallback to the previous row, before a module's first row, takes a
  row of the module loaded before; prefix entries and `loaded` are never removed,
  so an address can meet the rows of a module that was there earlier; tables are
  read by path; unwind_tables.rs:18-19 and 230-231 still describe loading without
  a separate thread; MAX_BINARY_SEARCH_DEPTH is one short for a page with a row at
  every byte (`UnwindAssumption`). `WalkExact` says what holds in spite of these.

Symbolizer, dumps, doctor:

* A module without build id matches whatever file is at its path, even if the exact
  inode is held; a cached .debug file that does not load hides the executable's
  symbols (`NamesServed` exempts it); symbolizer.rs:286-291 and 319-323 say that
  placeholders fall back to .dynsym, which happens only when there are no symbols at
  all; the recorded path is checked and read in two steps.
* v8_heap_dump.rs: an error response counts as success, an undecodable chunk is
  skipped (`DumpWhole` exempts both); jvm_heap_dump.rs:139 asks for an "absolute
  path" and gets a relative one by default; mod.rs:255-257 "consumed either way" is
  not so when the rename fails.
* cmd_doctor/linux.rs:291 "re-verify": only capabilities are read again; a chown does
  not help where the owner may not write, or under a mount only root can reach
  (`FixHolds` exempts both).

## 4. What is proved

For all values of the constants: any set of writers, any positive ring size, any
set of positive payload sizes, any bounds; any drain limit, any number of
records and flushes; any recorders, snapshots, data sources, users, threads,
sessions, CPUs, modules and refused calls. Each proof module starts with its
inductive invariant, has a lemma per action (or per part of the invariant where
an action touches few parts) and ends with the theorems.

| Component | Inductive invariant | Properties of section 3 that follow |
|---|---|---|
| `HeapRing` | `RingInv` | `RingInv`, `ReadsIntact`, `LossAccounted`; the safety part of the refinement |
| `HeapTracking` | `BookInv` | `BookFaithful` |
| `HeapWorker` | `WorkerInv` | `WorkerSafe`, `StopAckedLast` |
| `HeapShim` | `ShimInv` | `SessionsApart` |
| `RingHost` | `StopsInv`, and `FeedInv` on top of it | `HostSafe` |
| `Kperf` | `KnobInv`, and `DropInv` on top of it | `SamplingFiltered`, `DropsBounded` |
| `SchedTimeline` | `SchedInv`; `TreeInv`, within the caps of a delta | `TimelineExact`; `SeenAnnounced` |
| `HeapDump` | `DumpInv` | `DumpWhole`, `BundleWhole` |
| `Recorder` | `RecorderInv` | `SavedComplete`, `OutputWhole`, `OthersUntouched`, `DumpBeforeTerm` |
| `Doctor` | `DoctorInv` | `FixHolds` |
| `BpfInit` | `ArmInv` | `ArmedTrue`, `CountsOwn`, `BlockNamed` |
| `BpfCapture` | `CapInv`, and `AckInv` on top of it | `HeldIsExact`, `SampledServed`, `AckCovers` |
| `UnwindTables` | `LoadInv` | `TablesArrive` |
| `Symbolize` | `PassInv` | `NamesExact`, `NamesServed` |

**HeapRing.** `RingInvariant` proves `RingInv`, the conjunction of

* `LogTiles`, `CursorOnRecord`: reservations tile the address space, `write_pos`
  is the end of the last and `read_pos` the start of the first unread;
* `LockExcludes`: at most one writer is between `Lock` and `Unlock`;
* `WriterLocals`, `OwnersDistinct`: what a writer remembers is still true (its
  `read_pos` may be old, which only makes it see less room), and two writers
  never own the same reservation;
* `HeadersTell`: the header of an unread record is 0 or its length, according to
  whether it was published, and a published record's payload is its own;
* `ReaderLocals`, `ReadsIntact`: the reader is at a published record, and what it
  has taken is right.

`ReadsIntact` alone is not inductive: that the reader copies its own bytes needs
`HeadersTell`, which a writer's store preserves only because unread records lie
in distinct words (`UnreadDisjoint`: offsets less than `Size` apart differ
modulo `Size`), which needs the tiling and the capacity bound, which in turn
need the lock. There is one lemma per action. `RingReadsIntact`,
`RingWritesOwnSlot`, `RingCapacity` and `RingTypes` follow, and
`RingImplementsQueue` shows that `Advance` is `Reserve`, `EndWrite` is `Publish`,
`Process` is `Take` and every other step stutters.

**HeapTracking.** `BookFaithful` compares the book with the heap at every moment, for
any number of threads, addresses, sites and sizes and any batch and ring capacity.
It is not inductive: frees arrive late, in batches and out of order, and it says
nothing of those still under way. `BookInv` adds

* `Serving`, `Slots`: a call has its address for itself between the shim's entry
  and the allocator's answer, and its reserved record, of which it has one;
* `Numbers`, `Order`: numbers are below `G_SEQ` and name one object; the lists of
  the book ascend, and of one address every allocation on the ring is younger than
  those in the book and in the ring before it, and than every free before it;
* `FreesOlder`: a kept object (numbered, and no free of it queued) is younger than
  every free under way for its address, so no late free can take it;
* `KeptRecorded`: it is in the book or on the ring;
* `Accounted`: the objects recorded but not kept can be matched one to one with
  later frees of their addresses that are under way, all but `lost_frees` of them.

The matching is what the overcount needs. `apply_free` takes the youngest object
older than the free (`FreeTakes`, from `PartitionIs` about the binary search), which
need not be the object the free is matched with; then the two frees are exchanged
(`MatchedTakes`): the object left behind is older than the one taken, hence older
than the other's free too. Queueing a free adds an object and its free
(`MatchedPlus`), a refused batch removes at most as many pairs as it has entries
(`MatchedLess`), and with no free under way the matching is empty, which gives
`BookExact`. A batch is applied entry by entry with what is left of it still counted
as under way (`BatchApplied`); the first entry where that failed would be the least
member of a set of numbers. The sums of `SiteTotalsBalance` are taken through the
equation the sum over subsets satisfies, shown for smallest sets first (`SumsExist`,
`SumsAre`, `SizeAdd`). TLC checked `BookInv` on an instance (1.4 M states) before it
was proved.

**HeapWorker.** `WorkerInv` adds to the type invariant: `Heard` (whatever was
stored since the worker's last look has set the event or is about to, for each
kind of request and each place in the loop), `HandlesOnce` (a handle is pending,
held by the worker, or acked, never two of them), `OpenInLoop`, `DrainBounded`
and `StopReady` (between the final emit and the ack the snapshot is complete and
the connection closed). From it follow `NoLostWakeup`, `AckedOnce` and
`ReleasedAtExit`, together `WorkerSafe` (`WorkerSafety`), and the action property
`StopAckedLast`.

**HeapShim.** A thread loads `G_ENABLED`, the generation and the ring one after
the other, so what it holds may be of any earlier session. `ShimInv` says in what
way it may: generations are never ahead of the listener's, and one that is current
goes with the current interval except between the listener's two stores
(`Generations`); a generation is a connection taken from the socket
(`ConnectionsCounted`, which bounds it by the sessions); the listener's step says
which descriptors and mapping it holds and what is installed (`Holdings`); only a
batch on its way to the ring may be full (`Roomy`).

**RingHost.** `StopsInv` is the host's form of `Heard`: what the worker has passed
in this turn without seeing it has set the event or is about to (`ExitHeard`, and
`StopsHeard` per data source and place in the loop over them); a stop is asked for
once and is pending, collected or acked (`StopOnce`); the set-ups received are
counted as a set (`SetupsCounted`), which is what the set-up wait compares.
`FeedInv` follows one final drain from the read through the consumers, in their
fixed order, to the ack (`DrainCovers`). It needs that one drain reads all the
ring holds: `HostSafeHolds` has `kernel_buffer_events <= DRAIN_CAPACITY` as its
hypothesis, true of the defaults.

**Kperf.** What is set while `arm` runs is exactly a prefix of its steps, and
sampling is the last (`ArmedSoFar`); the steps up to the last are `AllKnobs`, in
which each trigger has its action and filter. Samples and misses are counted from
the last enumeration of images (`DropInv`).

**SchedTimeline.** `TimelineExact` speaks of what was emitted only. `SchedInv` adds
what is buffered: a CPU's slot holds a switch exactly when that is the CPU's last
scheduler event since the start and no self-switch (`Paired`). That the next such
event is then the dispatch of the same thread is the kernel's part (`Alternates`,
which needs `HalfIs`: a CPU under way owes that dispatch). One event more keeps
`Paired` (`EventApplied`), hence so does a batch of any length (`BatchTaken`, by the
first event where it would fail), and events that come later do not touch it
(`PairedSame`). TLC met no violation of `SchedInv` and `TreeInv` in the 3 M states
it looked through on an instance. `TreeInv` says that what was cached was announced. It holds
only while a delta has room, and `ThreadsAnnounced` has that as its hypothesis: at
most `MAX_NEW_THREADS` threads and `MAX_NEW_PROCESSES` processes exist. Without it
the property is false (section 3, Disagreements).

**HeapDump.** Both properties speak of the end: a dump at its path, a bundle in place.
`DumpInv` says which runtime each step is taken for (`Runtimes`), what is at the
spooled path (`Spooled`) and how far each exchange has come. `Streamed`: the joined
chunks, the fragments of the message under way and the frame on the wire are together
what the inspector has sent, unless a message was an error or undecodable (`lossy`);
so when the reply arrives the joined chunks are the snapshot. `Bundled`: the bundle
holds exactly the members written. That a reader gets both members back
(`BundleReads`) needs that padding rounds a member up to blocks (`PadIs`) and that
headers lie at the starts of the two members alone; the reader's recursive function
then has one solution, given explicitly, and `Snapshot` equals its closed form by the
least index where they would differ (`SnapshotIs`). Chunk count, lengths and block size are
any, and every removal of a file may fail. TLC checked `DumpInv` on an instance (0.3 M states) before it was proved.

**Recorder.** The core is the lock: `HoldsLock` ties it to the steps between
`Launch` and `Release` and the service to the steps within, so no second recorder
is ever at a step that unlinks or binds. `Outstanding` says, per platform, what may
still be outside the buffer at each step - nothing once the stop was acked,
off-CPU samples alone once a Linux capture was shut down before the clone - and
with `CloneAwaited` and `Saved` it carries what is missing from the moment the stop
is decided to the moment the trace is reported as saved. `Awaited` and
`SnapAwaited` say that a clone under way has a client that waits for it, so a late
callback finds no file to spoil. `HookFirst` gives `DumpBeforeTerm`.

**Doctor.** A check that found nothing to fix is still right later in the same run
(`ChecksStand`), for the user behind sudo (`ForInvoker`), and a repair that did not
fail holds (`RepairsStand`). What the check of tracefs found is claimed of a mount the
user can look into, or that was flagged and chowned.

**BpfInit.** `Stages` and `SamplersTold` give what is acquired, linked and reported
at each step and undone on each path; `ReportedTrue` is then that the precision is
the minimum over the samplers that opened. `CountsOwn` needs `Levels` (after every
tick, what a slot has counted is what was last read), so that the next reading adds
the load of one interval and the scaling stays within a factor of eight.
`TagsOfCall` and `BlockOpen` give `BlockNamed`.

**BpfCapture.** `EntryExact` says of each entry of the registry what the target,
which maps, unmaps and rebuilds meanwhile, cannot make false: the id is the mapped
file's or a minted one, aliases are the file's, a descriptor is of the mapped inode
and open, and a pinned entry has one if the policy wants the file. `Placed` and
`Known` say that records, jobs and cached ids name places that exist. Facts about
the operators of `ModuleRegistry` come first, each a lemma. `AckInv` adds that a
record put into the ring during a session finds it still on, and that what a flush
or stop covers was sent by then; `AckCovers` follows because the worker acks only
with an empty ring and no record in hand.

**UnwindTables.** What makes `TablesArrive` inductive is `LoadCovers`: while no ping
is queued, a load under way has tried what was due, or has a module at its base in
hand, or the file at its path was replaced. A ping may make more due, but is then
itself queued. When the maps are read, `BaseFound` says that a mapped image is found
at its own base: its lines are the only ones with its path, because a path that was
never replaced has one image (`TargetOK`), and the least of them starts at the base.

**Symbolize.** `PassInv` follows the module in hand from step to step: the bytes
chosen are the sampled binary's, or there are none (`BytesTrue`); what will be looked
up are the link addresses of what was sampled, from a base (`PcsTrue`); the single
registered range answers for the sampled binary only (`Own`), and with all it has if
its bytes are at hand (`Full`, `RangeTrue`); symbols and listings are of modules that
were in hand, each once (`PendingOf`, `ListingsOf`). Everything but the shape is
claimed while `Exact` holds: the module is `Covered` (a real build id under which the
build-id directories hold nothing else, base 0 if it was sampled by offset), and the
file in hand was not edited since it was picked. `ResolveOwn` and `ResolveFull`, facts about `resolve`, turn the range
into `NamesExact` and `NamesServed`.

The assumptions are those of the modules' ASSUME statements, which TLC evaluates
in every run: kinds and ranges of constants; in `BpfInit` that the kernel runs
a counter no longer than it is enabled, counts nothing while it does not run, and
that a set-up's sampling density is not 0; in `Symbolize` that two real binaries
never share a build id, that a row of the query carries the id of the binary it was
sampled in, and that kernel addresses are virtual.

**Only model-checked:**

* all liveness and the fairness part of the refinement (`PublishedDelivered`,
  `QueueSpec`'s fairness, `ListenerRecovers`, `WorkerAnswers`, `HostServes`,
  `RecordingEnds`): outside TLAPS's reach here;
* what is computed by a fold or a recursive function over data, where a proof
  would be an induction over the data: `ProfileDecodes` and
  `PacketsDecode` (packets decoded from the first on),
  `WholeExact` and `DemuxClean` (a stack reassembled from its events);
* `LookupsExact` and `TraceWhole`: no proof yet.

## 5. Not modelled

* The Poisson sampler's floating-point arithmetic: the sampling decision is a
  choice.
* Decoding of binary formats (ELF, Mach-O, DWARF, gopclntab, `.eh_frame`) and
  protobuf encoding: byte-level transformations without state. What the packets
  mean to a reader is modelled where they are emitted.
* The register arithmetic of the BPF walker, the Python walker, JIT and Python
  frame names: reads of foreign structures at fixed offsets.
* The macOS unwinder (a wrapper of an external library), the JVMTI agent, the
  external data source process's own loop, `prepare`, the macOS doctor (reports
  only), argument syntax.
* The wait of a spawned target for its recorder and `connect_and_attach`'s
  retries: a connection is made or is not.
* The slot table of perfetto_ds.cc: the order of its callbacks is part of the
  modules that are called.

What is worth proving next, in this order: `ReportTrue` and the first part of
`Readable`, the parts of `TraceWhole` that need no sum over chunks; the part of
`LookupsExact` about a half-written table. Where a proof meets a recursive function, the least number or the smallest set for which a
statement fails takes the place of an induction, as in `HeapTrackingProofs`.
