------------------------------ MODULE HeapRing ------------------------------
(***************************************************************************)
(* The shared-memory ring between the malloc interposer inside the target  *)
(* (sismo-heap-preload/src/ring.rs, the producers) and the recorder        *)
(* (sismo-core/src/heap/heap_ring.rs, the consumer).                       *)
(*                                                                         *)
(* Memory is counted in words of RECORD_ALIGN bytes.  A word holds a       *)
(* number: a record's first word is its size header (0 while the record is *)
(* reserved but unpublished), its other words hold the record's identity,  *)
(* so a reader that picked up a stale, torn or overwritten record would    *)
(* copy a wrong number.  Each access to shared memory that another party   *)
(* may race with is a step of its own.                                     *)
(***************************************************************************)
EXTENDS Naturals, Sequences

CONSTANTS
    Writers,        \* allocating threads of the target
    PayloadSizes,   \* payload lengths in bytes handed to begin_write
    Size,           \* data bytes of the ring divided by RECORD_ALIGN
    MaxWrites       \* bound on the calls of begin_write in a behaviour

ASSUME SizeAssumption == Size \in Nat \ {0}
ASSUME PayloadAssumption == PayloadSizes \subseteq Nat \ {0}
ASSUME MaxWritesAssumption == MaxWrites \in Nat

VARIABLES
    \* the metadata page and the data block, shared by both processes
    spinlock, write_pos, read_pos, data,
    num_writes_succeeded, num_writes_overflow, num_reads_succeeded,
    \* each writer's program counter and locals of begin_write
    pc, len, wr, rd, idx,
    \* the reader's program counter and locals of begin_read
    rpc, rlen,
    \* history: calls made, calls refused as too large, reservations, deliveries
    attempts, refused, log, out

meta == <<write_pos, read_pos>>
counters == <<num_writes_succeeded, num_writes_overflow, num_reads_succeeded>>
wlocals == <<len, wr, rd, idx>>
reader == <<rpc, rlen>>
vars == <<spinlock, meta, data, counters, pc, wlocals, reader,
          attempts, refused, log, out>>

HEADER_BYTES == 8
RECORD_ALIGN == 8

align_up(n, a) == ((n + a - 1) \div a) * a

\* Words a record of n payload bytes takes, its header included.
Total(n) == align_up(n + HEADER_BYTES, RECORD_ALIGN) \div RECORD_ALIGN

\* wr & size_mask: where a position lives.  The second view of the data block,
\* mapped right behind the first, is what lets a record run over the end.
Slot(p) == p % Size

\* The words of the payload of a record of n bytes at position p.
PayloadSlots(p, n) == {Slot(p + k) : k \in 1..(Total(n) - 1)}

\* The creator zeroes the metadata page; a new shm object reads as zero.
Init ==
    /\ spinlock = 0
    /\ write_pos = 0
    /\ read_pos = 0
    /\ data = [s \in 0..(Size - 1) |-> 0]
    /\ num_writes_succeeded = 0
    /\ num_writes_overflow = 0
    /\ num_reads_succeeded = 0
    /\ pc = [w \in Writers |-> "idle"]
    /\ len = [w \in Writers |-> 0]
    /\ wr = [w \in Writers |-> 0]
    /\ rd = [w \in Writers |-> 0]
    /\ idx = [w \in Writers |-> 0]
    /\ rpc = "idle"
    /\ rlen = 0
    /\ attempts = 0
    /\ refused = 0
    /\ log = << >>
    /\ out = << >>

----------------------------------------------------------------------------
(* begin_write *)

\* A record larger than the ring is refused before the lock is taken, and no
\* counter of the metadata page records it.
Refuse(w, n) ==
    /\ pc[w] = "idle"
    /\ attempts < MaxWrites
    /\ Total(n) > Size
    /\ attempts' = attempts + 1
    /\ refused' = refused + 1
    /\ UNCHANGED <<spinlock, meta, data, counters, pc, wlocals, reader, log, out>>

Begin(w, n) ==
    /\ pc[w] = "idle"
    /\ attempts < MaxWrites
    /\ Total(n) <= Size
    /\ attempts' = attempts + 1
    /\ pc' = [pc EXCEPT ![w] = "lock"]
    /\ len' = [len EXCEPT ![w] = n]
    /\ UNCHANGED <<spinlock, meta, data, counters, wr, rd, idx, reader, refused, log, out>>

\* Mutant: the lock word is stored without a look at it.
LockStores(w) ==
    /\ pc[w] = "lock"
    /\ spinlock' = 1
    /\ pc' = [pc EXCEPT ![w] = "load"]
    /\ UNCHANGED <<meta, data, counters, wlocals, reader, attempts, refused, log, out>>

\* lock(): the swap that finds 0.  Failed swaps change nothing.
Lock(w) ==
    /\ pc[w] = "lock"
    /\ spinlock = 0
    /\ spinlock' = 1
    /\ pc' = [pc EXCEPT ![w] = "load"]
    /\ UNCHANGED <<meta, data, counters, wlocals, reader, attempts, refused, log, out>>

\* Both cursors are loaded; write_pos cannot move under the lock, read_pos can.
LoadCursors(w) ==
    /\ pc[w] = "load"
    /\ wr' = [wr EXCEPT ![w] = write_pos]
    /\ rd' = [rd EXCEPT ![w] = read_pos]
    /\ pc' = [pc EXCEPT ![w] = "check"]
    /\ UNCHANGED <<spinlock, meta, data, counters, len, idx, reader,
                   attempts, refused, log, out>>

Fits(w) == (wr[w] - rd[w]) + Total(len[w]) <= Size

\* Mutant: an overflow is not counted.
OverflowUncounted(w) ==
    /\ pc[w] = "check"
    /\ ~Fits(w)
    /\ spinlock' = 0
    /\ pc' = [pc EXCEPT ![w] = "idle"]
    /\ UNCHANGED <<meta, data, counters, wlocals, reader, attempts, refused, log, out>>

\* Ring full: count the overflow, unlock, return null.
Overflow(w) ==
    /\ pc[w] = "check"
    /\ ~Fits(w)
    /\ num_writes_overflow' = num_writes_overflow + 1
    /\ spinlock' = 0
    /\ pc' = [pc EXCEPT ![w] = "idle"]
    /\ UNCHANGED <<meta, data, num_writes_succeeded, num_reads_succeeded,
                   wlocals, reader, attempts, refused, log, out>>

\* Mutant: the size header keeps what an earlier record left there.
KeepHeader(w) ==
    /\ pc[w] = "check"
    /\ Fits(w)
    /\ pc' = [pc EXCEPT ![w] = "advance"]
    /\ UNCHANGED <<spinlock, meta, data, counters, wlocals, reader, attempts, refused, log, out>>

\* Zero the size header so that a stale word cannot pass for a size.
ZeroHeader(w) ==
    /\ pc[w] = "check"
    /\ Fits(w)
    /\ data' = [data EXCEPT ![Slot(wr[w])] = 0]
    /\ pc' = [pc EXCEPT ![w] = "advance"]
    /\ UNCHANGED <<spinlock, meta, counters, wlocals, reader, attempts, refused, log, out>>

\* Move write_pos over the slot, which makes the reservation visible.
Advance(w) ==
    /\ pc[w] = "advance"
    /\ write_pos' = wr[w] + Total(len[w])
    /\ num_writes_succeeded' = num_writes_succeeded + 1
    /\ log' = Append(log, [pos |-> wr[w], len |-> len[w], pub |-> FALSE])
    /\ idx' = [idx EXCEPT ![w] = Len(log) + 1]
    /\ pc' = [pc EXCEPT ![w] = "unlock"]
    /\ UNCHANGED <<spinlock, read_pos, data, num_writes_overflow, num_reads_succeeded,
                   len, wr, rd, reader, attempts, refused, out>>

Unlock(w) ==
    /\ pc[w] = "unlock"
    /\ spinlock' = 0
    /\ pc' = [pc EXCEPT ![w] = "fill"]
    /\ UNCHANGED <<meta, data, counters, wlocals, reader, attempts, refused, log, out>>

----------------------------------------------------------------------------
(* The caller fills the payload, then end_write publishes it. *)

Fill(w) ==
    /\ pc[w] = "fill"
    /\ data' = [s \in 0..(Size - 1) |->
                  IF s \in PayloadSlots(wr[w], len[w]) THEN idx[w] ELSE data[s]]
    /\ pc' = [pc EXCEPT ![w] = "publish"]
    /\ UNCHANGED <<spinlock, meta, counters, wlocals, reader, attempts, refused, log, out>>

EndWrite(w) ==
    /\ pc[w] = "publish"
    /\ data' = [data EXCEPT ![Slot(wr[w])] = len[w]]
    /\ log' = [log EXCEPT ![idx[w]].pub = TRUE]
    /\ pc' = [pc EXCEPT ![w] = "idle"]
    /\ UNCHANGED <<spinlock, meta, counters, wlocals, reader, attempts, refused, out>>

----------------------------------------------------------------------------
(* The reader: begin_read, the caller's use of the slice, end_read. *)

\* Mutant: the cursors are compared after the mask.
PollMasked ==
    /\ rpc = "idle"
    /\ Slot(read_pos) < Slot(write_pos)
    /\ rpc' = "peek"
    /\ UNCHANGED <<spinlock, meta, data, counters, pc, wlocals, rlen,
                   attempts, refused, log, out>>

\* Nothing reserved beyond read_pos: the poll returns None and changes no
\* state (num_reads_nodata is a statistic nothing reads).
Poll ==
    /\ rpc = "idle"
    /\ read_pos < write_pos
    /\ rpc' = "peek"
    /\ UNCHANGED <<spinlock, meta, data, counters, pc, wlocals, rlen,
                   attempts, refused, log, out>>

\* The header decides: 0 is a reservation not yet published.
PeekUnpublished ==
    /\ rpc = "peek"
    /\ data[Slot(read_pos)] = 0
    /\ rpc' = "idle"
    /\ UNCHANGED <<spinlock, meta, data, counters, pc, wlocals, rlen,
                   attempts, refused, log, out>>

PeekRecord ==
    /\ rpc = "peek"
    /\ data[Slot(read_pos)] # 0
    /\ rlen' = data[Slot(read_pos)]
    /\ rpc' = "process"
    /\ UNCHANGED <<spinlock, meta, data, counters, pc, wlocals,
                   attempts, refused, log, out>>

\* process_record reads the slice.
Process ==
    /\ rpc = "process"
    /\ out' = Append(out, [len |-> rlen,
                           val |-> {data[s] : s \in PayloadSlots(read_pos, rlen)}])
    /\ rpc' = "end"
    /\ UNCHANGED <<spinlock, meta, data, counters, pc, wlocals, rlen,
                   attempts, refused, log>>

\* Mutant: the cursor stays on the record.
EndReadStays ==
    /\ rpc = "end"
    /\ num_reads_succeeded' = num_reads_succeeded + 1
    /\ rpc' = "idle"
    /\ UNCHANGED <<spinlock, meta, data, num_writes_succeeded, num_writes_overflow,
                   pc, wlocals, rlen, attempts, refused, log, out>>

EndRead ==
    /\ rpc = "end"
    /\ read_pos' = read_pos + Total(rlen)
    /\ num_reads_succeeded' = num_reads_succeeded + 1
    /\ rpc' = "idle"
    /\ UNCHANGED <<spinlock, write_pos, data, num_writes_succeeded, num_writes_overflow,
                   pc, wlocals, rlen, attempts, refused, log, out>>

----------------------------------------------------------------------------
Write(w) ==
    \/ \E n \in PayloadSizes : Refuse(w, n) \/ Begin(w, n)
    \/ Lock(w) \/ LoadCursors(w) \/ Overflow(w) \/ ZeroHeader(w)
    \/ Advance(w) \/ Unlock(w) \/ Fill(w) \/ EndWrite(w)

Read == Poll \/ PeekUnpublished \/ PeekRecord \/ Process \/ EndRead

Next == Read \/ \E w \in Writers : Write(w)

Safety == Init /\ [][Next]_vars

\* The recorder drains every millisecond while it runs.  Nothing is assumed of
\* the target's threads: one may stop for ever between begin_write and
\* end_write.
Spec == Safety /\ WF_vars(Read)

----------------------------------------------------------------------------
(* Properties *)

TypeOK ==
    /\ spinlock \in {0, 1}
    /\ write_pos \in Nat
    /\ read_pos \in Nat
    /\ data \in [0..(Size - 1) -> Nat]
    /\ num_writes_succeeded \in Nat
    /\ num_writes_overflow \in Nat
    /\ num_reads_succeeded \in Nat
    /\ pc \in [Writers -> {"idle", "lock", "load", "check", "advance", "unlock",
                           "fill", "publish"}]
    /\ len \in [Writers -> Nat]
    /\ wr \in [Writers -> Nat]
    /\ rd \in [Writers -> Nat]
    /\ idx \in [Writers -> Nat]
    /\ rpc \in {"idle", "peek", "process", "end"}
    /\ rlen \in Nat
    /\ attempts \in Nat
    /\ refused \in Nat
    /\ log \in Seq([pos : Nat, len : PayloadSizes, pub : BOOLEAN])
    /\ out \in Seq([len : Nat, val : SUBSET Nat])

\* Words reserved and not yet released never exceed the ring, although a
\* writer judges the space by a read_pos that may be stale.
WithinCapacity ==
    /\ read_pos <= write_pos
    /\ write_pos - read_pos <= Size

\* What the recorder copies out is the reservations, in order, each once, with
\* its own length and its own bytes: no reader ever sees a stale header, a
\* half-written payload or a slot that a later record has overwritten.
ReadsIntact ==
    /\ Len(out) <= Len(log)
    /\ \A i \in 1..Len(out) :
          /\ log[i].pub
          /\ out[i] = [len |-> log[i].len, val |-> {i}]

\* The slot a writer is about to store into, header or payload, lies in no
\* word of another reservation that the reader has still to release.
WritesOwnSlot ==
    \A w \in Writers : pc[w] \in {"fill", "publish"} =>
        \A i \in (num_reads_succeeded + 1)..Len(log) : i # idx[w] =>
            \A k \in 0..(Total(len[w]) - 1), m \in 0..(Total(log[i].len) - 1) :
                Slot(wr[w] + k) # Slot(log[i].pos + m)

\* No record is lost unnoticed: once every writer is idle, each call of
\* begin_write is a delivered record, one still in the ring, an overflow the
\* recorder reports, or a record that could never have fitted.
LossAccounted ==
    (\A w \in Writers : pc[w] = "idle") =>
        attempts = num_writes_succeeded + num_writes_overflow + refused

\* ----- The inductive invariant behind the properties above -----

\* The position just behind reservation i.
RecordEnd(i) == log[i].pos + Total(log[i].len)

\* Reservations tile the positions 0 .. write_pos - 1 without gap or overlap.
LogTiles ==
    /\ \A i \in 1..Len(log) : RecordEnd(i) <= write_pos
    /\ \A i, j \in 1..Len(log) : i < j => RecordEnd(i) <= log[j].pos
    /\ \A i \in 1..Len(log) :
          IF i = Len(log) THEN RecordEnd(i) = write_pos ELSE log[i + 1].pos = RecordEnd(i)

\* read_pos is always the start of a reservation, or the end of the last.
CursorOnRecord ==
    /\ num_reads_succeeded <= Len(log)
    /\ read_pos = IF num_reads_succeeded = Len(log) THEN write_pos
                  ELSE log[num_reads_succeeded + 1].pos

Critical == {"load", "check", "advance", "unlock"}

\* The spinlock admits one writer between lock() and unlock().
LockExcludes ==
    \A w \in Writers : pc[w] \in Critical =>
        /\ spinlock = 1
        /\ \A v \in Writers : pc[v] \in Critical => v = w

Owning == {"unlock", "fill", "publish"}

\* What a writer's locals mean at each of its steps.
WriterOK(w) ==
    /\ pc[w] # "idle" => len[w] \in PayloadSizes
    /\ pc[w] \in {"check", "advance"} => wr[w] = write_pos /\ rd[w] <= read_pos
    /\ pc[w] = "advance" => Fits(w) /\ data[Slot(wr[w])] = 0
    /\ pc[w] \in Owning =>
          /\ idx[w] \in (num_reads_succeeded + 1)..Len(log)
          /\ log[idx[w]] = [pos |-> wr[w], len |-> len[w], pub |-> FALSE]
    /\ pc[w] = "publish" => \A s \in PayloadSlots(wr[w], len[w]) : data[s] = idx[w]

WriterLocals == \A w \in Writers : WriterOK(w)

\* No two writers hold the same reservation.
OwnersDistinct ==
    \A v, w \in Writers :
        pc[v] \in Owning /\ pc[w] \in Owning /\ idx[v] = idx[w] => v = w

\* In every record not yet released the header is 0 until publication and
\* the length after it, and a published payload is the record's own.
RecordOK(i) ==
    /\ data[Slot(log[i].pos)] = IF log[i].pub THEN log[i].len ELSE 0
    /\ log[i].pub => \A s \in PayloadSlots(log[i].pos, log[i].len) : data[s] = i

HeadersTell == \A i \in (num_reads_succeeded + 1)..Len(log) : RecordOK(i)

\* The reader works on a published head record.
ReaderLocals ==
    /\ rpc # "idle" => num_reads_succeeded < Len(log)
    /\ rpc \in {"process", "end"} =>
          log[num_reads_succeeded + 1].pub /\ rlen = log[num_reads_succeeded + 1].len
    /\ Len(out) = IF rpc = "end" THEN num_reads_succeeded + 1 ELSE num_reads_succeeded

RingInv ==
    /\ TypeOK
    /\ LogTiles
    /\ CursorOnRecord
    /\ WithinCapacity
    /\ LockExcludes
    /\ WriterLocals
    /\ OwnersDistinct
    /\ HeadersTell
    /\ ReaderLocals
    /\ ReadsIntact

\* A record is delivered once it and everything reserved before it are
\* published: no wrap-around or interleaving strands it in the ring.
PublishedDelivered ==
    \A i \in 1..MaxWrites :
        (i <= Len(log) /\ \A j \in 1..i : j <= Len(log) /\ log[j].pub)
            ~> (num_reads_succeeded >= i)

\* The ring implements the two-phase queue.
Queue == INSTANCE HeapQueue WITH
    log <- [i \in 1..Len(log) |-> [len |-> log[i].len, pub |-> log[i].pub]]

QueueSpec == Queue!Spec
=============================================================================
