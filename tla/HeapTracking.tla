---------------------------- MODULE HeapTracking ----------------------------
(***************************************************************************)
(* One heap session from end to end: the target's threads allocate, free   *)
(* and reallocate through the interposed functions of                      *)
(* sismo-heap-preload/src/shim.rs, their records go through the ring, and  *)
(* the recorder applies them to its HeapBook.  The ring is HeapQueue with  *)
(* the records already taken left out.                                     *)
(*                                                                         *)
(* An object of the target's heap is known by the sequence number of its   *)
(* allocation record, 0 for one that was not sampled or whose record was   *)
(* refused.                                                                *)
(***************************************************************************)
EXTENDS HeapBook, FiniteSetsExt, TLC

CONSTANTS
    Callers,        \* allocating threads of the target
    SampleSizes,    \* the weights sample_size_for returns for sampled objects
    FREE_BATCH_CAP, \* frees a thread collects before it must flush
    RingCap,        \* records the ring holds
    MaxAllocs       \* bound on objects allocated in a behaviour, reallocations included

ASSUME TrackAssumption ==
    /\ FREE_BATCH_CAP \in Nat \ {0} /\ RingCap \in Nat \ {0} /\ MaxAllocs \in Nat
    /\ SampleSizes \subseteq Nat /\ Addrs # {} /\ Sites # {}

VARIABLES
    heap,       \* address -> [st, seq]: what the allocator has there
    allocs,     \* objects allocated so far
    g_seq,      \* G_SEQ
    pc, op, arg,    \* each thread's step, the call it serves, the call's data
    batch,      \* T_FREES: each thread's pending frees
    ring,       \* records reserved and not yet taken, oldest first
    refused,    \* G_DROPPED
    lost_frees, \* free entries inside refused batches
    spoiled,    \* objects whose realloc returned null
    book        \* the recorder's HeapBook

loss == <<refused, lost_frees>>
trackVars == <<heap, allocs, g_seq, pc, op, arg, batch, ring, loss, spoiled, book>>

NoArg == [addr |-> CHOOSE a \in Addrs : TRUE, size |-> 0, site |-> CHOOSE s \in Sites : TRUE]

TrackInit ==
    /\ heap = [a \in Addrs |-> [st |-> "free", seq |-> 0]]
    /\ allocs = 0
    /\ g_seq = 1
    /\ pc = [t \in Callers |-> "idle"]
    /\ op = [t \in Callers |-> "none"]
    /\ arg = [t \in Callers |-> NoArg]
    /\ batch = [t \in Callers |-> << >>]
    /\ ring = << >>
    /\ refused = 0
    /\ lost_frees = 0
    /\ spoiled = {}
    /\ book = EmptyBook

Goto(t, l) == pc' = [pc EXCEPT ![t] = l]

\* The call returns to the program; its locals are gone.
Return(t) ==
    /\ Goto(t, "idle")
    /\ op' = [op EXCEPT ![t] = "none"]
    /\ arg' = [arg EXCEPT ![t] = NoArg]

\* A record is one of two kinds; an allocation's has sequence number 0 until
\* the number is drawn.
AllocRecord(t) ==
    [kind |-> "alloc", owner |-> t, pub |-> FALSE, seq |-> 0,
     addr |-> arg[t].addr, size |-> arg[t].size, site |-> arg[t].site]
FreesRecord(t) == [kind |-> "frees", owner |-> t, pub |-> FALSE, entries |-> batch[t]]

\* The slot of the record that thread t has reserved and not yet published.
SlotOf(t) == CHOOSE i \in DOMAIN ring : ring[i].owner = t /\ ~ring[i].pub

----------------------------------------------------------------------------
(* malloc, calloc, valloc, aligned_alloc, posix_memalign, realloc(NULL) *)

\* The sampler skips the allocation: the object exists, no record does.
AllocUnsampled(t, a) ==
    /\ pc[t] = "idle" /\ allocs < MaxAllocs /\ heap[a].st = "free"
    /\ heap' = [heap EXCEPT ![a] = [st |-> "held", seq |-> 0]]
    /\ allocs' = allocs + 1
    /\ UNCHANGED <<g_seq, pc, op, arg, batch, ring, loss, spoiled, book>>

\* The allocator has returned; the caller has the pointer only when the shim
\* returns, so the object is "coming" until its record is out or refused.
AllocSampled(t, a, size, site) ==
    /\ pc[t] = "idle" /\ allocs < MaxAllocs /\ heap[a].st = "free"
    /\ heap' = [heap EXCEPT ![a] = [st |-> "coming", seq |-> 0]]
    /\ allocs' = allocs + 1
    /\ arg' = [arg EXCEPT ![t] = [addr |-> a, size |-> size, site |-> site]]
    /\ Goto(t, "reserve")
    /\ UNCHANGED <<g_seq, op, batch, ring, loss, spoiled, book>>

----------------------------------------------------------------------------
(* emit_alloc_record *)

ReserveAlloc(t) ==
    /\ pc[t] = "reserve" /\ Len(ring) < RingCap
    /\ ring' = Append(ring, AllocRecord(t))
    /\ Goto(t, "stamp")
    /\ UNCHANGED <<heap, allocs, g_seq, op, arg, batch, loss, spoiled, book>>

DropAlloc(t) ==
    /\ pc[t] = "reserve" /\ Len(ring) >= RingCap
    /\ refused' = refused + 1
    /\ heap' = [heap EXCEPT ![arg[t].addr].st = "held"]
    /\ Return(t)
    /\ UNCHANGED <<allocs, g_seq, batch, ring, lost_frees, spoiled, book>>

\* The sequence number is drawn after the slot, so ring order and sequence
\* order of two threads' allocations can differ.
StampAlloc(t) ==
    /\ pc[t] = "stamp"
    /\ g_seq' = g_seq + 1
    /\ heap' = [heap EXCEPT ![arg[t].addr].seq = g_seq]
    /\ ring' = [ring EXCEPT ![SlotOf(t)].seq = g_seq]
    /\ Goto(t, "publish")
    /\ UNCHANGED <<allocs, op, arg, batch, loss, spoiled, book>>

PublishAlloc(t) ==
    /\ pc[t] = "publish"
    /\ ring' = [ring EXCEPT ![SlotOf(t)].pub = TRUE]
    /\ heap' = [heap EXCEPT ![arg[t].addr].st = "held"]
    /\ Return(t)
    /\ UNCHANGED <<allocs, g_seq, batch, loss, spoiled, book>>

----------------------------------------------------------------------------
(* free and realloc *)

\* The program gives up an object it holds; no other thread may use it now.
CallFree(t, a, o) ==
    /\ pc[t] = "idle" /\ heap[a].st = "held"
    /\ o = "realloc" => allocs < MaxAllocs
    /\ allocs' = IF o = "realloc" THEN allocs + 1 ELSE allocs
    /\ heap' = [heap EXCEPT ![a].st = "leaving"]
    /\ op' = [op EXCEPT ![t] = o]
    /\ arg' = [arg EXCEPT ![t].addr = a]
    /\ Goto(t, "queue")
    /\ UNCHANGED <<g_seq, batch, ring, loss, spoiled, book>>

\* queue_free: stamp and collect.  A full batch is flushed, a younger one
\* when its oldest entry has passed FLUSH_AGE_NS.
QueueFree(t) ==
    /\ pc[t] = "queue"
    /\ g_seq' = g_seq + 1
    /\ batch' = [batch EXCEPT ![t] = Append(@, [seq |-> g_seq, addr |-> arg[t].addr])]
    /\ \/ Goto(t, "flush")
       \/ Len(batch[t]) + 1 < FREE_BATCH_CAP /\ Goto(t, "finish")
    /\ UNCHANGED <<heap, allocs, op, arg, ring, loss, spoiled, book>>

\* flush_frees: one record per batch; the batch is emptied in every case.
ReserveFrees(t) ==
    /\ pc[t] = "flush" /\ Len(ring) < RingCap
    /\ ring' = Append(ring, FreesRecord(t))
    /\ Goto(t, "publish_frees")
    /\ UNCHANGED <<heap, allocs, g_seq, op, arg, batch, loss, spoiled, book>>

DropFrees(t) ==
    /\ pc[t] = "flush" /\ Len(ring) >= RingCap
    /\ refused' = refused + 1
    /\ lost_frees' = lost_frees + Len(batch[t])
    /\ batch' = [batch EXCEPT ![t] = << >>]
    /\ Goto(t, "finish")
    /\ UNCHANGED <<heap, allocs, g_seq, op, arg, ring, spoiled, book>>

PublishFrees(t) ==
    /\ pc[t] = "publish_frees"
    /\ ring' = [ring EXCEPT ![SlotOf(t)].pub = TRUE]
    /\ batch' = [batch EXCEPT ![t] = << >>]
    /\ Goto(t, "finish")
    /\ UNCHANGED <<heap, allocs, g_seq, op, arg, loss, spoiled, book>>

\* The real free, after the record was queued.
RealFree(t) ==
    /\ pc[t] = "finish" /\ op[t] = "free"
    /\ heap' = [heap EXCEPT ![arg[t].addr] = [st |-> "free", seq |-> 0]]
    /\ Return(t)
    /\ UNCHANGED <<allocs, g_seq, batch, ring, loss, spoiled, book>>

\* The real realloc moves the object to a free address or leaves it where it
\* is; the new object is sampled afresh or not at all.
RealRealloc(t, b, sampled, size, site) ==
    /\ pc[t] = "finish" /\ op[t] = "realloc"
    /\ b = arg[t].addr \/ heap[b].st = "free"
    /\ heap' = [heap EXCEPT ![arg[t].addr] = [st |-> "free", seq |-> 0],
                            ![b] = [st |-> IF sampled THEN "coming" ELSE "held", seq |-> 0]]
    /\ IF sampled
       THEN /\ arg' = [arg EXCEPT ![t] = [addr |-> b, size |-> size, site |-> site]]
            /\ Goto(t, "reserve")
            /\ UNCHANGED op
       ELSE Return(t)
    /\ UNCHANGED <<allocs, g_seq, batch, ring, loss, spoiled, book>>

\* A realloc that returns null leaves the old object as it was.
FailedRealloc(t) ==
    /\ pc[t] = "finish" /\ op[t] = "realloc"
    /\ heap' = [heap EXCEPT ![arg[t].addr].st = "held"]
    /\ spoiled' = spoiled \cup {heap[arg[t].addr].seq}
    /\ Return(t)
    /\ UNCHANGED <<allocs, g_seq, batch, ring, loss, book>>

----------------------------------------------------------------------------
(* The recorder's drain_into: one record *)

Drain ==
    /\ ring # << >> /\ Head(ring).pub
    /\ book' = process_record(book, Head(ring))
    /\ ring' = Tail(ring)
    /\ UNCHANGED <<heap, allocs, g_seq, pc, op, arg, batch, loss, spoiled>>

----------------------------------------------------------------------------
ThreadStep(t) ==
    \/ \E a \in Addrs : \/ AllocUnsampled(t, a)
                        \/ \E size \in SampleSizes, site \in Sites : AllocSampled(t, a, size, site)
                        \/ \E o \in {"free", "realloc"} : CallFree(t, a, o)
    \/ ReserveAlloc(t) \/ DropAlloc(t) \/ StampAlloc(t) \/ PublishAlloc(t)
    \/ QueueFree(t) \/ ReserveFrees(t) \/ DropFrees(t) \/ PublishFrees(t)
    \/ RealFree(t) \/ FailedRealloc(t)
    \/ \E b \in Addrs, sampled \in BOOLEAN, size \in SampleSizes, site \in Sites :
          RealRealloc(t, b, sampled, size, site)

TrackNext == Drain \/ \E t \in Callers : ThreadStep(t)

TrackSpec == TrackInit /\ [][TrackNext]_trackVars

----------------------------------------------------------------------------
(* Properties *)

SeqsIn(list) == {list[i].seq : i \in DOMAIN list}
LiveSeqs(a) == SeqsIn(book.live[a])

TypeOK ==
    /\ heap \in [Addrs -> [st : {"free", "coming", "held", "leaving"}, seq : Nat]]
    /\ allocs \in 0..MaxAllocs
    /\ g_seq \in Nat \ {0}
    /\ pc \in [Callers -> {"idle", "reserve", "stamp", "publish", "queue", "flush",
                           "publish_frees", "finish"}]
    /\ op \in [Callers -> {"none", "free", "realloc"}]
    /\ \A t \in Callers : Len(batch[t]) <= FREE_BATCH_CAP
    /\ Len(ring) <= RingCap
    /\ refused \in Nat /\ lost_frees \in Nat /\ spoiled \subseteq Nat
    /\ book.live \in [Addrs -> Seq([seq : Nat, size : SampleSizes, site : Sites])]

\* Allocations reach the book out of sequence order across addresses, yet each
\* address's list stays strictly ascending, which apply_free's binary search
\* (partition_point) depends on.
ListsAscending ==
    \A a \in Addrs : \A i, j \in DOMAIN book.live[a] :
        i < j => book.live[a][i].seq < book.live[a][j].seq

InBookOrRing(a) ==
    \/ heap[a].seq \in LiveSeqs(a)
    \/ \E i \in DOMAIN ring : ring[i].kind = "alloc" /\ ring[i].pub /\ ring[i].seq = heap[a].seq

\* A free never takes an object the program still holds, however late and in
\* whatever order the threads' batches arrive and however often the address
\* was reused meanwhile: the record of a held object is in the book or still
\* on its way.  The one exception is an object whose realloc failed.
HeldStaysLive ==
    \A a \in Addrs : heap[a].st = "held" /\ heap[a].seq \notin {0} \cup spoiled => InBookOrRing(a)

\* What the comment on realloc says of its two records: whatever the real realloc
\* does, the book nets out, so a held object is in it or on its way.
ReallocNetsOut ==
    \A a \in Addrs : heap[a].st = "held" /\ heap[a].seq # 0 => InBookOrRing(a)

Quiescent ==
    /\ ring = << >>
    /\ \A t \in Callers : pc[t] = "idle" /\ batch[t] = << >>

\* Once every batch has been flushed and drained and nothing was refused, the
\* book's live objects are exactly the sampled objects the program holds; the
\* free queued by a failing realloc costs that object and no other.
BookExact ==
    Quiescent /\ refused = 0 =>
        \A a \in Addrs :
            LiveSeqs(a) = IF heap[a].st = "held" THEN {heap[a].seq} \ ({0} \cup spoiled) ELSE {}

\* The book's live allocations, each with its address.
Live == UNION {{a} \X ToSet(book.live[a]) : a \in Addrs}

\* Frees that sit in batches or, in a published record, in the ring.
InBatches == UNION {ToSet(batch[t]) : t \in Callers}
PublishedBatches == {i \in DOMAIN ring : ring[i].kind = "frees" /\ ring[i].pub}
PublishedFrees == UNION {ToSet(ring[i].entries) : i \in PublishedBatches}
PendingFrees == InBatches \cup PublishedFrees

\* Objects the book still counts although the program has given them up.
Overcounted == {p \in Live : p[2].seq # heap[p[1]].seq}

\* The overcount is bounded by the frees that sit in batches and in the ring or
\* that went down with refused batches: a stranded batch costs its entries and
\* nothing else.
OvercountBounded == Cardinality(Overcounted) <= Cardinality(PendingFrees) + lost_frees

\* At every site the bytes and objects allocated and not freed are those of the
\* site's live entries: a free is charged to the callstack of the allocation
\* it takes, also when lists of reused addresses hold several sites.
LiveAt(s) == {p \in Live : p[2].site = s}
SizeOf(S) == MapThenSumSet(LAMBDA p : p[2].size, S)
SiteTotalsBalance ==
    \A s \in Sites :
        /\ book.sites[s].alloc_count = book.sites[s].free_count + Cardinality(LiveAt(s))
        /\ book.sites[s].allocated = book.sites[s].freed + SizeOf(LiveAt(s))

\* The book is faithful at every moment: ascending per address, complete for
\* what is held, exact when everything has arrived, wrong by no more than what
\* is on its way or was reported lost, and balanced at every callstack.
BookFaithful ==
    /\ TypeOK
    /\ ListsAscending
    /\ HeldStaysLive
    /\ BookExact
    /\ OvercountBounded
    /\ SiteTotalsBalance
=============================================================================
