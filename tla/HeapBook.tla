------------------------------ MODULE HeapBook ------------------------------
(***************************************************************************)
(* The recorder's bookkeeping of sampled allocations (HeapBook in          *)
(* sismo-core/src/heap/macos_heap_capture.rs).  A callstack is a member of *)
(* Sites; an address absent from the code's `live` map is an address with  *)
(* an empty list here.                                                     *)
(***************************************************************************)
EXTENDS Naturals, Sequences, FiniteSets, SequencesExt

CONSTANTS
    Addrs,          \* addresses the target's allocator hands out
    Sites           \* allocation callstacks

EmptyBook ==
    [sites |-> [s \in Sites |-> [allocated |-> 0, freed |-> 0, alloc_count |-> 0, free_count |-> 0]],
     live  |-> [a \in Addrs |-> << >>]]

apply_alloc(book, seq, addr, size, site) ==
    [sites |-> [book.sites EXCEPT ![site].allocated = @ + size,
                                  ![site].alloc_count = @ + 1],
     live  |-> [book.live EXCEPT ![addr] =
                    Append(@, [seq |-> seq, size |-> size, site |-> site])]]

\* How many entries of an ascending list are older than seq.
partition_point(list, seq) == Cardinality({i \in DOMAIN list : list[i].seq < seq})

\* A free takes the newest live allocation older than it, or nothing.
apply_free(book, seq, addr) ==
    LET i == partition_point(book.live[addr], seq)
        l == book.live[addr][i]
    IN  IF i = 0 THEN book
        ELSE [sites |-> [book.sites EXCEPT ![l.site].freed = @ + l.size,
                                           ![l.site].free_count = @ + 1],
              live  |-> [book.live EXCEPT ![addr] = RemoveAt(@, i)]]

\* Mutant: only a batch's first entry is applied.
FirstEntryOnly(book, rec) ==
    IF rec.kind = "alloc"
    THEN apply_alloc(book, rec.seq, rec.addr, rec.size, rec.site)
    ELSE apply_free(book, rec.entries[1].seq, rec.entries[1].addr)

\* The book after the first n frees of a batch, for every n.
BooksAfter(book, entries) ==
    LET after[n \in 0..Len(entries)] ==
            IF n = 0 THEN book
            ELSE apply_free(after[n - 1], entries[n].seq, entries[n].addr)
    IN  after

\* process_record: an allocation record, or a batch of frees applied in order.
process_record(book, rec) ==
    IF rec.kind = "alloc"
    THEN apply_alloc(book, rec.seq, rec.addr, rec.size, rec.site)
    ELSE BooksAfter(book, rec.entries)[Len(rec.entries)]
=============================================================================
