--------------------------- MODULE HeapRingProofs ---------------------------
(***************************************************************************)
(* Proofs about HeapRing.  RingInv is inductive: the facts on words come   *)
(* first (reservations not yet released lie in one window of Size          *)
(* positions, so no two share a word), then one lemma per action, then the *)
(* theorems and the refinement of HeapQueue.                               *)
(***************************************************************************)
EXTENDS HeapRing, FiniteSetTheorems, SequenceTheorems, TLAPS

\* A record takes a whole number of words: the header and at least one more.
LEMMA TotalAtLeastTwo == \A n \in Nat \ {0} : Total(n) \in Nat /\ Total(n) >= 2
BY DEF Total, align_up, HEADER_BYTES, RECORD_ALIGN

\* The words a record takes are a natural number, an empty payload included.
LEMMA TotalNat == \A n \in Nat : Total(n) \in Nat
BY DEF Total, align_up, HEADER_BYTES, RECORD_ALIGN

\* A position and the same position with its word: p = Size * q + Slot(p).
LEMMA SlotDivision ==
    ASSUME NEW p \in Nat
    PROVE  /\ Slot(p) \in 0..(Size - 1)
           /\ p \div Size \in Nat
           /\ p = Size * (p \div Size) + Slot(p)
BY SizeAssumption DEF Slot

\* Two positions less than a ring apart never share a word.
LEMMA SlotsDiffer ==
    ASSUME NEW p \in Nat, NEW q \in Nat, NEW r \in Nat,
           r <= p, p < r + Size, r <= q, q < r + Size, p # q
    PROVE  Slot(p) # Slot(q)
<1>1. SUFFICES ASSUME Slot(p) = Slot(q) PROVE FALSE
  OBVIOUS
<1>2. /\ p = Size * (p \div Size) + Slot(p) /\ q = Size * (q \div Size) + Slot(q)
      /\ p \div Size \in Nat /\ q \div Size \in Nat /\ Slot(p) \in Nat /\ Slot(q) \in Nat
  <2>1. p = Size * (p \div Size) + Slot(p) /\ p \div Size \in Nat /\ Slot(p) \in 0..(Size - 1)
    BY SlotDivision
  <2>2. q = Size * (q \div Size) + Slot(q) /\ q \div Size \in Nat /\ Slot(q) \in 0..(Size - 1)
    BY SlotDivision
  <2> QED BY <2>1, <2>2, SizeAssumption
<1> DEFINE a == p \div Size
           b == q \div Size
<1>3. Size * a - Size * b < Size /\ Size * b - Size * a < Size
  BY <1>1, <1>2, SizeAssumption
<1>4. ASSUME NEW x \in Nat, NEW y \in Nat, x < y PROVE Size * y - Size * x >= Size
  <2>1. PICK d \in Nat : y = x + 1 + d
    BY <1>4
  <2>2. Size * y = Size * x + Size + Size * d /\ Size * d \in Nat /\ Size * x \in Nat
    BY <2>1, SizeAssumption
  <2> QED BY <2>2, SizeAssumption
<1>5. a = b
  <2>1. ~(a < b) BY <1>2, <1>3, <1>4, SizeAssumption
  <2>2. ~(b < a) BY <1>2, <1>3, <1>4, SizeAssumption
  <2> QED BY <1>2, <2>1, <2>2
<1> QED BY <1>1, <1>2, <1>5

\* Every payload the shim writes is positive and takes at least two words.
LEMMA PayloadTotals == \A n \in PayloadSizes : n \in Nat /\ n # 0 /\ Total(n) \in Nat /\ Total(n) >= 2
BY TotalAtLeastTwo, PayloadAssumption

Reservation == [pos : Nat, len : PayloadSizes, pub : BOOLEAN]

\* What the type invariant says of one reservation.
LEMMA LogEntry ==
    ASSUME TypeOK, NEW i \in 1..Len(log)
    PROVE  /\ log[i] \in Reservation
           /\ log[i].pos \in Nat /\ log[i].len \in PayloadSizes /\ log[i].pub \in BOOLEAN
           /\ Total(log[i].len) \in Nat /\ Total(log[i].len) >= 2
           /\ RecordEnd(i) \in Nat
<1>1. log \in Seq(Reservation)
  BY DEF TypeOK, Reservation
<1>2. log[i] \in Reservation
  BY <1>1
<1>3. log[i].pos \in Nat /\ log[i].len \in PayloadSizes /\ log[i].pub \in BOOLEAN
  BY <1>2 DEF Reservation
<1>4. Total(log[i].len) \in Nat /\ Total(log[i].len) >= 2
  BY <1>3, PayloadTotals
<1>5. ASSUME NEW x \in Nat, NEW y \in Nat PROVE x + y \in Nat
  OBVIOUS
<1> QED BY <1>2, <1>3, <1>4, <1>5 DEF RecordEnd

\* The reservations not yet released lie in one window of Size positions.
LEMMA UnreadWindow ==
    ASSUME TypeOK, LogTiles, CursorOnRecord, WithinCapacity,
           NEW i \in (num_reads_succeeded + 1)..Len(log)
    PROVE  /\ i \in 1..Len(log)
           /\ log[i].pos \in Nat /\ log[i].len \in PayloadSizes
           /\ Total(log[i].len) \in Nat /\ Total(log[i].len) >= 2
           /\ read_pos <= log[i].pos
           /\ RecordEnd(i) <= write_pos
           /\ RecordEnd(i) <= read_pos + Size
<1>0. num_reads_succeeded \in Nat /\ Len(log) \in Nat
  BY DEF TypeOK
<1> DEFINE h == num_reads_succeeded + 1
<1>1. i \in 1..Len(log) /\ h \in 1..Len(log) /\ (i = h \/ h < i) /\ num_reads_succeeded # Len(log)
  BY <1>0
<1>2. /\ log[i].pos \in Nat /\ log[i].len \in PayloadSizes
      /\ Total(log[i].len) \in Nat /\ Total(log[i].len) >= 2 /\ RecordEnd(i) \in Nat
  BY <1>1, LogEntry
<1>3. log[h].pos \in Nat /\ Total(log[h].len) \in Nat
  BY <1>1, LogEntry
<1>4. read_pos = log[h].pos
  BY <1>1 DEF CursorOnRecord
<1> HIDE DEF h
<1>5. read_pos <= log[i].pos
  <2>1. CASE i = h
    BY <2>1, <1>4, <1>2
  <2>2. CASE h < i
    <3>1. log[h].pos + Total(log[h].len) <= log[i].pos
      BY <2>2, <1>1 DEF LogTiles, RecordEnd
    <3>2. ASSUME NEW x \in Nat, NEW y \in Nat, NEW z \in Nat, x + y <= z PROVE x <= z
      BY <3>2
    <3> QED BY <3>1, <3>2, <1>2, <1>3, <1>4
  <2> QED BY <2>1, <2>2, <1>1
<1>6. RecordEnd(i) <= write_pos
  BY <1>1 DEF LogTiles
<1>7. RecordEnd(i) <= read_pos + Size
  <2>1. write_pos \in Nat /\ read_pos \in Nat /\ write_pos - read_pos <= Size
    BY DEF TypeOK, WithinCapacity
  <2> QED BY <2>1, <1>2, <1>6, SizeAssumption
<1> QED BY <1>1, <1>2, <1>5, <1>6, <1>7

\* Offsets inside two ranges that do not overlap never meet.
LEMMA OffsetsApart ==
    ASSUME NEW p \in Nat, NEW t \in Nat, NEW q \in Nat, NEW u \in Nat,
           NEW a \in 0..(t - 1), NEW b \in 0..(u - 1), p + t <= q
    PROVE  p + a # q + b
OBVIOUS

\* A word inside a reservation is at an offset less than the reservation is
\* long.
LEMMA OffsetsInside ==
    ASSUME NEW p \in Nat, NEW t \in Nat, NEW r \in Nat, NEW a \in 0..(t - 1),
           r <= p, p + t <= r + Size
    PROVE  p + a \in Nat /\ r <= p + a /\ p + a < r + Size
BY SizeAssumption

\* No word belongs to two reservations that are not yet released, and none
\* appears twice in one of them.
LEMMA UnreadDisjoint ==
    ASSUME TypeOK, LogTiles, CursorOnRecord, WithinCapacity,
           NEW i \in (num_reads_succeeded + 1)..Len(log),
           NEW j \in (num_reads_succeeded + 1)..Len(log),
           NEW a \in 0..(Total(log[i].len) - 1),
           NEW b \in 0..(Total(log[j].len) - 1),
           i # j \/ a # b
    PROVE  Slot(log[i].pos + a) # Slot(log[j].pos + b)
<1>1. /\ i \in 1..Len(log) /\ log[i].pos \in Nat /\ Total(log[i].len) \in Nat
      /\ read_pos <= log[i].pos /\ log[i].pos + Total(log[i].len) <= read_pos + Size
  BY UnreadWindow DEF RecordEnd
<1>2. /\ j \in 1..Len(log) /\ log[j].pos \in Nat /\ Total(log[j].len) \in Nat
      /\ read_pos <= log[j].pos /\ log[j].pos + Total(log[j].len) <= read_pos + Size
  BY UnreadWindow DEF RecordEnd
<1>3. /\ log[i].pos + a \in Nat /\ read_pos <= log[i].pos + a /\ log[i].pos + a < read_pos + Size
      /\ log[j].pos + b \in Nat /\ read_pos <= log[j].pos + b /\ log[j].pos + b < read_pos + Size
  <2>1. read_pos \in Nat
    BY DEF TypeOK
  <2> QED BY <2>1, <1>1, <1>2, OffsetsInside
<1>4. log[i].pos + a # log[j].pos + b
  <2>1. CASE i = j
    <3>1. a # b /\ log[i].pos = log[j].pos BY <2>1
    <3>2. ASSUME NEW x \in Nat, NEW y \in Nat, NEW z \in Nat, y # z PROVE x + y # x + z
      BY <3>2
    <3>3. a \in Nat /\ b \in Nat BY <1>1, <1>2
    <3> QED BY <3>1, <3>2, <3>3, <1>1
  <2>2. CASE i < j
    <3>1. log[i].pos + Total(log[i].len) <= log[j].pos
      BY <2>2, <1>1, <1>2 DEF LogTiles, RecordEnd
    <3> QED BY <3>1, <1>1, <1>2, OffsetsApart
  <2>3. CASE j < i
    <3>1. log[j].pos + Total(log[j].len) <= log[i].pos
      BY <2>3, <1>1, <1>2 DEF LogTiles, RecordEnd
    <3> QED BY <3>1, <1>1, <1>2, OffsetsApart
  <2> QED BY <2>1, <2>2, <2>3, <1>1, <1>2
<1>5. read_pos \in Nat
  BY DEF TypeOK
<1> QED BY <1>3, <1>4, <1>5, SlotsDiffer

\* The words of reservation i.
Words(i) == {Slot(log[i].pos + k) : k \in 0..(Total(log[i].len) - 1)}

\* A reservation's words are its header's and its payload's.
LEMMA WordsOfRecord ==
    ASSUME TypeOK, NEW i \in 1..Len(log)
    PROVE  /\ Slot(log[i].pos) \in Words(i)
           /\ PayloadSlots(log[i].pos, log[i].len) \subseteq Words(i)
           /\ Words(i) \subseteq 0..(Size - 1)
<1>1. log[i].pos \in Nat /\ Total(log[i].len) \in Nat /\ Total(log[i].len) >= 2
  BY LogEntry
<1>2. 0 \in 0..(Total(log[i].len) - 1) /\ log[i].pos + 0 = log[i].pos
  BY <1>1
<1>3. 1..(Total(log[i].len) - 1) \subseteq 0..(Total(log[i].len) - 1)
  BY <1>1
<1>4. ASSUME NEW k \in 0..(Total(log[i].len) - 1) PROVE Slot(log[i].pos + k) \in 0..(Size - 1)
  <2>1. log[i].pos + k \in Nat BY <1>1
  <2> QED BY <2>1, SlotDivision
<1> QED BY <1>2, <1>3, <1>4 DEF Words, PayloadSlots

\* Two reservations not yet released have no word in common.
LEMMA WordsDisjoint ==
    ASSUME TypeOK, LogTiles, CursorOnRecord, WithinCapacity,
           NEW i \in (num_reads_succeeded + 1)..Len(log),
           NEW j \in (num_reads_succeeded + 1)..Len(log), i # j
    PROVE  Words(i) \cap Words(j) = {}
BY UnreadDisjoint DEF Words

\* A reservation's header is no word of its own payload.
LEMMA HeaderNotPayload ==
    ASSUME TypeOK, LogTiles, CursorOnRecord, WithinCapacity,
           NEW i \in (num_reads_succeeded + 1)..Len(log)
    PROVE  Slot(log[i].pos) \notin PayloadSlots(log[i].pos, log[i].len)
<1>1. log[i].pos \in Nat /\ Total(log[i].len) \in Nat /\ Total(log[i].len) >= 2
  BY UnreadWindow
<1>2. 0 \in 0..(Total(log[i].len) - 1) /\ log[i].pos + 0 = log[i].pos
  BY <1>1
<1>3. ASSUME NEW k \in 1..(Total(log[i].len) - 1)
      PROVE  k \in 0..(Total(log[i].len) - 1) /\ 0 # k
  BY <1>1
<1>4. ASSUME NEW k \in 1..(Total(log[i].len) - 1)
      PROVE  Slot(log[i].pos + 0) # Slot(log[i].pos + k)
  BY <1>2, <1>3, UnreadDisjoint
<1> QED BY <1>2, <1>4 DEF PayloadSlots

\* While the ring is not full, the word at write_pos is nobody's.
LEMMA WritePosFree ==
    ASSUME TypeOK, LogTiles, CursorOnRecord, WithinCapacity, write_pos < read_pos + Size,
           NEW i \in (num_reads_succeeded + 1)..Len(log)
    PROVE  Slot(write_pos) \notin Words(i)
<1>1. /\ log[i].pos \in Nat /\ Total(log[i].len) \in Nat
      /\ read_pos <= log[i].pos /\ log[i].pos + Total(log[i].len) <= write_pos
      /\ log[i].pos + Total(log[i].len) <= read_pos + Size
  BY UnreadWindow DEF RecordEnd
<1>2. write_pos \in Nat /\ read_pos \in Nat /\ read_pos <= write_pos
  BY DEF TypeOK, WithinCapacity
<1>3. ASSUME NEW k \in 0..(Total(log[i].len) - 1) PROVE Slot(write_pos) # Slot(log[i].pos + k)
  <2>1. /\ log[i].pos + k \in Nat /\ read_pos <= log[i].pos + k
        /\ log[i].pos + k < read_pos + Size
    BY <1>1, <1>2, OffsetsInside
  <2>2. log[i].pos + k # write_pos
    BY <1>1, <1>2
  <2> QED BY <2>1, <2>2, <1>2, SlotsDiffer
<1> QED BY <1>3 DEF Words

\* A writer that found room still has it: the reader only gives space back.
LEMMA RoomRemains ==
    ASSUME TypeOK, WithinCapacity, WriterLocals, NEW w \in Writers,
           pc[w] \in {"check", "advance"}, Fits(w)
    PROVE  /\ wr[w] = write_pos /\ len[w] \in PayloadSizes
           /\ Total(len[w]) \in Nat /\ Total(len[w]) >= 2
           /\ write_pos + Total(len[w]) <= read_pos + Size
           /\ write_pos < read_pos + Size
<1>1. /\ wr[w] = write_pos /\ rd[w] <= read_pos /\ len[w] \in PayloadSizes
      /\ rd[w] \in Nat /\ write_pos \in Nat /\ read_pos \in Nat /\ read_pos <= write_pos
  BY DEF WriterLocals, WriterOK, TypeOK, WithinCapacity
<1>2. Total(len[w]) \in Nat /\ Total(len[w]) >= 2
  BY <1>1, PayloadTotals
<1>3. (write_pos - rd[w]) + Total(len[w]) <= Size
  BY <1>1 DEF Fits
<1> QED BY <1>1, <1>2, <1>3, SizeAssumption

\* A writer between reservation and publication owns an unread, unpublished record.
LEMMA OwnerRecord ==
    ASSUME TypeOK, WriterLocals, NEW w \in Writers, pc[w] \in Owning
    PROVE  /\ idx[w] \in (num_reads_succeeded + 1)..Len(log)
           /\ idx[w] \in 1..Len(log)
           /\ log[idx[w]] = [pos |-> wr[w], len |-> len[w], pub |-> FALSE]
           /\ log[idx[w]].pos = wr[w] /\ log[idx[w]].len = len[w] /\ ~log[idx[w]].pub
           /\ len[w] \in PayloadSizes
<1>1. WriterOK(w)
  BY DEF WriterLocals
<1>2. /\ idx[w] \in (num_reads_succeeded + 1)..Len(log)
      /\ log[idx[w]] = [pos |-> wr[w], len |-> len[w], pub |-> FALSE]
      /\ len[w] \in PayloadSizes
  BY <1>1 DEF WriterOK, Owning
<1>3. idx[w] \in 1..Len(log)
  <2>1. num_reads_succeeded \in Nat /\ Len(log) \in Nat
    BY DEF TypeOK
  <2> QED BY <1>2, <2>1
<1> QED BY <1>2, <1>3

\* What appending to a sequence does to its length and its elements.
LEMMA AppendFacts ==
    ASSUME NEW S, NEW s \in Seq(S), NEW e \in S
    PROVE  /\ Append(s, e) \in Seq(S)
           /\ Len(s) \in Nat
           /\ Len(Append(s, e)) = Len(s) + 1
           /\ Append(s, e)[Len(s) + 1] = e
           /\ \A i \in 1..Len(s) : Append(s, e)[i] = s[i]
OBVIOUS

\* Moving a cursor over a record moves it forward.
LEMMA SumGrows ==
    ASSUME NEW x \in Nat, NEW y \in Nat
    PROVE  x + y \in Nat /\ x <= x + y
OBVIOUS

\* Publication changes one flag of one reservation.
LEMMA PublishedLog ==
    ASSUME TypeOK, NEW k \in 1..Len(log), log' = [log EXCEPT ![k].pub = TRUE]
    PROVE  /\ log' \in Seq(Reservation) /\ log' \in Seq([pos : Nat, len : PayloadSizes, pub : BOOLEAN])
           /\ Len(log') = Len(log)
           /\ \A i \in 1..Len(log) :
                 /\ log'[i].pos = log[i].pos /\ log'[i].len = log[i].len
                 /\ i = k => log'[i].pub
                 /\ i # k => log'[i] = log[i]
<1>1. log \in Seq(Reservation)
  BY DEF TypeOK, Reservation
<1>2. log[k] \in Reservation
  BY LogEntry
<1> DEFINE e == [log[k] EXCEPT !.pub = TRUE]
<1>3. /\ e \in Reservation /\ e.pub /\ e.pos = log[k].pos /\ e.len = log[k].len
  BY <1>2 DEF Reservation
<1>4. log' = [log EXCEPT ![k] = e]
  BY <1>1
<1> HIDE DEF e
<1>5. e \in Reservation
  BY <1>3
<1> DEFINE new == [log EXCEPT ![k] = e]
<1>6. /\ new \in Seq(Reservation) /\ Len(new) = Len(log)
      /\ \A i \in 1..Len(log) : new[i] = IF i = k THEN e ELSE log[i]
  <2>1. ASSUME NEW S, NEW t \in Seq(S), NEW i \in 1..Len(t), NEW x \in S
        PROVE  /\ [t EXCEPT ![i] = x] \in Seq(S) /\ Len([t EXCEPT ![i] = x]) = Len(t)
               /\ \A j \in 1..Len(t) : [t EXCEPT ![i] = x][j] = IF j = i THEN x ELSE t[j]
    BY ExceptSeq
  <2> QED BY <1>1, <1>5, <2>1
<1>7. log' = new
  BY <1>4
<1> HIDE DEF new
<1> QED BY <1>3, <1>6, <1>7 DEF Reservation

\* ----- Invariance -----

\* The ring as create and map_into leave it satisfies the inductive
\* invariant.
THEOREM InitRingInv == Init => RingInv
<1> SUFFICES ASSUME Init PROVE RingInv
  OBVIOUS
<1>1. TypeOK
  BY SizeAssumption DEF Init, TypeOK
<1>2. LogTiles /\ CursorOnRecord /\ WithinCapacity /\ HeadersTell /\ ReaderLocals /\ ReadsIntact
  BY SizeAssumption DEF Init, LogTiles, CursorOnRecord, WithinCapacity, HeadersTell, ReaderLocals, ReadsIntact
<1>3. LockExcludes /\ WriterLocals /\ OwnersDistinct
  BY DEF Init, LockExcludes, WriterLocals, OwnersDistinct, Critical, Owning, WriterOK
<1> QED BY <1>1, <1>2, <1>3 DEF RingInv

\* begin_write refusing a record too large for the ring.
LEMMA RefuseStep ==
    ASSUME RingInv, NEW w \in Writers, NEW n \in PayloadSizes, Refuse(w, n)
    PROVE  RingInv'
<1> USE DEF Refuse, meta, counters, wlocals, reader
<1>0. TypeOK /\ LogTiles /\ CursorOnRecord /\ WithinCapacity /\ LockExcludes
      /\ WriterLocals /\ OwnersDistinct /\ HeadersTell /\ ReaderLocals /\ ReadsIntact
  BY DEF RingInv
<1>1. TypeOK'
  BY <1>0 DEF TypeOK
<1>2. LogTiles'
  BY <1>0 DEF LogTiles, RecordEnd
<1>3. CursorOnRecord'
  BY <1>0 DEF CursorOnRecord
<1>4. WithinCapacity'
  BY <1>0 DEF WithinCapacity
<1>5. LockExcludes'
  BY <1>0 DEF LockExcludes, Critical, TypeOK
<1>6. WriterLocals'
  BY <1>0 DEF WriterLocals, WriterOK, Owning, Fits, TypeOK
<1>7. OwnersDistinct'
  BY <1>0 DEF OwnersDistinct, Owning, TypeOK
<1>8. HeadersTell'
  BY <1>0 DEF HeadersTell, RecordOK
<1>9. ReaderLocals'
  BY <1>0 DEF ReaderLocals
<1>10. ReadsIntact'
  BY <1>0 DEF ReadsIntact
<1> QED BY <1>1, <1>2, <1>3, <1>4, <1>5, <1>6, <1>7, <1>8, <1>9, <1>10 DEF RingInv

\* begin_write called with a record that can fit.
LEMMA BeginStep ==
    ASSUME RingInv, NEW w \in Writers, NEW n \in PayloadSizes, Begin(w, n)
    PROVE  RingInv'
<1> USE DEF Begin, meta, counters, wlocals, reader
<1>0. TypeOK /\ LogTiles /\ CursorOnRecord /\ WithinCapacity /\ LockExcludes
      /\ WriterLocals /\ OwnersDistinct /\ HeadersTell /\ ReaderLocals /\ ReadsIntact
  BY DEF RingInv
<1>1. TypeOK'
  BY <1>0, PayloadTotals DEF TypeOK
<1>2. LogTiles'
  BY <1>0 DEF LogTiles, RecordEnd
<1>3. CursorOnRecord'
  BY <1>0 DEF CursorOnRecord
<1>4. WithinCapacity'
  BY <1>0 DEF WithinCapacity
<1>5. LockExcludes'
  BY <1>0 DEF LockExcludes, Critical, TypeOK
<1>6. WriterLocals'
  BY <1>0 DEF WriterLocals, WriterOK, Owning, Fits, TypeOK
<1>7. OwnersDistinct'
  BY <1>0 DEF OwnersDistinct, Owning, TypeOK
<1>8. HeadersTell'
  BY <1>0 DEF HeadersTell, RecordOK
<1>9. ReaderLocals'
  BY <1>0 DEF ReaderLocals
<1>10. ReadsIntact'
  BY <1>0 DEF ReadsIntact
<1> QED BY <1>1, <1>2, <1>3, <1>4, <1>5, <1>6, <1>7, <1>8, <1>9, <1>10 DEF RingInv

\* The spinlock is taken: nobody else can be between lock and unlock.
LEMMA LockStep ==
    ASSUME RingInv, NEW w \in Writers, Lock(w)
    PROVE  RingInv'
<1> USE DEF Lock, meta, counters, wlocals, reader
<1>0. TypeOK /\ LogTiles /\ CursorOnRecord /\ WithinCapacity /\ LockExcludes
      /\ WriterLocals /\ OwnersDistinct /\ HeadersTell /\ ReaderLocals /\ ReadsIntact
  BY DEF RingInv
<1>1. TypeOK'
  BY <1>0 DEF TypeOK
<1>2. LogTiles'
  BY <1>0 DEF LogTiles, RecordEnd
<1>3. CursorOnRecord'
  BY <1>0 DEF CursorOnRecord
<1>4. WithinCapacity'
  BY <1>0 DEF WithinCapacity
<1>5. LockExcludes'
  BY <1>0 DEF LockExcludes, Critical, TypeOK
<1>6. WriterLocals'
  BY <1>0 DEF WriterLocals, WriterOK, Owning, Fits, TypeOK
<1>7. OwnersDistinct'
  BY <1>0 DEF OwnersDistinct, Owning, TypeOK
<1>8. HeadersTell'
  BY <1>0 DEF HeadersTell, RecordOK
<1>9. ReaderLocals'
  BY <1>0 DEF ReaderLocals
<1>10. ReadsIntact'
  BY <1>0 DEF ReadsIntact
<1> QED BY <1>1, <1>2, <1>3, <1>4, <1>5, <1>6, <1>7, <1>8, <1>9, <1>10 DEF RingInv

\* Both cursors loaded: under the lock write_pos is exact, read_pos a lower
\* bound.
LEMMA LoadCursorsStep ==
    ASSUME RingInv, NEW w \in Writers, LoadCursors(w)
    PROVE  RingInv'
<1> USE DEF LoadCursors, meta, counters, wlocals, reader
<1>0. TypeOK /\ LogTiles /\ CursorOnRecord /\ WithinCapacity /\ LockExcludes
      /\ WriterLocals /\ OwnersDistinct /\ HeadersTell /\ ReaderLocals /\ ReadsIntact
  BY DEF RingInv
<1>1. TypeOK'
  BY <1>0 DEF TypeOK
<1>2. LogTiles'
  BY <1>0 DEF LogTiles, RecordEnd
<1>3. CursorOnRecord'
  BY <1>0 DEF CursorOnRecord
<1>4. WithinCapacity'
  BY <1>0 DEF WithinCapacity
<1>5. LockExcludes'
  BY <1>0 DEF LockExcludes, Critical, TypeOK
<1>6. WriterLocals'
  BY <1>0 DEF WriterLocals, WriterOK, Owning, Fits, TypeOK
<1>7. OwnersDistinct'
  BY <1>0 DEF OwnersDistinct, Owning, TypeOK
<1>8. HeadersTell'
  BY <1>0 DEF HeadersTell, RecordOK
<1>9. ReaderLocals'
  BY <1>0 DEF ReaderLocals
<1>10. ReadsIntact'
  BY <1>0 DEF ReadsIntact
<1> QED BY <1>1, <1>2, <1>3, <1>4, <1>5, <1>6, <1>7, <1>8, <1>9, <1>10 DEF RingInv

\* begin_write finding the ring full.
LEMMA OverflowStep ==
    ASSUME RingInv, NEW w \in Writers, Overflow(w)
    PROVE  RingInv'
<1> USE DEF Overflow, meta, counters, wlocals, reader
<1>0. TypeOK /\ LogTiles /\ CursorOnRecord /\ WithinCapacity /\ LockExcludes
      /\ WriterLocals /\ OwnersDistinct /\ HeadersTell /\ ReaderLocals /\ ReadsIntact
  BY DEF RingInv
<1>1. TypeOK'
  BY <1>0 DEF TypeOK
<1>2. LogTiles'
  BY <1>0 DEF LogTiles, RecordEnd
<1>3. CursorOnRecord'
  BY <1>0 DEF CursorOnRecord
<1>4. WithinCapacity'
  BY <1>0 DEF WithinCapacity
<1>5. LockExcludes'
  BY <1>0 DEF LockExcludes, Critical, TypeOK
<1>6. WriterLocals'
  BY <1>0 DEF WriterLocals, WriterOK, Owning, Fits, TypeOK
<1>7. OwnersDistinct'
  BY <1>0 DEF OwnersDistinct, Owning, TypeOK
<1>8. HeadersTell'
  BY <1>0 DEF HeadersTell, RecordOK
<1>9. ReaderLocals'
  BY <1>0 DEF ReaderLocals
<1>10. ReadsIntact'
  BY <1>0 DEF ReadsIntact
<1> QED BY <1>1, <1>2, <1>3, <1>4, <1>5, <1>6, <1>7, <1>8, <1>9, <1>10 DEF RingInv

\* The header zeroed: the word at write_pos is no unread reservation's.
LEMMA ZeroHeaderStep ==
    ASSUME RingInv, NEW w \in Writers, ZeroHeader(w)
    PROVE  RingInv'
<1> USE DEF ZeroHeader, meta, counters, wlocals, reader
<1>0. TypeOK /\ LogTiles /\ CursorOnRecord /\ WithinCapacity /\ LockExcludes
      /\ WriterLocals /\ OwnersDistinct /\ HeadersTell /\ ReaderLocals /\ ReadsIntact
  BY DEF RingInv
<1>a. /\ wr[w] = write_pos /\ write_pos < read_pos + Size
      /\ Slot(wr[w]) \in 0..(Size - 1) /\ data'[Slot(wr[w])] = 0
      /\ \A s \in 0..(Size - 1) : s # Slot(wr[w]) => data'[s] = data[s]
  BY <1>0, RoomRemains, SlotDivision DEF TypeOK
<1>1. TypeOK'
  BY <1>0 DEF TypeOK
<1>2. LogTiles'
  BY <1>0 DEF LogTiles, RecordEnd
<1>3. CursorOnRecord'
  BY <1>0 DEF CursorOnRecord
<1>4. WithinCapacity'
  BY <1>0 DEF WithinCapacity
<1>5. LockExcludes'
  BY <1>0 DEF LockExcludes, Critical, TypeOK
<1>6. WriterLocals'
  <2>1. ASSUME NEW v \in Writers, pc[v] \in Owning, NEW s \in PayloadSlots(wr[v], len[v])
        PROVE  data'[s] = data[s]
    <3>1. /\ idx[v] \in (num_reads_succeeded + 1)..Len(log) /\ idx[v] \in 1..Len(log)
          /\ log[idx[v]].pos = wr[v] /\ log[idx[v]].len = len[v]
      BY <1>0, <2>1, OwnerRecord
    <3>2. s \in Words(idx[v]) /\ s \in 0..(Size - 1)
      BY <1>0, <2>1, <3>1, WordsOfRecord
    <3>3. Slot(wr[w]) \notin Words(idx[v])
      BY <1>0, <1>a, <3>1, WritePosFree
    <3> QED BY <1>a, <3>2, <3>3
  <2>2. \A v \in Writers : v # w => pc[v] # "advance"
    BY <1>0 DEF LockExcludes, Critical
  <2> SUFFICES ASSUME NEW v \in Writers PROVE WriterOK(v)'
    BY DEF WriterLocals
  <2>3. WriterOK(v)
    BY <1>0 DEF WriterLocals
  <2>4. CASE v = w
    BY <2>3, <2>4, <1>0, <1>a DEF WriterOK, Fits, Owning, TypeOK
  <2>5. CASE v # w
    <3>1. pc'[v] = pc[v] /\ pc[v] # "advance"
      BY <2>5, <2>2, <1>0 DEF TypeOK
    <3> QED BY <3>1, <2>1, <2>3, <1>0 DEF WriterOK, Owning
  <2> QED BY <2>4, <2>5
<1>7. OwnersDistinct'
  BY <1>0 DEF OwnersDistinct, Owning, TypeOK
<1>8. HeadersTell'
  <2> SUFFICES ASSUME NEW i \in (num_reads_succeeded + 1)..Len(log)
               PROVE  /\ data'[Slot(log[i].pos)] = data[Slot(log[i].pos)]
                      /\ \A s \in PayloadSlots(log[i].pos, log[i].len) : data'[s] = data[s]
    BY <1>0 DEF HeadersTell, RecordOK
  <2>1. Slot(wr[w]) \notin Words(i)
    BY <1>0, <1>a, WritePosFree
  <2>2. i \in 1..Len(log)
    BY <1>0 DEF TypeOK
  <2> QED BY <1>0, <1>a, <2>1, <2>2, WordsOfRecord
<1>9. ReaderLocals'
  BY <1>0 DEF ReaderLocals
<1>10. ReadsIntact'
  BY <1>0 DEF ReadsIntact
<1> QED BY <1>1, <1>2, <1>3, <1>4, <1>5, <1>6, <1>7, <1>8, <1>9, <1>10 DEF RingInv

\* The spinlock given back.
LEMMA UnlockStep ==
    ASSUME RingInv, NEW w \in Writers, Unlock(w)
    PROVE  RingInv'
<1> USE DEF Unlock, meta, counters, wlocals, reader
<1>0. TypeOK /\ LogTiles /\ CursorOnRecord /\ WithinCapacity /\ LockExcludes
      /\ WriterLocals /\ OwnersDistinct /\ HeadersTell /\ ReaderLocals /\ ReadsIntact
  BY DEF RingInv
<1>1. TypeOK'
  BY <1>0 DEF TypeOK
<1>2. LogTiles'
  BY <1>0 DEF LogTiles, RecordEnd
<1>3. CursorOnRecord'
  BY <1>0 DEF CursorOnRecord
<1>4. WithinCapacity'
  BY <1>0 DEF WithinCapacity
<1>5. LockExcludes'
  BY <1>0 DEF LockExcludes, Critical, TypeOK
<1>6. WriterLocals'
  BY <1>0 DEF WriterLocals, WriterOK, Owning, Fits, TypeOK
<1>7. OwnersDistinct'
  BY <1>0 DEF OwnersDistinct, Owning, TypeOK
<1>8. HeadersTell'
  BY <1>0 DEF HeadersTell, RecordOK
<1>9. ReaderLocals'
  BY <1>0 DEF ReaderLocals
<1>10. ReadsIntact'
  BY <1>0 DEF ReadsIntact
<1> QED BY <1>1, <1>2, <1>3, <1>4, <1>5, <1>6, <1>7, <1>8, <1>9, <1>10 DEF RingInv

\* The caller's stores into the payload: they touch no other unread
\* reservation.
LEMMA FillStep ==
    ASSUME RingInv, NEW w \in Writers, Fill(w)
    PROVE  RingInv'
<1> USE DEF Fill, meta, counters, wlocals, reader
<1>0. TypeOK /\ LogTiles /\ CursorOnRecord /\ WithinCapacity /\ LockExcludes
      /\ WriterLocals /\ OwnersDistinct /\ HeadersTell /\ ReaderLocals /\ ReadsIntact
  BY DEF RingInv
<1>a. /\ pc[w] \in Owning /\ idx[w] \in (num_reads_succeeded + 1)..Len(log) /\ idx[w] \in 1..Len(log)
      /\ log[idx[w]].pos = wr[w] /\ log[idx[w]].len = len[w] /\ ~log[idx[w]].pub
  <2>1. pc[w] \in Owning BY DEF Owning
  <2> QED BY <1>0, <2>1, OwnerRecord
<1>b. /\ idx[w] \in Nat
      /\ \A s \in 0..(Size - 1) :
            data'[s] = IF s \in PayloadSlots(wr[w], len[w]) THEN idx[w] ELSE data[s]
  BY <1>0 DEF TypeOK
<1>1. TypeOK'
  BY <1>0, <1>b DEF TypeOK
<1>2. LogTiles'
  BY <1>0 DEF LogTiles, RecordEnd
<1>3. CursorOnRecord'
  BY <1>0 DEF CursorOnRecord
<1>4. WithinCapacity'
  BY <1>0 DEF WithinCapacity
<1>5. LockExcludes'
  BY <1>0 DEF LockExcludes, Critical, TypeOK
<1>6. WriterLocals'
  <2> SUFFICES ASSUME NEW v \in Writers PROVE WriterOK(v)'
    BY DEF WriterLocals
  <2>3. WriterOK(v)
    BY <1>0 DEF WriterLocals
  <2>4. CASE v = w
    <3>1. \A s \in PayloadSlots(wr[w], len[w]) : data'[s] = idx[w]
      BY <1>0, <1>a, <1>b, WordsOfRecord
    <3> QED BY <2>3, <2>4, <3>1, <1>0 DEF WriterOK, Owning, TypeOK
  <2>5. CASE v # w
    <3>1. pc'[v] = pc[v]
      BY <2>5, <1>0 DEF TypeOK
    <3>2. ASSUME pc[v] = "publish" PROVE \A s \in PayloadSlots(wr[v], len[v]) : data'[s] = data[s]
      <4>1. pc[v] \in Owning BY <3>2 DEF Owning
      <4>2. /\ idx[v] \in (num_reads_succeeded + 1)..Len(log) /\ idx[v] \in 1..Len(log)
            /\ log[idx[v]].pos = wr[v] /\ log[idx[v]].len = len[v]
        BY <1>0, <4>1, OwnerRecord
      <4>3. idx[v] # idx[w]
        BY <1>0, <1>a, <4>1, <2>5 DEF OwnersDistinct
      <4>4. Words(idx[v]) \cap Words(idx[w]) = {}
        BY <1>0, <1>a, <4>2, <4>3, WordsDisjoint
      <4> QED BY <1>0, <1>a, <1>b, <4>2, <4>4, WordsOfRecord
    <3>3. ASSUME pc[v] = "advance" PROVE data'[Slot(wr[v])] = data[Slot(wr[v])]
      <4>1. Fits(v)
        BY <2>3, <3>3 DEF WriterOK
      <4>2. wr[v] = write_pos /\ write_pos < read_pos + Size
        BY <1>0, <3>3, <4>1, RoomRemains
      <4>3. Slot(wr[v]) \notin Words(idx[w])
        BY <1>0, <1>a, <4>2, WritePosFree
      <4>4. Slot(wr[v]) \in 0..(Size - 1)
        BY <1>0, SlotDivision DEF TypeOK
      <4> QED BY <1>0, <1>a, <1>b, <4>3, <4>4, WordsOfRecord
    <3> QED BY <3>1, <3>2, <3>3, <2>3, <1>0 DEF WriterOK, Owning, Fits
  <2> QED BY <2>4, <2>5
<1>7. OwnersDistinct'
  BY <1>0 DEF OwnersDistinct, Owning, TypeOK
<1>8. HeadersTell'
  <2> SUFFICES ASSUME NEW i \in (num_reads_succeeded + 1)..Len(log)
               PROVE  RecordOK(i)'
    BY <1>0 DEF HeadersTell
  <2>0. RecordOK(i)
    BY <1>0 DEF HeadersTell
  <2>1. i \in 1..Len(log)
    BY <1>0 DEF TypeOK
  <2>2. ASSUME i = idx[w]
        PROVE  data'[Slot(log[i].pos)] = data[Slot(log[i].pos)]
    <3>1. Slot(log[i].pos) \notin PayloadSlots(log[i].pos, log[i].len)
      BY <1>0, HeaderNotPayload
    <3> QED BY <1>0, <1>a, <1>b, <2>1, <2>2, <3>1, WordsOfRecord
  <2>3. ASSUME i # idx[w]
        PROVE  /\ data'[Slot(log[i].pos)] = data[Slot(log[i].pos)]
               /\ \A s \in PayloadSlots(log[i].pos, log[i].len) : data'[s] = data[s]
    <3>1. Words(i) \cap Words(idx[w]) = {}
      BY <1>0, <1>a, <2>3, WordsDisjoint
    <3> QED BY <1>0, <1>a, <1>b, <2>1, <3>1, WordsOfRecord
  <2>4. /\ data'[Slot(log[i].pos)] = data[Slot(log[i].pos)]
        /\ log[i].pub => \A s \in PayloadSlots(log[i].pos, log[i].len) : data'[s] = data[s]
    BY <1>a, <2>2, <2>3
  <2> QED BY <2>0, <2>4 DEF RecordOK
<1>9. ReaderLocals'
  BY <1>0 DEF ReaderLocals
<1>10. ReadsIntact'
  BY <1>0 DEF ReadsIntact
<1> QED BY <1>1, <1>2, <1>3, <1>4, <1>5, <1>6, <1>7, <1>8, <1>9, <1>10 DEF RingInv

\* begin_read seeing that something is reserved.
LEMMA PollStep ==
    ASSUME RingInv, Poll
    PROVE  RingInv'
<1> USE DEF Poll, meta, counters, wlocals, reader
<1>0. TypeOK /\ LogTiles /\ CursorOnRecord /\ WithinCapacity /\ LockExcludes
      /\ WriterLocals /\ OwnersDistinct /\ HeadersTell /\ ReaderLocals /\ ReadsIntact
  BY DEF RingInv
<1>1. TypeOK'
  BY <1>0 DEF TypeOK
<1>2. LogTiles'
  BY <1>0 DEF LogTiles, RecordEnd
<1>3. CursorOnRecord'
  BY <1>0 DEF CursorOnRecord
<1>4. WithinCapacity'
  BY <1>0 DEF WithinCapacity
<1>5. LockExcludes'
  BY <1>0 DEF LockExcludes, Critical, TypeOK
<1>6. WriterLocals'
  BY <1>0 DEF WriterLocals, WriterOK, Owning, Fits, TypeOK
<1>7. OwnersDistinct'
  BY <1>0 DEF OwnersDistinct, Owning, TypeOK
<1>8. HeadersTell'
  BY <1>0 DEF HeadersTell, RecordOK
<1>9. ReaderLocals'
  BY <1>0 DEF ReaderLocals, CursorOnRecord, TypeOK
<1>10. ReadsIntact'
  BY <1>0 DEF ReadsIntact
<1> QED BY <1>1, <1>2, <1>3, <1>4, <1>5, <1>6, <1>7, <1>8, <1>9, <1>10 DEF RingInv

\* begin_read meeting a reservation not yet published.
LEMMA PeekUnpublishedStep ==
    ASSUME RingInv, PeekUnpublished
    PROVE  RingInv'
<1> USE DEF PeekUnpublished, meta, counters, wlocals, reader
<1>0. TypeOK /\ LogTiles /\ CursorOnRecord /\ WithinCapacity /\ LockExcludes
      /\ WriterLocals /\ OwnersDistinct /\ HeadersTell /\ ReaderLocals /\ ReadsIntact
  BY DEF RingInv
<1>1. TypeOK'
  BY <1>0 DEF TypeOK
<1>2. LogTiles'
  BY <1>0 DEF LogTiles, RecordEnd
<1>3. CursorOnRecord'
  BY <1>0 DEF CursorOnRecord
<1>4. WithinCapacity'
  BY <1>0 DEF WithinCapacity
<1>5. LockExcludes'
  BY <1>0 DEF LockExcludes, Critical, TypeOK
<1>6. WriterLocals'
  BY <1>0 DEF WriterLocals, WriterOK, Owning, Fits, TypeOK
<1>7. OwnersDistinct'
  BY <1>0 DEF OwnersDistinct, Owning, TypeOK
<1>8. HeadersTell'
  BY <1>0 DEF HeadersTell, RecordOK
<1>9. ReaderLocals'
  BY <1>0 DEF ReaderLocals
<1>10. ReadsIntact'
  BY <1>0 DEF ReadsIntact
<1> QED BY <1>1, <1>2, <1>3, <1>4, <1>5, <1>6, <1>7, <1>8, <1>9, <1>10 DEF RingInv

\* begin_read meeting a published record: the header is that record's length.
LEMMA PeekRecordStep ==
    ASSUME RingInv, PeekRecord
    PROVE  RingInv'
<1> USE DEF PeekRecord, meta, counters, wlocals, reader
<1>0. TypeOK /\ LogTiles /\ CursorOnRecord /\ WithinCapacity /\ LockExcludes
      /\ WriterLocals /\ OwnersDistinct /\ HeadersTell /\ ReaderLocals /\ ReadsIntact
  BY DEF RingInv
<1>a. /\ num_reads_succeeded < Len(log)
      /\ log[num_reads_succeeded + 1].pub
      /\ data[Slot(read_pos)] = log[num_reads_succeeded + 1].len
      /\ data[Slot(read_pos)] \in Nat
  <2>1. num_reads_succeeded < Len(log) /\ num_reads_succeeded \in Nat /\ Len(log) \in Nat
    BY <1>0 DEF ReaderLocals, TypeOK
  <2>2. num_reads_succeeded + 1 \in (num_reads_succeeded + 1)..Len(log) /\ num_reads_succeeded # Len(log)
    BY <2>1
  <2>3. RecordOK(num_reads_succeeded + 1) /\ read_pos = log[num_reads_succeeded + 1].pos
    BY <1>0, <2>2 DEF HeadersTell, CursorOnRecord
  <2>4. Slot(read_pos) \in 0..(Size - 1)
    BY <1>0, SlotDivision DEF TypeOK
  <2>5. data[Slot(read_pos)] \in Nat
    BY <1>0, <2>4 DEF TypeOK
  <2> QED BY <2>1, <2>3, <2>5 DEF RecordOK
<1>1. TypeOK'
  BY <1>0, <1>a DEF TypeOK
<1>2. LogTiles'
  BY <1>0 DEF LogTiles, RecordEnd
<1>3. CursorOnRecord'
  BY <1>0 DEF CursorOnRecord
<1>4. WithinCapacity'
  BY <1>0 DEF WithinCapacity
<1>5. LockExcludes'
  BY <1>0 DEF LockExcludes, Critical, TypeOK
<1>6. WriterLocals'
  BY <1>0 DEF WriterLocals, WriterOK, Owning, Fits, TypeOK
<1>7. OwnersDistinct'
  BY <1>0 DEF OwnersDistinct, Owning, TypeOK
<1>8. HeadersTell'
  BY <1>0 DEF HeadersTell, RecordOK
<1>9. ReaderLocals'
  BY <1>0, <1>a DEF ReaderLocals, TypeOK
<1>10. ReadsIntact'
  BY <1>0 DEF ReadsIntact
<1> QED BY <1>1, <1>2, <1>3, <1>4, <1>5, <1>6, <1>7, <1>8, <1>9, <1>10 DEF RingInv

\* The recorder's use of the slice: the bytes are the head record's own.
LEMMA ProcessStep ==
    ASSUME RingInv, Process
    PROVE  RingInv'
<1> USE DEF Process, meta, counters, wlocals, reader
<1>0. TypeOK /\ LogTiles /\ CursorOnRecord /\ WithinCapacity /\ LockExcludes
      /\ WriterLocals /\ OwnersDistinct /\ HeadersTell /\ ReaderLocals /\ ReadsIntact
  BY DEF RingInv
<1> DEFINE h == num_reads_succeeded + 1
<1>a. /\ num_reads_succeeded \in Nat /\ Len(log) \in Nat /\ num_reads_succeeded < Len(log)
      /\ log[h].pub /\ rlen = log[h].len /\ Len(out) = num_reads_succeeded
      /\ \A s \in PayloadSlots(read_pos, rlen) : data[s] = h /\ data[s] \in Nat
      /\ PayloadSlots(read_pos, rlen) # {}
  <2>1. /\ num_reads_succeeded < Len(log) /\ num_reads_succeeded \in Nat /\ Len(log) \in Nat
        /\ log[h].pub /\ rlen = log[h].len /\ Len(out) = num_reads_succeeded
    BY <1>0 DEF ReaderLocals, TypeOK
  <2>2. h \in (num_reads_succeeded + 1)..Len(log) /\ h \in 1..Len(log) /\ num_reads_succeeded # Len(log) /\ h \in Nat
    BY <2>1
  <2>3. RecordOK(h) /\ read_pos = log[h].pos
    BY <1>0, <2>2 DEF HeadersTell, CursorOnRecord
  <2>4. PayloadSlots(read_pos, rlen) # {}
    <3>1. 1 \in 1..(Total(rlen) - 1)
      BY <1>0, <2>1, <2>2, LogEntry
    <3> QED BY <3>1 DEF PayloadSlots
  <2> QED BY <2>1, <2>2, <2>3, <2>4 DEF RecordOK
<1>1. TypeOK'
  <2>1. \A s \in PayloadSlots(read_pos, rlen) : data[s] \in Nat
    BY <1>0, <1>a
  <2>2. [len |-> rlen, val |-> {data[s] : s \in PayloadSlots(read_pos, rlen)}] \in [len : Nat, val : SUBSET Nat]
    BY <1>0, <2>1 DEF TypeOK
  <2>3. out' \in Seq([len : Nat, val : SUBSET Nat])
    BY <1>0, <2>2 DEF TypeOK
  <2> QED BY <1>0, <2>3 DEF TypeOK
<1>2. LogTiles'
  BY <1>0 DEF LogTiles, RecordEnd
<1>3. CursorOnRecord'
  BY <1>0 DEF CursorOnRecord
<1>4. WithinCapacity'
  BY <1>0 DEF WithinCapacity
<1>5. LockExcludes'
  BY <1>0 DEF LockExcludes, Critical, TypeOK
<1>6. WriterLocals'
  BY <1>0 DEF WriterLocals, WriterOK, Owning, Fits, TypeOK
<1>7. OwnersDistinct'
  BY <1>0 DEF OwnersDistinct, Owning, TypeOK
<1>8. HeadersTell'
  BY <1>0 DEF HeadersTell, RecordOK
<1>9. ReaderLocals'
  BY <1>0, <1>a DEF ReaderLocals, TypeOK
<1>10. ReadsIntact'
  <2>1. {data[s] : s \in PayloadSlots(read_pos, rlen)} = {h}
    BY <1>a
  <2>2. Len(out) = num_reads_succeeded /\ Len(out) \in Nat /\ Len(out') = Len(out) + 1
    BY <1>0, <1>a DEF TypeOK
  <2> DEFINE e == [len |-> log[h].len, val |-> {h}]
  <2>3. out' = Append(out, e)
    BY <1>a, <2>1
  <2>4. e \in [len : Nat, val : SUBSET Nat] /\ out \in Seq([len : Nat, val : SUBSET Nat])
    BY <1>0, <1>a DEF TypeOK
  <2>5. out'[h] = e /\ \A i \in 1..Len(out) : out'[i] = out[i]
    <3> HIDE DEF e
    <3> QED BY <1>a, <2>3, <2>4, AppendFacts
  <2>6. \A i \in 1..Len(out') : i = h \/ i \in 1..Len(out)
    BY <1>a, <2>2
  <2>7. Len(out') <= Len(log)
    BY <1>a, <2>2
  <2>8. log' = log
    OBVIOUS
  <2>9. ASSUME NEW i \in 1..Len(out')
        PROVE  log[i].pub /\ out'[i] = [len |-> log[i].len, val |-> {i}]
    <3> HIDE DEF Process, h
    <3>1. CASE i = h
      <4>1. out'[i] = e /\ e = [len |-> log[i].len, val |-> {i}] BY <3>1, <2>5
      <4> QED BY <3>1, <4>1, <1>a
    <3>2. CASE i \in 1..Len(out)
      <4>1. out'[i] = out[i] BY <3>2, <2>5
      <4> QED BY <1>0, <3>2, <4>1 DEF ReadsIntact
    <3> QED BY <3>1, <3>2, <2>6
  <2> HIDE DEF Process
  <2> QED BY <2>7, <2>8, <2>9 DEF ReadsIntact
<1> QED BY <1>1, <1>2, <1>3, <1>4, <1>5, <1>6, <1>7, <1>8, <1>9, <1>10 DEF RingInv

\* end_read: the cursor goes to the start of the next reservation.
LEMMA EndReadStep ==
    ASSUME RingInv, EndRead
    PROVE  RingInv'
<1> USE DEF EndRead, meta, counters, wlocals, reader
<1>0. TypeOK /\ LogTiles /\ CursorOnRecord /\ WithinCapacity /\ LockExcludes
      /\ WriterLocals /\ OwnersDistinct /\ HeadersTell /\ ReaderLocals /\ ReadsIntact
  BY DEF RingInv
<1> DEFINE h == num_reads_succeeded + 1
<1>a. /\ num_reads_succeeded \in Nat /\ Len(log) \in Nat /\ h \in 1..Len(log)
      /\ num_reads_succeeded' = h /\ log[h].pub /\ Len(out) = h
      /\ read_pos = log[h].pos /\ read_pos' = log[h].pos + Total(log[h].len)
      /\ log[h].pos \in Nat /\ Total(log[h].len) \in Nat
  <2>1. /\ num_reads_succeeded < Len(log) /\ num_reads_succeeded \in Nat /\ Len(log) \in Nat
        /\ log[h].pub /\ rlen = log[h].len /\ Len(out) = h
    BY <1>0 DEF ReaderLocals, TypeOK
  <2>2. h \in 1..Len(log) /\ num_reads_succeeded # Len(log)
    BY <2>1
  <2>3. read_pos = log[h].pos
    BY <1>0, <2>2 DEF CursorOnRecord
  <2>4. log[h].pos \in Nat /\ Total(log[h].len) \in Nat
    BY <1>0, <2>2, LogEntry
  <2> QED BY <2>1, <2>2, <2>3, <2>4
<1>b. read_pos' \in Nat /\ read_pos <= read_pos' /\ h \in Nat
  BY <1>a, SumGrows
<1>1. TypeOK'
  <2> HIDE DEF h
  <2> QED BY <1>0, <1>a, <1>b DEF TypeOK
<1>2. LogTiles'
  BY <1>0 DEF LogTiles, RecordEnd
<1>3. CursorOnRecord'
  <2>1. CASE h = Len(log)
    <3>1. RecordEnd(h) = write_pos
      BY <1>0, <1>a, <2>1 DEF LogTiles
    <3> QED BY <1>0, <1>a, <2>1, <3>1 DEF CursorOnRecord, RecordEnd
  <2>2. CASE h # Len(log)
    <3>1. log[h + 1].pos = RecordEnd(h)
      BY <1>0, <1>a, <2>2 DEF LogTiles
    <3> QED BY <1>0, <1>a, <2>2, <3>1 DEF CursorOnRecord, RecordEnd
  <2> QED BY <2>1, <2>2
<1>4. WithinCapacity'
  <2>1. RecordEnd(h) <= write_pos /\ write_pos \in Nat /\ read_pos \in Nat /\ write_pos - read_pos <= Size
    BY <1>0, <1>a DEF LogTiles, TypeOK, WithinCapacity
  <2>2. read_pos' <= write_pos /\ read_pos <= read_pos' /\ read_pos' \in Nat
    BY <1>a, <2>1 DEF RecordEnd
  <2> QED BY <2>1, <2>2, SizeAssumption DEF WithinCapacity
<1>5. LockExcludes'
  BY <1>0 DEF LockExcludes, Critical, TypeOK
<1>6. WriterLocals'
  <2> SUFFICES ASSUME NEW v \in Writers PROVE WriterOK(v)'
    BY DEF WriterLocals
  <2>1. WriterOK(v)
    BY <1>0 DEF WriterLocals
  <2>2. ASSUME pc[v] \in Owning PROVE idx[v] \in (h + 1)..Len(log)
    <3>1. /\ idx[v] \in (num_reads_succeeded + 1)..Len(log) /\ ~log[idx[v]].pub
      BY <1>0, <2>2, OwnerRecord
    <3>2. idx[v] # h
      BY <3>1, <1>a
    <3> QED BY <3>1, <3>2, <1>a
  <2>3. ASSUME rd[v] <= read_pos PROVE rd[v] <= read_pos'
    <3>1. rd[v] \in Nat /\ read_pos \in Nat
      BY <1>0 DEF TypeOK
    <3> QED BY <1>b, <2>3, <3>1
  <2> QED BY <2>1, <2>2, <2>3, <1>a DEF WriterOK, Fits
<1>7. OwnersDistinct'
  BY <1>0 DEF OwnersDistinct, Owning, TypeOK
<1>8. HeadersTell'
  <2> SUFFICES ASSUME NEW i \in (h + 1)..Len(log) PROVE RecordOK(i)'
    BY <1>0, <1>a DEF HeadersTell
  <2>1. RecordOK(i)
    BY <1>0, <1>a DEF HeadersTell
  <2> QED BY <2>1 DEF RecordOK
<1>9. ReaderLocals'
  BY <1>0, <1>a DEF ReaderLocals, TypeOK
<1>10. ReadsIntact'
  BY <1>0 DEF ReadsIntact
<1> QED BY <1>1, <1>2, <1>3, <1>4, <1>5, <1>6, <1>7, <1>8, <1>9, <1>10 DEF RingInv

\* end_write's store of the header publishes the writer's own reservation.
LEMMA EndWriteStep ==
    ASSUME RingInv, NEW w \in Writers, EndWrite(w)
    PROVE  RingInv'
<1> USE DEF EndWrite, meta, counters, wlocals, reader
<1>0. TypeOK /\ LogTiles /\ CursorOnRecord /\ WithinCapacity /\ LockExcludes
      /\ WriterLocals /\ OwnersDistinct /\ HeadersTell /\ ReaderLocals /\ ReadsIntact
  BY DEF RingInv
<1>a. /\ pc[w] \in Owning /\ idx[w] \in (num_reads_succeeded + 1)..Len(log) /\ idx[w] \in 1..Len(log)
      /\ log[idx[w]].pos = wr[w] /\ log[idx[w]].len = len[w] /\ ~log[idx[w]].pub
  <2>1. pc[w] \in Owning BY DEF Owning
  <2> QED BY <1>0, <2>1, OwnerRecord
<1>b. len[w] \in Nat /\ Slot(wr[w]) \in 0..(Size - 1)
  BY <1>0, SlotDivision DEF TypeOK
<1>c. /\ data'[Slot(wr[w])] = len[w]
      /\ \A s \in 0..(Size - 1) : s # Slot(wr[w]) => data'[s] = data[s]
  BY <1>0, <1>b DEF TypeOK
<1>d. /\ log' \in Seq(Reservation) /\ log' \in Seq([pos : Nat, len : PayloadSizes, pub : BOOLEAN])
      /\ Len(log') = Len(log)
      /\ \A i \in 1..Len(log) :
            /\ log'[i].pos = log[i].pos /\ log'[i].len = log[i].len
            /\ i = idx[w] => log'[i].pub
            /\ i # idx[w] => log'[i] = log[i]
  BY <1>0, <1>a, PublishedLog
<1>1. TypeOK'
  BY <1>0, <1>b, <1>d DEF TypeOK
<1>2. LogTiles'
  <2>1. \A i \in 1..Len(log) : RecordEnd(i)' = RecordEnd(i)
    BY <1>d DEF RecordEnd
  <2> HIDE DEF EndWrite
  <2>2. Len(log') = Len(log) /\ Len(log) \in Nat /\ write_pos' = write_pos
    BY <1>0, <1>d DEF TypeOK, EndWrite
  <2>3. \A i \in 1..Len(log) : i # Len(log) => i + 1 \in 1..Len(log)
    BY <2>2
  <2> QED BY <1>0, <1>d, <2>1, <2>2, <2>3 DEF LogTiles
<1>3. CursorOnRecord'
  <2>1. num_reads_succeeded # Len(log) => num_reads_succeeded + 1 \in 1..Len(log)
    <3>1. num_reads_succeeded \in Nat /\ Len(log) \in Nat /\ num_reads_succeeded <= Len(log)
      BY <1>0 DEF TypeOK, CursorOnRecord
    <3> QED BY <3>1
  <2> QED BY <1>0, <1>d, <2>1 DEF CursorOnRecord
<1>4. WithinCapacity'
  BY <1>0 DEF WithinCapacity
<1>5. LockExcludes'
  BY <1>0 DEF LockExcludes, Critical, TypeOK
<1>6. WriterLocals'
  <2> SUFFICES ASSUME NEW v \in Writers PROVE WriterOK(v)'
    BY DEF WriterLocals
  <2>1. WriterOK(v)
    BY <1>0 DEF WriterLocals
  <2>2. CASE v = w
    BY <2>2, <1>0 DEF WriterOK, Owning, TypeOK
  <2>3. CASE v # w
    <3>1. pc'[v] = pc[v]
      BY <2>3, <1>0 DEF TypeOK
    <3>2. ASSUME pc[v] \in Owning
          PROVE  /\ log'[idx[v]] = log[idx[v]]
                 /\ \A s \in PayloadSlots(wr[v], len[v]) : data'[s] = data[s]
      <4>1. /\ idx[v] \in (num_reads_succeeded + 1)..Len(log) /\ idx[v] \in 1..Len(log)
            /\ log[idx[v]].pos = wr[v] /\ log[idx[v]].len = len[v]
        BY <1>0, <3>2, OwnerRecord
      <4>2. idx[v] # idx[w]
        BY <1>0, <1>a, <3>2, <2>3 DEF OwnersDistinct
      <4>3. Words(idx[v]) \cap Words(idx[w]) = {}
        BY <1>0, <1>a, <4>1, <4>2, WordsDisjoint
      <4>4. log'[idx[v]] = log[idx[v]]
        BY <1>d, <4>1, <4>2
      <4> QED BY <1>0, <1>a, <1>c, <4>1, <4>3, <4>4, WordsOfRecord
    <3>3. ASSUME pc[v] = "advance" PROVE data'[Slot(wr[v])] = data[Slot(wr[v])]
      <4>1. Fits(v)
        BY <2>1, <3>3 DEF WriterOK
      <4>2. wr[v] = write_pos /\ write_pos < read_pos + Size
        BY <1>0, <3>3, <4>1, RoomRemains
      <4>3. Slot(wr[v]) \notin Words(idx[w])
        BY <1>0, <1>a, <4>2, WritePosFree
      <4>4. Slot(wr[v]) \in 0..(Size - 1)
        BY <1>0, SlotDivision DEF TypeOK
      <4> QED BY <1>0, <1>a, <1>c, <4>3, <4>4, WordsOfRecord
    <3>4. Len(log') = Len(log) /\ UNCHANGED <<write_pos, read_pos, num_reads_succeeded, len, wr, rd, idx>>
      BY <1>d
    <3> HIDE DEF EndWrite
    <3> QED BY <3>1, <3>2, <3>3, <3>4, <2>1 DEF WriterOK, Owning, Fits
  <2> QED BY <2>2, <2>3
<1>7. OwnersDistinct'
  BY <1>0 DEF OwnersDistinct, Owning, TypeOK
<1>8. HeadersTell'
  <2> SUFFICES ASSUME NEW i \in (num_reads_succeeded + 1)..Len(log)
               PROVE  RecordOK(i)'
    BY <1>0, <1>d DEF HeadersTell
  <2>0. RecordOK(i)
    BY <1>0 DEF HeadersTell
  <2>1. i \in 1..Len(log)
    BY <1>0, SMTT(30) DEF TypeOK
  <2>2. CASE i = idx[w]
    <3>1. Slot(log[i].pos) \notin PayloadSlots(log[i].pos, log[i].len)
      BY <1>0, HeaderNotPayload
    <3>2. log'[i].pub /\ log'[i].pos = wr[w] /\ log'[i].len = len[w] /\ log[i].pos = wr[w] /\ log[i].len = len[w]
      BY <1>a, <1>d, <2>1, <2>2
    <3>3. \A s \in PayloadSlots(wr[w], len[w]) : data'[s] = data[s] /\ data[s] = i
      BY <1>0, <1>a, <1>c, <2>1, <2>2, <3>1, WordsOfRecord DEF WriterLocals, WriterOK
    <3>4. data'[Slot(wr[w])] = len[w]
      BY <1>c
    <3> HIDE DEF EndWrite
    <3> QED BY <3>2, <3>3, <3>4 DEF RecordOK
  <2>3. CASE i # idx[w]
    <3>1. Words(i) \cap Words(idx[w]) = {}
      BY <1>0, <1>a, <2>3, WordsDisjoint
    <3>2. log'[i] = log[i]
      BY <1>d, <2>1, <2>3
    <3>3. /\ data'[Slot(log[i].pos)] = data[Slot(log[i].pos)]
          /\ \A s \in PayloadSlots(log[i].pos, log[i].len) : data'[s] = data[s]
      BY <1>0, <1>a, <1>c, <2>1, <3>1, WordsOfRecord
    <3> HIDE DEF EndWrite
    <3> QED BY <2>0, <3>2, <3>3 DEF RecordOK
  <2> QED BY <2>2, <2>3
<1>9. ReaderLocals'
  <2>1. rpc # "idle" => num_reads_succeeded + 1 \in 1..Len(log)
    <3>1. num_reads_succeeded \in Nat /\ Len(log) \in Nat
      BY <1>0 DEF TypeOK
    <3>2. rpc # "idle" => num_reads_succeeded < Len(log)
      BY <1>0 DEF ReaderLocals
    <3> QED BY <3>1, <3>2
  <2>2. \A i \in 1..Len(log) : log[i].pub => log'[i] = log[i]
    BY <1>a, <1>d
  <2> HIDE DEF EndWrite
  <2>3. UNCHANGED <<rpc, rlen, out, num_reads_succeeded>> /\ Len(log') = Len(log)
    BY <1>d DEF EndWrite
  <2> QED BY <1>0, <2>1, <2>2, <2>3 DEF ReaderLocals, TypeOK
<1>10. ReadsIntact'
  <2>2. \A i \in 1..Len(log) : log[i].pub => log'[i] = log[i]
    BY <1>a, <1>d
  <2>3. out' = out /\ Len(log') = Len(log) /\ \A i \in 1..Len(out) : i \in 1..Len(log)
    BY <1>0, <1>d DEF ReadsIntact, TypeOK
  <2> HIDE DEF EndWrite
  <2> QED BY <1>0, <2>2, <2>3 DEF ReadsIntact
<1> QED BY <1>1, <1>2, <1>3, <1>4, <1>5, <1>6, <1>7, <1>8, <1>9, <1>10 DEF RingInv

\* begin_write moving write_pos: the new reservation is behind all others and
\* fits.
LEMMA AdvanceStep ==
    ASSUME RingInv, NEW w \in Writers, Advance(w)
    PROVE  RingInv'
<1> USE DEF Advance, meta, counters, wlocals, reader
<1>0. TypeOK /\ LogTiles /\ CursorOnRecord /\ WithinCapacity /\ LockExcludes
      /\ WriterLocals /\ OwnersDistinct /\ HeadersTell /\ ReaderLocals /\ ReadsIntact
  BY DEF RingInv
<1> DEFINE L == Len(log)
           r == [pos |-> wr[w], len |-> len[w], pub |-> FALSE]
<1>a. /\ Fits(w) /\ wr[w] = write_pos /\ len[w] \in PayloadSizes
      /\ Total(len[w]) \in Nat /\ Total(len[w]) >= 2
      /\ write_pos + Total(len[w]) <= read_pos + Size
  <2>1. Fits(w)
    BY <1>0 DEF WriterLocals, WriterOK
  <2> QED BY <1>0, <2>1, RoomRemains
<1>b. /\ log' \in Seq([pos : Nat, len : PayloadSizes, pub : BOOLEAN])
      /\ Len(log') = L + 1 /\ L \in Nat
      /\ log'[L + 1] = r
      /\ \A i \in 1..L : log'[i] = log[i]
  <2>1. r \in Reservation /\ log \in Seq(Reservation)
    BY <1>0, <1>a DEF TypeOK, Reservation
  <2>2. log' = Append(log, r)
    OBVIOUS
  <2> HIDE DEF r
  <2> QED BY <2>1, <2>2, AppendFacts DEF Reservation
<1>c. L \in Nat /\ L + 1 \in Nat /\ num_reads_succeeded \in Nat /\ write_pos \in Nat /\ read_pos \in Nat
  BY <1>0 DEF TypeOK
<1>1. TypeOK'
  <2>1. write_pos' \in Nat
    BY <1>a, <1>c, SumGrows
  <2> QED BY <1>0, <1>b, <1>c, <2>1 DEF TypeOK
<1>2. LogTiles'
  <2>1. \A i \in 1..L : RecordEnd(i)' = RecordEnd(i) /\ RecordEnd(i) \in Nat
    BY <1>0, <1>b, LogEntry DEF RecordEnd
  <2>2. ASSUME NEW i \in 1..(L + 1), i = L + 1 PROVE RecordEnd(i)' = write_pos'
    BY <1>a, <1>b, <2>2 DEF RecordEnd
  <2>3. write_pos' = write_pos + Total(len[w]) /\ log'[L + 1].pos = write_pos
    BY <1>a, <1>b
  <2>4. \A i \in 1..L : RecordEnd(i) <= write_pos
    BY <1>0 DEF LogTiles
  <2>5. \A i \in 1..(L + 1) : i = L + 1 \/ i \in 1..L
    BY <1>c
  <2> HIDE DEF Advance, L
  <2>6. \A i \in 1..(L + 1) : RecordEnd(i)' <= write_pos'
    <3> SUFFICES ASSUME NEW i \in 1..(L + 1) PROVE RecordEnd(i)' <= write_pos'
      OBVIOUS
    <3>1. write_pos' \in Nat /\ write_pos <= write_pos'
      BY <1>a, <1>c, <2>3, SumGrows
    <3>2. CASE i = L + 1
      BY <3>1, <3>2, <2>2
    <3>3. CASE i \in 1..L
      BY <1>c, <3>1, <3>3, <2>1, <2>4
    <3> QED BY <3>2, <3>3, <2>5
  <2>7. \A i, j \in 1..(L + 1) : i < j => RecordEnd(i)' <= log'[j].pos
    <3> SUFFICES ASSUME NEW i \in 1..(L + 1), NEW j \in 1..(L + 1), i < j
                 PROVE  RecordEnd(i)' <= log'[j].pos
      OBVIOUS
    <3>1. i \in 1..L
      BY <1>c
    <3>2. CASE j = L + 1
      BY <3>1, <3>2, <2>1, <2>3, <2>4
    <3>3. CASE j \in 1..L
      BY <1>0, <1>b, <3>1, <3>3, <2>1 DEF LogTiles, L
    <3> QED BY <3>2, <3>3, <2>5
  <2>8. \A i \in 1..(L + 1) : IF i = L + 1 THEN RecordEnd(i)' = write_pos'
                             ELSE log'[i + 1].pos = RecordEnd(i)'
    <3> SUFFICES ASSUME NEW i \in 1..L PROVE log'[i + 1].pos = RecordEnd(i)'
      BY <1>c, <2>2, <2>5
    <3>1. CASE i = L
      <4>1. RecordEnd(i) = write_pos
        BY <1>0, <3>1 DEF LogTiles, L
      <4> QED BY <3>1, <4>1, <2>1, <2>3
    <3>2. CASE i # L
      <4>1. i + 1 \in 1..L
        BY <1>c, <3>2
      <4>2. log[i + 1].pos = RecordEnd(i)
        BY <1>0, <3>2 DEF LogTiles, L
      <4> QED BY <1>b, <4>1, <4>2, <2>1
    <3> QED BY <3>1, <3>2
  <2> QED BY <1>b, <2>6, <2>7, <2>8 DEF LogTiles, L
<1>3. CursorOnRecord'
  <2>1. num_reads_succeeded <= L /\ num_reads_succeeded # L + 1
    BY <1>0, <1>c DEF CursorOnRecord
  <2>2. CASE num_reads_succeeded = L
    <3>1. read_pos = write_pos /\ log'[num_reads_succeeded + 1].pos = write_pos
      BY <1>0, <1>a, <1>b, <2>2 DEF CursorOnRecord
    <3> QED BY <1>b, <1>c, <2>1, <3>1 DEF CursorOnRecord
  <2>3. CASE num_reads_succeeded # L
    <3>1. num_reads_succeeded + 1 \in 1..L
      BY <1>c, <2>1, <2>3
    <3>2. read_pos = log[num_reads_succeeded + 1].pos
      BY <1>0, <2>3 DEF CursorOnRecord
    <3>3. log'[num_reads_succeeded + 1].pos = log[num_reads_succeeded + 1].pos
      BY <1>b, <3>1
    <3> QED BY <1>b, <1>c, <2>1, <3>2, <3>3 DEF CursorOnRecord
  <2> QED BY <2>2, <2>3
<1>4. WithinCapacity'
  <2>1. write_pos' = write_pos + Total(len[w]) /\ read_pos <= write_pos
    BY <1>0, <1>a DEF WithinCapacity
  <2> QED BY <1>a, <1>c, <2>1, SizeAssumption DEF WithinCapacity
<1>5. LockExcludes'
  BY <1>0 DEF LockExcludes, Critical, TypeOK
<1>6. WriterLocals'
  <2> SUFFICES ASSUME NEW v \in Writers PROVE WriterOK(v)'
    BY DEF WriterLocals
  <2>1. WriterOK(v)
    BY <1>0 DEF WriterLocals
  <2>2. CASE v = w
    <3>1. L + 1 \in (num_reads_succeeded + 1)..(L + 1)
      BY <1>0, <1>c DEF CursorOnRecord
    <3>2. pc'[w] = "unlock" /\ idx'[w] = L + 1 /\ wr' = wr /\ len' = len
      BY <1>0 DEF TypeOK
    <3>3. len[w] \in PayloadSizes /\ Len(log') = L + 1 /\ num_reads_succeeded' = num_reads_succeeded
      BY <1>a, <1>b
    <3> HIDE DEF Advance
    <3> QED BY <2>2, <3>1, <3>2, <3>3, <1>b DEF WriterOK, Owning
  <2>3. CASE v # w
    <3>1. pc'[v] = pc[v] /\ idx'[v] = idx[v]
      BY <2>3, <1>0 DEF TypeOK
    <3>2. pc[v] \notin {"check", "advance"}
      BY <1>0, <2>3 DEF LockExcludes, Critical
    <3>3. ASSUME pc[v] \in Owning
          PROVE  idx[v] \in (num_reads_succeeded + 1)..(L + 1) /\ log'[idx[v]] = log[idx[v]]
      <4>1. idx[v] \in (num_reads_succeeded + 1)..L /\ idx[v] \in 1..L
        BY <1>0, <3>3, OwnerRecord
      <4> QED BY <1>b, <1>c, <4>1
    <3>4. UNCHANGED <<num_reads_succeeded, len, wr, rd, data>> /\ Len(log') = L + 1
      BY <1>b
    <3> HIDE DEF Advance
    <3> QED BY <3>1, <3>2, <3>3, <3>4, <2>1 DEF WriterOK, Owning
  <2> QED BY <2>2, <2>3
<1>7. OwnersDistinct'
  <2>1. \A v \in Writers : v # w => pc'[v] = pc[v] /\ idx'[v] = idx[v]
    BY <1>0 DEF TypeOK
  <2>2. \A v \in Writers : pc[v] \in Owning => idx[v] # L + 1
    <3> SUFFICES ASSUME NEW v \in Writers, pc[v] \in Owning PROVE idx[v] # L + 1
      OBVIOUS
    <3>1. idx[v] \in 1..L
      BY <1>0, OwnerRecord
    <3> QED BY <1>c, <3>1
  <2>3. idx'[w] = L + 1
    BY <1>0 DEF TypeOK
  <2> HIDE DEF Advance, L
  <2> QED BY <1>0, <2>1, <2>2, <2>3 DEF OwnersDistinct
<1>8. HeadersTell'
  <2> SUFFICES ASSUME NEW i \in (num_reads_succeeded + 1)..(L + 1) PROVE RecordOK(i)'
    BY <1>b DEF HeadersTell
  <2>1. CASE i = L + 1
    <3>1. data[Slot(wr[w])] = 0
      BY <1>0 DEF WriterLocals, WriterOK
    <3>2. log'[i].pos = wr[w] /\ ~log'[i].pub /\ data' = data
      BY <1>b, <2>1
    <3> HIDE DEF Advance
    <3> QED BY <3>1, <3>2 DEF RecordOK
  <2>2. CASE i # L + 1
    <3>1. i \in (num_reads_succeeded + 1)..L /\ i \in 1..L
      BY <1>c, <2>2
    <3>2. RecordOK(i) /\ log'[i] = log[i] /\ data' = data
      BY <1>0, <1>b, <3>1 DEF HeadersTell
    <3> HIDE DEF Advance
    <3> QED BY <3>2 DEF RecordOK
  <2> QED BY <2>1, <2>2
<1>9. ReaderLocals'
  <2>1. rpc # "idle" => num_reads_succeeded + 1 \in 1..L /\ num_reads_succeeded < L + 1
    <3>1. rpc # "idle" => num_reads_succeeded < L
      BY <1>0 DEF ReaderLocals
    <3> QED BY <1>c, <3>1
  <2>2. rpc # "idle" => log'[num_reads_succeeded + 1] = log[num_reads_succeeded + 1]
    BY <1>b, <2>1
  <2>3. UNCHANGED <<rpc, rlen, out, num_reads_succeeded>> /\ Len(log') = L + 1
    BY <1>b
  <2> HIDE DEF Advance, L
  <2> QED BY <1>0, <2>1, <2>2, <2>3 DEF ReaderLocals, TypeOK
<1>10. ReadsIntact'
  <2>1. Len(out) <= L /\ \A i \in 1..Len(out) : i \in 1..L
    BY <1>0, <1>c DEF ReadsIntact, TypeOK
  <2>2. \A i \in 1..L : log'[i] = log[i]
    BY <1>b
  <2>3. out' = out /\ Len(log') = L + 1 /\ Len(out) <= L + 1
    BY <1>0, <1>b, <1>c, <2>1 DEF TypeOK
  <2> HIDE DEF Advance, L
  <2> QED BY <1>0, <2>1, <2>2, <2>3 DEF ReadsIntact
<1> QED BY <1>1, <1>2, <1>3, <1>4, <1>5, <1>6, <1>7, <1>8, <1>9, <1>10 DEF RingInv

\* Every step of the ring, and every step that leaves it alone, keeps RingInv.
LEMMA NextRingInv == RingInv /\ [Next]_vars => RingInv'
<1> SUFFICES ASSUME RingInv, [Next]_vars PROVE RingInv'
  OBVIOUS
<1>1. CASE Read
  BY <1>1, PollStep, PeekUnpublishedStep, PeekRecordStep, ProcessStep, EndReadStep DEF Read
<1>2. ASSUME NEW w \in Writers, Write(w) PROVE RingInv'
  <2>1. CASE \E n \in PayloadSizes : Refuse(w, n) \/ Begin(w, n)
    BY <2>1, RefuseStep, BeginStep
  <2>2. CASE Lock(w) BY <2>2, LockStep
  <2>3. CASE LoadCursors(w) BY <2>3, LoadCursorsStep
  <2>4. CASE Overflow(w) BY <2>4, OverflowStep
  <2>5. CASE ZeroHeader(w) BY <2>5, ZeroHeaderStep
  <2>6. CASE Advance(w) BY <2>6, AdvanceStep
  <2>7. CASE Unlock(w) BY <2>7, UnlockStep
  <2>8. CASE Fill(w) BY <2>8, FillStep
  <2>9. CASE EndWrite(w) BY <2>9, EndWriteStep
  <2> QED BY <1>2, <2>1, <2>2, <2>3, <2>4, <2>5, <2>6, <2>7, <2>8, <2>9 DEF Write
<1>3. CASE UNCHANGED vars
  BY <1>3, SMTT(30) DEF RingInv, TypeOK, LogTiles, RecordEnd, CursorOnRecord, WithinCapacity, LockExcludes,
     WriterLocals, WriterOK, Fits, OwnersDistinct, HeadersTell, RecordOK, ReaderLocals, ReadsIntact,
     vars, meta, counters, wlocals, reader
<1> QED BY <1>1, <1>2, <1>3 DEF Next

\* The inductive invariant holds of every behaviour, for every set of writer
\* threads, every ring size and every set of payload sizes.
THEOREM RingInvariant == Spec => []RingInv
<1>1. Init => RingInv
  BY InitRingInv
<1>2. RingInv /\ [Next]_vars => RingInv'
  BY NextRingInv
<1> QED BY <1>1, <1>2, PTL DEF Spec, Safety

\* The type invariant of the ring.
THEOREM RingTypes == Spec => []TypeOK
<1>1. RingInv => TypeOK
  BY DEF RingInv
<1> QED BY <1>1, RingInvariant, PTL

\* begin_write never hands out space the reader has not released, although it
\* compares with a read_pos that was loaded earlier.
THEOREM RingCapacity == Spec => []WithinCapacity
<1>1. RingInv => WithinCapacity
  BY DEF RingInv
<1> QED BY <1>1, RingInvariant, PTL

\* begin_read and end_read hand the recorder the reservations in order, each
\* once, with its own length and bytes.
THEOREM RingReadsIntact == Spec => []ReadsIntact
<1>1. RingInv => ReadsIntact
  BY DEF RingInv
<1> QED BY <1>1, RingInvariant, PTL

\* A store through the pointer begin_write returned, and end_write's store of
\* the header, touch no word of another reservation the reader still needs.
THEOREM RingWritesOwnSlot == Spec => []WritesOwnSlot
<1>1. ASSUME RingInv PROVE WritesOwnSlot
  <2>0. TypeOK /\ LogTiles /\ CursorOnRecord /\ WithinCapacity /\ WriterLocals
    BY <1>1 DEF RingInv
  <2> SUFFICES ASSUME NEW w \in Writers, pc[w] \in {"fill", "publish"},
                      NEW i \in (num_reads_succeeded + 1)..Len(log), i # idx[w],
                      NEW k \in 0..(Total(len[w]) - 1), NEW m \in 0..(Total(log[i].len) - 1)
               PROVE  Slot(wr[w] + k) # Slot(log[i].pos + m)
    BY DEF WritesOwnSlot
  <2>1. pc[w] \in Owning
    BY DEF Owning
  <2>2. /\ idx[w] \in (num_reads_succeeded + 1)..Len(log)
        /\ log[idx[w]].pos = wr[w] /\ log[idx[w]].len = len[w]
    BY <2>0, <2>1, OwnerRecord
  <2>3. Slot(log[idx[w]].pos + k) # Slot(log[i].pos + m)
    BY <2>0, <2>2, UnreadDisjoint
  <2> QED BY <2>2, <2>3
<1> QED BY <1>1, RingInvariant, PTL

----------------------------------------------------------------------------
(* The ring implements the queue. *)

\* The log as HeapQueue sees it: without positions.
qlog == [i \in 1..Len(log) |-> [len |-> log[i].len, pub |-> log[i].pub]]

QEntry == [len : PayloadSizes, pub : BOOLEAN]

\* The queue's log, the reservations without their positions, is well formed.
LEMMA QueueLog ==
    ASSUME TypeOK
    PROVE  /\ qlog \in Seq(QEntry) /\ Len(qlog) = Len(log) /\ Len(log) \in Nat
           /\ \A i \in 1..Len(log) : qlog[i] = [len |-> log[i].len, pub |-> log[i].pub]
<1>1. Len(log) \in Nat
  BY DEF TypeOK
<1>2. \A i \in 1..Len(log) : [len |-> log[i].len, pub |-> log[i].pub] \in QEntry
  BY LogEntry DEF QEntry
<1>3. qlog \in [1..Len(log) -> QEntry]
  BY <1>2 DEF qlog
<1>4. qlog \in Seq(QEntry) /\ Len(qlog) = Len(log)
  BY <1>1, <1>3
<1> QED BY <1>1, <1>4 DEF qlog

\* begin_write's move of write_pos is the queue's Reserve.
LEMMA AdvanceIsReserve ==
    ASSUME RingInv, RingInv', NEW w \in Writers, Advance(w)
    PROVE  \E n \in PayloadSizes : Queue!Reserve(n)
<1>0. TypeOK /\ TypeOK' /\ len[w] \in PayloadSizes /\ pc[w] = "advance"
  BY DEF RingInv, WriterLocals, WriterOK, Advance
<1> DEFINE r == [pos |-> wr[w], len |-> len[w], pub |-> FALSE]
           e == [len |-> len[w], pub |-> FALSE]
<1>1. log' = Append(log, r) /\ out' = out
  BY DEF Advance, reader
<1>2. r \in Reservation /\ log \in Seq(Reservation) /\ e \in QEntry
  BY <1>0 DEF TypeOK, Reservation, QEntry
<1>3. /\ Len(log') = Len(log) + 1 /\ Len(log) \in Nat /\ log'[Len(log) + 1] = r
      /\ \A i \in 1..Len(log) : log'[i] = log[i]
  <2> HIDE DEF r
  <2> QED BY <1>1, <1>2, AppendFacts
<1>4. qlog \in Seq(QEntry) /\ Len(qlog) = Len(log)
  BY <1>0, QueueLog
<1>5. /\ qlog' \in Seq(QEntry) /\ Len(qlog') = Len(log')
      /\ \A i \in 1..Len(log') : qlog'[i] = [len |-> log'[i].len, pub |-> log'[i].pub]
  <2>1. \A i \in 1..Len(log') : [len |-> log'[i].len, pub |-> log'[i].pub] \in QEntry
    <3>0. log' \in Seq(Reservation)
      BY <1>0 DEF TypeOK, Reservation
    <3>1. \A i \in 1..Len(log') : log'[i] \in Reservation
      BY <3>0
    <3> QED BY <3>1 DEF Reservation, QEntry
  <2>2. qlog' \in [1..Len(log') -> QEntry]
    BY <2>1 DEF qlog
  <2>3. Len(log') \in Nat
    BY <1>3
  <2>4. qlog' \in Seq(QEntry) /\ Len(qlog') = Len(log')
    BY <2>2, <2>3
  <2>5. \A i \in 1..Len(log') : qlog'[i] = [len |-> log'[i].len, pub |-> log'[i].pub]
    BY DEF qlog
  <2> QED BY <2>4, <2>5
<1>6. qlog' = Append(qlog, e)
  <2>1. \A i \in 1..Len(log) : qlog'[i] = qlog[i]
    <3> SUFFICES ASSUME NEW i \in 1..Len(log) PROVE qlog'[i] = qlog[i]
      OBVIOUS
    <3>1. i \in 1..Len(log') /\ log'[i] = log[i]
      BY <1>3
    <3> QED BY <3>1, <1>5 DEF qlog
  <2>2. qlog'[Len(log) + 1] = e
    <3>1. Len(log) + 1 \in 1..Len(log') /\ log'[Len(log) + 1].len = len[w] /\ log'[Len(log) + 1].pub = FALSE
      BY <1>3
    <3> QED BY <3>1, <1>5
  <2> DEFINE a == Append(qlog, e)
  <2>3. /\ a \in Seq(QEntry) /\ Len(a) = Len(log) + 1 /\ a[Len(log) + 1] = e
        /\ \A i \in 1..Len(log) : a[i] = qlog[i]
    <3> HIDE DEF e
    <3> QED BY <1>2, <1>4, AppendFacts
  <2>4. Len(qlog') = Len(a)
    BY <1>3, <1>5, <2>3
  <2>5. \A i \in 1..Len(a) : qlog'[i] = a[i]
    <3>1. \A i \in 1..Len(a) : i = Len(log) + 1 \/ i \in 1..Len(log)
      BY <1>3, <2>3
    <3> HIDE DEF a, e
    <3> QED BY <2>1, <2>2, <2>3, <3>1
  <2> HIDE DEF a
  <2>6. qlog' = a
    BY <1>5, <2>3, <2>4, <2>5, SeqEqual
  <2> QED BY <2>6 DEF a
<1> QED BY <1>0, <1>1, <1>6 DEF Queue!Reserve, qlog

\* end_write's store of the header is the queue's Publish.
LEMMA EndWriteIsPublish ==
    ASSUME RingInv, NEW w \in Writers, EndWrite(w)
    PROVE  \E i \in 1..Len(qlog) : Queue!Publish(i)
<1>0. TypeOK /\ WriterLocals /\ pc[w] \in Owning
  BY DEF RingInv, EndWrite, Owning
<1> DEFINE k == idx[w]
<1>1. k \in 1..Len(log) /\ ~log[k].pub /\ log' = [log EXCEPT ![k].pub = TRUE] /\ out' = out
  BY <1>0, OwnerRecord DEF EndWrite
<1>2. /\ Len(log') = Len(log)
      /\ \A i \in 1..Len(log) : /\ log'[i].len = log[i].len
                                /\ i = k => log'[i].pub
                                /\ i # k => log'[i] = log[i]
      /\ \A i \in 1..Len(log) : log'[i] \in Reservation
  <2>1. k \in 1..Len(log) BY <1>1
  <2> HIDE DEF k
  <2>2. /\ log' \in Seq(Reservation) /\ Len(log') = Len(log)
        /\ \A i \in 1..Len(log) : /\ log'[i].len = log[i].len
                                  /\ i = k => log'[i].pub
                                  /\ i # k => log'[i] = log[i]
    BY <1>0, <1>1, <2>1, PublishedLog
  <2> QED BY <2>2
<1>3. /\ qlog \in Seq(QEntry) /\ Len(qlog) = Len(log) /\ Len(log) \in Nat
      /\ \A i \in 1..Len(log) : qlog[i] = [len |-> log[i].len, pub |-> log[i].pub]
  BY <1>0, QueueLog
<1> DEFINE b == [qlog EXCEPT ![k].pub = TRUE]
<1>4. qlog' = [i \in 1..Len(log) |-> [len |-> log'[i].len, pub |-> log'[i].pub]]
  BY <1>2 DEF qlog
<1>5. \A i \in 1..Len(log) : qlog'[i] = b[i]
  <2> SUFFICES ASSUME NEW i \in 1..Len(log) PROVE qlog'[i] = b[i]
    OBVIOUS
  <2>1. qlog'[i] = [len |-> log'[i].len, pub |-> log'[i].pub]
    BY <1>4
  <2>2. CASE i = k
    <3>1. log'[i].pub = TRUE /\ log'[i].len = log[i].len
      BY <1>2, <2>2 DEF Reservation
    <3>2. qlog[i] = [len |-> log[i].len, pub |-> log[i].pub]
      BY <1>3
    <3>3. [qlog[i] EXCEPT !.pub = TRUE] = [len |-> log[i].len, pub |-> TRUE]
      <4>1. qlog[i] \in QEntry /\ qlog[i].len = log[i].len
        BY <1>3, <3>2
      <4> DEFINE y == [qlog[i] EXCEPT !.pub = TRUE]
      <4>2. y \in QEntry /\ y.len = qlog[i].len /\ y.pub = TRUE
        BY <4>1 DEF QEntry
      <4>3. y = [len |-> y.len, pub |-> y.pub]
        <5> HIDE DEF y
        <5> QED BY <4>2 DEF QEntry
      <4> QED BY <4>1, <4>2, <4>3
    <3>4. b[i] = [qlog[i] EXCEPT !.pub = TRUE]
      BY <1>1, <2>2 DEF qlog
    <3> QED BY <2>1, <3>1, <3>3, <3>4
  <2>3. CASE i # k
    <3>1. b[i] = qlog[i]
      BY <2>3 DEF qlog
    <3> QED BY <1>2, <1>3, <2>1, <2>3, <3>1
  <2> QED BY <2>2, <2>3
<1>6. qlog' = b
  <2>1. DOMAIN b = 1..Len(log) /\ DOMAIN qlog' = 1..Len(log)
    BY <1>4 DEF qlog
  <2>2. b = [i \in DOMAIN b |-> b[i]]
    BY DEF qlog
  <2>3. qlog' = [i \in DOMAIN qlog' |-> qlog'[i]]
    BY <1>4
  <2> HIDE DEF b
  <2> QED BY <1>5, <2>1, <2>2, <2>3
<1>7. ~qlog[k].pub /\ k \in 1..Len(qlog)
  <2> HIDE DEF k
  <2>1. qlog[k] = [len |-> log[k].len, pub |-> log[k].pub]
    BY <1>1, <1>3
  <2>2. qlog[k].pub = log[k].pub
    BY <2>1
  <2> QED BY <1>1, <1>3, <2>2
<1> QED BY <1>1, <1>6, <1>7 DEF Queue!Publish, qlog

\* The recorder's use of a slice is the queue's Take.
LEMMA ProcessIsTake ==
    ASSUME RingInv, RingInv', Process
    PROVE  Queue!Take
<1>0. TypeOK /\ ReaderLocals /\ ReaderLocals' /\ ReadsIntact' /\ TypeOK' /\ log' = log
  BY DEF RingInv, Process
<1> DEFINE h == Len(out) + 1
<1>1. /\ num_reads_succeeded < Len(log) /\ num_reads_succeeded \in Nat /\ Len(log) \in Nat
      /\ Len(out) = num_reads_succeeded /\ log[h].pub /\ rlen = log[h].len
  BY <1>0 DEF ReaderLocals, Process, TypeOK
<1>2. h \in 1..Len(log) /\ Len(out) < Len(log)
  BY <1>1
<1>3. /\ qlog[h] = [len |-> log[h].len, pub |-> log[h].pub] /\ Len(qlog) = Len(log)
      /\ qlog' = qlog
  BY <1>0, <1>2, QueueLog DEF qlog
<1> DEFINE x == [len |-> rlen, val |-> {data[s] : s \in PayloadSlots(read_pos, rlen)}]
<1>4. out' = Append(out, x) /\ x \in [len : Nat, val : SUBSET Nat] /\ out \in Seq([len : Nat, val : SUBSET Nat])
  <2>1. out' \in Seq([len : Nat, val : SUBSET Nat]) /\ out \in Seq([len : Nat, val : SUBSET Nat])
    BY <1>0 DEF TypeOK
  <2>2. out' = Append(out, x)
    BY DEF Process
  <2>3. Len(out') = Len(out) + 1 /\ out'[Len(out) + 1] = x /\ Len(out) \in Nat
    BY <2>1, <2>2
  <2>4. x \in [len : Nat, val : SUBSET Nat]
    <3> DEFINE S == [len : Nat, val : SUBSET Nat]
    <3>1. out' \in Seq(S) /\ Len(out) + 1 \in 1..Len(out')
      BY <2>1, <2>3
    <3> HIDE DEF x, S
    <3>2. out'[Len(out) + 1] \in S
      BY <3>1
    <3> QED BY <2>3, <3>2 DEF S
  <2> QED BY <2>1, <2>2, <2>4
<1>5. Len(out') = h /\ out'[h] = x
  <2> HIDE DEF x
  <2> QED BY <1>4, AppendFacts
<1>6. x = [len |-> log[h].len, val |-> {h}]
  <2>1. h \in 1..Len(out')
    BY <1>1, <1>5
  <2>2. out'[h] = [len |-> log'[h].len, val |-> {h}]
    BY <1>0, <2>1 DEF ReadsIntact
  <2> QED BY <1>0, <1>5, <2>2
<1>7. out' = Append(out, [len |-> log[h].len, val |-> {h}])
  <2> HIDE DEF x
  <2> QED BY <1>4, <1>6
<1>8. qlog[h].len = log[h].len /\ qlog[h].pub
  BY <1>1, <1>3
<1> QED BY <1>2, <1>3, <1>7, <1>8 DEF Queue!Take, qlog

\* Under the mapping that forgets memory, cursors and the spinlock, every step
\* of the ring is a step of the two-phase queue or leaves the queue alone.
THEOREM RingImplementsQueue == Spec => Queue!Safety
<1>1. Init => Queue!Init
  <2> SUFFICES ASSUME Init PROVE Queue!Init
    OBVIOUS
  <2>1. qlog = << >>
    BY DEF Init, qlog
  <2> QED BY <2>1 DEF Init, Queue!Init, qlog
<1>2. RingInv /\ RingInv' /\ [Next]_vars => [Queue!Next]_(Queue!qvars)
  <2> SUFFICES ASSUME RingInv, RingInv', [Next]_vars
               PROVE  Queue!Next \/ UNCHANGED Queue!qvars
    OBVIOUS
  <2>1. ASSUME log' = log, out' = out PROVE UNCHANGED Queue!qvars
    BY <2>1 DEF Queue!qvars
  <2>2. CASE Process
    BY <2>2, ProcessIsTake DEF Queue!Next
  <2>3. ASSUME NEW w \in Writers, Advance(w) PROVE Queue!Next
    BY <2>3, AdvanceIsReserve DEF Queue!Next
  <2>4. ASSUME NEW w \in Writers, EndWrite(w) PROVE Queue!Next
    BY <2>4, EndWriteIsPublish DEF Queue!Next, qlog
  <2>5. CASE Poll \/ PeekUnpublished \/ PeekRecord \/ EndRead
    BY <2>1, <2>5 DEF Poll, PeekUnpublished, PeekRecord, EndRead
  <2>6. ASSUME NEW w \in Writers, NEW n \in PayloadSizes, Refuse(w, n) \/ Begin(w, n)
        PROVE  UNCHANGED Queue!qvars
    BY <2>1, <2>6 DEF Refuse, Begin
  <2>7. ASSUME NEW w \in Writers,
               Lock(w) \/ LoadCursors(w) \/ Overflow(w) \/ ZeroHeader(w) \/ Unlock(w) \/ Fill(w)
        PROVE  UNCHANGED Queue!qvars
    BY <2>1, <2>7 DEF Lock, LoadCursors, Overflow, ZeroHeader, Unlock, Fill
  <2>8. CASE UNCHANGED vars
    BY <2>1, <2>8 DEF vars
  <2> QED BY <2>2, <2>3, <2>4, <2>5, <2>6, <2>7, <2>8 DEF Next, Read, Write
<1> QED BY <1>1, <1>2, RingInvariant, PTL DEF Spec, Safety, Queue!Safety

\* Writers between begin_write's size check and the outcome it counts.
InFlight == {w \in Writers : pc[w] \in {"lock", "load", "check", "advance"}}

\* What LossAccounted becomes while calls are under way.
CallsCounted ==
    /\ IsFiniteSet(InFlight)
    /\ attempts = num_writes_succeeded + num_writes_overflow + refused + Cardinality(InFlight)

\* A writer enters its call and leaves it by an overflow or a reservation.
LEMMA CallsStep == RingInv /\ CallsCounted /\ [Next]_vars => CallsCounted'
<1> SUFFICES ASSUME RingInv, CallsCounted, [Next]_vars PROVE CallsCounted'
  OBVIOUS
<1> USE DEF CallsCounted
<1>0. TypeOK /\ Cardinality(InFlight) \in Nat
  BY FS_CardinalityType DEF RingInv
<1>1. ASSUME InFlight' = InFlight, UNCHANGED <<attempts, counters, refused>> PROVE CallsCounted'
  BY <1>1 DEF counters
<1>2. CASE Read
  <2>1. /\ InFlight' = InFlight
        /\ UNCHANGED <<attempts, num_writes_succeeded, num_writes_overflow, refused>>
    BY <1>2 DEF Read, Poll, PeekUnpublished, PeekRecord, Process, EndRead, InFlight, counters
  <2> QED BY <2>1
<1>3. ASSUME NEW w \in Writers, NEW n \in PayloadSizes, Refuse(w, n) PROVE CallsCounted'
  <2>1. InFlight' = InFlight
    BY <1>3 DEF Refuse, InFlight
  <2> QED BY <1>0, <1>3, <2>1 DEF Refuse, counters, TypeOK
<1>4. ASSUME NEW w \in Writers, NEW n \in PayloadSizes, Begin(w, n) PROVE CallsCounted'
  <2>1. InFlight' = InFlight \cup {w} /\ w \notin InFlight
    BY <1>0, <1>4 DEF Begin, InFlight, TypeOK
  <2>2. /\ IsFiniteSet(InFlight \cup {w})
        /\ Cardinality(InFlight \cup {w}) = Cardinality(InFlight) + 1
    BY <2>1, FS_AddElement
  <2> QED BY <1>0, <1>4, <2>1, <2>2 DEF Begin, counters, TypeOK
<1>5. ASSUME NEW w \in Writers, Overflow(w) \/ Advance(w) PROVE CallsCounted'
  <2>1. InFlight' = InFlight \ {w} /\ w \in InFlight
    BY <1>0, <1>5 DEF Overflow, Advance, InFlight, TypeOK
  <2>2. /\ IsFiniteSet(InFlight \ {w})
        /\ Cardinality(InFlight \ {w}) = Cardinality(InFlight) - 1
    BY <2>1, FS_RemoveElement
  <2>3. /\ attempts' = attempts /\ refused' = refused
        /\ num_writes_succeeded' + num_writes_overflow' = num_writes_succeeded + num_writes_overflow + 1
        /\ num_writes_succeeded' \in Nat /\ num_writes_overflow' \in Nat
    <3>1. CASE Overflow(w)
      BY <1>0, <3>1 DEF Overflow, TypeOK
    <3>2. CASE Advance(w)
      BY <1>0, <3>2 DEF Advance, TypeOK
    <3> QED BY <1>5, <3>1, <3>2
  <2>4. IsFiniteSet(InFlight') /\ Cardinality(InFlight') = Cardinality(InFlight) - 1
    BY <2>1, <2>2, Zenon
  <2>5. attempts = num_writes_succeeded + num_writes_overflow + refused + Cardinality(InFlight)
    BY Zenon
  <2> HIDE DEF CallsCounted
  <2>6. /\ attempts \in Nat /\ refused \in Nat
        /\ num_writes_succeeded \in Nat /\ num_writes_overflow \in Nat
    BY <1>0 DEF TypeOK
  <2>7. attempts' = num_writes_succeeded' + num_writes_overflow' + refused' + Cardinality(InFlight')
    <3> DEFINE c == Cardinality(InFlight)
               d == Cardinality(InFlight')
               s == num_writes_succeeded + num_writes_overflow
               t == num_writes_succeeded' + num_writes_overflow'
    <3>1. c \in Nat /\ d = c - 1
      BY <1>0, <2>4, Zenon
    <3>2. s \in Nat /\ t = s + 1
      <4>1. s \in Nat
        BY <2>6
      <4>2. t = s + 1
        BY <2>3, Zenon
      <4> QED BY <4>1, <4>2
    <3>3. attempts = s + refused + c
      BY <2>5, Zenon
    <3>4. attempts' = attempts /\ refused' = refused
      BY <2>3, Zenon
    <3> HIDE DEF c, d, s, t
    <3>5. attempts' = t + refused' + d
      BY <2>6, <3>1, <3>2, <3>3, <3>4
    <3> QED BY <3>5, Zenon DEF d, t
  <2> QED BY <2>4, <2>7, Zenon DEF CallsCounted
<1>6. ASSUME NEW w \in Writers,
             Lock(w) \/ LoadCursors(w) \/ ZeroHeader(w) \/ Unlock(w) \/ Fill(w) \/ EndWrite(w)
      PROVE  CallsCounted'
  <2>1. InFlight' = InFlight
    BY <1>0, <1>6 DEF Lock, LoadCursors, ZeroHeader, Unlock, Fill, EndWrite, InFlight, TypeOK
  <2> QED BY <1>1, <1>6, <2>1 DEF Lock, LoadCursors, ZeroHeader, Unlock, Fill, EndWrite
<1>7. CASE UNCHANGED vars
  BY <1>1, <1>7 DEF vars, InFlight
<1> QED BY <1>2, <1>3, <1>4, <1>5, <1>6, <1>7 DEF Next, Write

\* No record is lost unnoticed: once every writer is idle each call of
\* begin_write is a reservation, a counted overflow, or too large for the ring.
THEOREM RingLossAccounted == Spec => []LossAccounted
<1>1. Init => CallsCounted
  <2> SUFFICES ASSUME Init PROVE CallsCounted
    OBVIOUS
  <2>1. InFlight = {}
    BY DEF Init, InFlight
  <2> QED BY <2>1, FS_EmptySet DEF Init, CallsCounted
<1>2. RingInv /\ CallsCounted => LossAccounted
  <2> SUFFICES ASSUME RingInv, CallsCounted, \A w \in Writers : pc[w] = "idle"
               PROVE  attempts = num_writes_succeeded + num_writes_overflow + refused
    BY DEF LossAccounted
  <2>1. InFlight = {}
    BY DEF InFlight
  <2> QED BY <2>1, FS_EmptySet DEF CallsCounted, RingInv, TypeOK
<1> QED BY <1>1, <1>2, CallsStep, RingInvariant, PTL DEF Spec, Safety

=============================================================================
