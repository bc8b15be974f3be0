------------------------- MODULE HeapTrackingProofs -------------------------
(***************************************************************************)
(* Proofs about the tracking session (HeapTracking): what the recorder's   *)
(* book says of the target's heap, whatever the interleaving of threads    *)
(* that batch their frees and of the worker that applies what reaches the  *)
(* ring.                                                                   *)
(*                                                                         *)
(* Numbers are given before records travel, so frees come in late and out  *)
(* of order, and BookFaithful alone does not say why none of them takes a  *)
(* younger object of its address.  The invariant does: every free under    *)
(* way for the address of a kept object has a smaller number than it, and  *)
(* the objects that are no longer kept can be matched, all but lost_frees  *)
(* of them, each with a later free of its address that is still under way. *)
(* apply_free takes the youngest object older than the free; that object   *)
(* may be matched with another free, and the matching is then exchanged.   *)
(* Sums over sets of objects are taken through their recursion equation,   *)
(* and a batch through the state of the book after each of its entries.    *)
(***************************************************************************)
EXTENDS HeapTracking, FiniteSetTheorems, FunctionTheorems, WellFoundedInduction, SequenceTheorems, TLAPS

------------------------------------------------------------------------------
(* The data.                                                                *)

Entries == [seq : Nat, addr : Addrs]
AllocRecords ==
  [kind : {"alloc"}, owner : Callers, pub : BOOLEAN, seq : Nat, addr : Addrs,
   size : SampleSizes, site : Sites]
FreesRecords == [kind : {"frees"}, owner : Callers, pub : BOOLEAN, entries : Seq(Entries)]
Records == AllocRecords \cup FreesRecords
LiveEntries == [seq : Nat, size : SampleSizes, site : Sites]
Totals == [allocated : Nat, freed : Nat, alloc_count : Nat, free_count : Nat]
Books == [sites : [Sites -> Totals], live : [Addrs -> Seq(LiveEntries)]]
Args == [addr : Addrs, size : Nat, site : Sites]

Coming == {"reserve", "stamp", "publish"}
Leaving == {"queue", "flush", "publish_frees", "finish"}
Queued == {"flush", "publish_frees", "finish"}

Types ==
  /\ TypeOK
  /\ arg \in [Callers -> Args] /\ batch \in [Callers -> Seq(Entries)]
  /\ ring \in Seq(Records) /\ book \in Books
  /\ \A t \in Callers :
       /\ pc[t] \notin {"flush", "publish_frees"} => Len(batch[t]) < FREE_BATCH_CAP
       /\ pc[t] \in Coming => arg[t].size \in SampleSizes

(* A call has its address for itself.                                        *)
Serving ==
  /\ \A t \in Callers :
       /\ pc[t] \in Coming => heap[arg[t].addr].st = "coming"
       /\ pc[t] \in Leaving => heap[arg[t].addr].st = "leaving"
       /\ pc[t] \in {"reserve", "stamp"} => heap[arg[t].addr].seq = 0
       /\ \A u \in Callers :
            pc[t] # "idle" /\ pc[u] # "idle" /\ arg[t].addr = arg[u].addr => t = u
  /\ \A a \in Addrs :
       /\ heap[a].st = "free" => heap[a].seq = 0
       /\ heap[a].st \in {"coming", "leaving"} =>
            \E t \in Callers : pc[t] # "idle" /\ arg[t].addr = a

(* A reserved slot is its thread's, and the only one of it.                  *)
Reserved(i) ==
  LET t == ring[i].owner
  IN  \/ /\ ring[i].kind = "alloc" /\ ring[i].addr = arg[t].addr
         /\ \/ pc[t] = "stamp" /\ ring[i].seq = 0
            \/ pc[t] = "publish" /\ ring[i].seq # 0
      \/ /\ ring[i].kind = "frees" /\ ring[i].entries = batch[t]
         /\ pc[t] = "publish_frees"
Slots ==
  /\ \A i \in DOMAIN ring : IF ring[i].pub THEN ring[i].kind = "alloc" => ring[i].seq # 0
                                           ELSE Reserved(i)
  /\ \A i, j \in DOMAIN ring :
       ~ring[i].pub /\ ~ring[j].pub /\ ring[i].owner = ring[j].owner => i = j
  /\ \A t \in Callers : pc[t] \in {"stamp", "publish", "publish_frees"} =>
       \E i \in DOMAIN ring : ~ring[i].pub /\ ring[i].owner = t

(* The allocations the recorder knows of or will know of.                    *)
LiveOf(bk) == UNION {{a} \X ToSet(bk.live[a]) : a \in Addrs}
Numbered(r) == r.kind = "alloc" /\ r.seq # 0
RecordOf(r) == <<r.addr, [seq |-> r.seq, size |-> r.size, site |-> r.site]>>
InRingOf(q) == {RecordOf(q[i]) : i \in {j \in DOMAIN q : Numbered(q[j])}}
InRing == InRingOf(ring)
Recorded == LiveOf(book) \cup InRing

Numbers ==
  /\ \A a \in Addrs : heap[a].seq < g_seq
  /\ \A a, b \in Addrs : heap[a].seq = heap[b].seq /\ heap[a].seq # 0 => a = b
  /\ \A s \in spoiled : s < g_seq
  /\ \A p \in Recorded : p[2].seq # 0 /\ p[2].seq < g_seq
  /\ \A e \in PendingFrees : e.seq < g_seq

(* Of one address, allocations arrive in the order of their numbers, and a   *)
(* free before every later allocation.                                       *)
Ascending(bk) ==
  \A a \in Addrs : \A i, j \in DOMAIN bk.live[a] : i < j => bk.live[a][i].seq < bk.live[a][j].seq
Before(A, B) == \A p \in A, q \in B : p[1] = q[1] => p[2].seq < q[2].seq
RingOrder ==
  \A i, j \in DOMAIN ring : i < j /\ ring[j].kind = "alloc" =>
    /\ ring[i].kind = "alloc" /\ ring[i].addr = ring[j].addr =>
         ring[i].seq # 0 /\ (ring[j].seq # 0 => ring[i].seq < ring[j].seq)
    /\ ring[i].kind = "frees" /\ ring[j].seq # 0 =>
         \A e \in ToSet(ring[i].entries) : e.seq < ring[j].seq
Order == Ascending(book) /\ Before(LiveOf(book), InRing) /\ RingOrder

(* The objects no free was queued for.                                       *)
Given(a) == \/ heap[a].seq \in spoiled
            \/ \E t \in Callers : pc[t] \in Queued /\ arg[t].addr = a
Kept == {a \in Addrs : heap[a].seq # 0 /\ ~Given(a)}
OfKept(p) == p[1] \in Kept /\ p[2].seq = heap[p[1]].seq
Gone == {p \in Recorded : ~OfKept(p)}

(* Every free under way for a kept object's address is an older object's.    *)
FreesOlder == \A e \in PendingFrees : e.addr \in Kept => e.seq < heap[e.addr].seq
KeptRecorded == \A a \in Kept : \E p \in Recorded : p[1] = a /\ p[2].seq = heap[a].seq

(* All of G but n at most have a free of their own in F, a later one.        *)
Pairs(m, D, F) ==
  /\ m \in [D -> F]
  /\ \A p \in D : m[p].addr = p[1] /\ p[2].seq < m[p].seq
  /\ \A p, q \in D : m[p] = m[q] => p = q
Matched(G, F, n) ==
  \E D \in SUBSET G : /\ IsFiniteSet(G \ D) /\ Cardinality(G \ D) <= n
                      /\ \E m \in [D -> F] : Pairs(m, D, F)
Accounted ==
  /\ IsFiniteSet(LiveOf(book)) /\ IsFiniteSet(PendingFrees)
  /\ Matched(Gone, PendingFrees, lost_frees)
  /\ refused = 0 => lost_frees = 0

BookInv ==
  /\ Types /\ Serving /\ Slots /\ Numbers /\ Order
  /\ FreesOlder /\ KeptRecorded /\ Accounted /\ SiteTotalsBalance

------------------------------------------------------------------------------
(* Numbers, sequences and sums.                                             *)

(* A set of numbers has a least one.                                         *)
LEMMA Least ==
  ASSUME NEW T, T \subseteq Nat, T # {}
  PROVE  \E x \in T : \A y \in T : x <= y
<1>1. PICK x \in T : \A y \in T : ~(<<y, x>> \in OpToRel(<, Nat))
  BY NatLessThanWellFounded, WFMin, Zenon
<1>2. \A y \in T : ~(y < x)
  BY <1>1, Zenon DEF OpToRel
<1>3. \A y \in T : x <= y
  BY <1>2
<1> QED BY <1>3

(* What fails for some set of members of S fails for a smallest one.         *)
LEMMA Smallest ==
  ASSUME NEW S, IsFiniteSet(S), NEW B, B \subseteq SUBSET S, B # {}
  PROVE  \E s \in B : /\ IsFiniteSet(s) /\ Cardinality(s) \in Nat
                      /\ \A u \in SUBSET s : u # s => u \notin B
<1> DEFINE T == {Cardinality(s) : s \in B}
<1>1. \A s \in SUBSET S : IsFiniteSet(s) /\ Cardinality(s) \in Nat
  BY FS_Subset, FS_CardinalityType
<1>2. T \subseteq Nat /\ T # {}
  BY <1>1
<1>3. PICK n \in T : \A y \in T : n <= y
  <2> HIDE DEF T
  <2> QED BY <1>2, Least
<1>4. PICK s \in B : Cardinality(s) = n
  OBVIOUS
<1>5. ASSUME NEW u \in SUBSET s, u # s, u \in B PROVE FALSE
  <2>1. Cardinality(s) <= Cardinality(u) /\ Cardinality(u) \in Nat /\ Cardinality(s) \in Nat
    BY <1>1, <1>3, <1>4, <1>5
  <2>2. Cardinality(u) <= Cardinality(s) /\ (Cardinality(s) = Cardinality(u) => s = u)
    BY <1>1, <1>5, FS_Subset
  <2> QED BY <1>5, <2>1, <2>2
<1> QED BY <1>1, <1>4, <1>5

Chosen(s) == CHOOSE x \in s : TRUE
SumStep(f, s) == IF s = {} THEN 0 ELSE Chosen(s)[2].size + f[s \ {Chosen(s)}]
Sums(f, S) == f = [s \in SUBSET S |-> SumStep(f, s)]
Sized(S) == IsFiniteSet(S) /\ \A p \in S : p[2].size \in Nat

(* What SizeOf, the sum over a finite set of entries, abbreviates.           *)
LEMMA SizeIs == \A S : SizeOf(S) = (CHOOSE f : Sums(f, S))[S]
BY DEF SizeOf, MapThenSumSet, MapThenFoldSet, Sums, SumStep, Chosen

(* The member a sum takes out first is one of the set.                       *)
LEMMA ChosenIs == \A s : s # {} => Chosen(s) \in s
BY DEF Chosen

(* The sums over the subsets of a finite set are defined.                    *)
LEMMA SumsExist ==
  ASSUME NEW S, Sized(S)
  PROVE  \E f : Sums(f, S)
<1> DEFINE Upto(n) == {s \in SUBSET S : Cardinality(s) <= n}
           Good(n) == \E g : g = [s \in Upto(n) |-> SumStep(g, s)]
           T == {n \in Nat : ~Good(n)}
<1>1. \A s \in SUBSET S : /\ IsFiniteSet(s) /\ Cardinality(s) \in Nat
                          /\ Cardinality(s) <= Cardinality(S)
  BY FS_Subset, FS_CardinalityType DEF Sized
<1>2. \A s \in SUBSET S : s # {} =>
        s \ {Chosen(s)} \in SUBSET S /\ Cardinality(s \ {Chosen(s)}) = Cardinality(s) - 1
  BY <1>1, ChosenIs, FS_RemoveElement
<1>3. Good(0)
  <2> DEFINE g == [s \in Upto(0) |-> 0]
  <2>1. \A s \in Upto(0) : s = {}
    BY <1>1, FS_EmptySet
  <2>2. g = [s \in Upto(0) |-> SumStep(g, s)]
    BY <2>1 DEF SumStep
  <2> QED BY <2>2
<1>4. T = {}
  <2> SUFFICES ASSUME T # {} PROVE FALSE
    OBVIOUS
  <2>1. PICK n \in T : \A y \in T : n <= y
    <3>1. T \subseteq Nat
      OBVIOUS
    <3> HIDE DEF T
    <3> QED BY <3>1, Least
  <2>2. n \in Nat /\ n # 0 /\ n - 1 \in Nat /\ Good(n - 1)
    <3>1. n \in Nat /\ n # 0
      BY <1>3
    <3>2. n - 1 \in Nat /\ ~(n <= n - 1)
      BY <3>1
    <3> QED BY <2>1, <3>1, <3>2
  <2>3. PICK g : g = [s \in Upto(n - 1) |-> SumStep(g, s)]
    BY <2>2
  <2> DEFINE h == [s \in Upto(n) |-> SumStep(g, s)]
  <2>4. ASSUME NEW s \in Upto(n), s # {} PROVE s \ {Chosen(s)} \in Upto(n - 1) /\ s \ {Chosen(s)} \in Upto(n)
    BY <1>1, <1>2, <2>2, <2>4
  <2>5. \A s \in Upto(n - 1) : s \in Upto(n) /\ g[s] = h[s]
    BY <1>1, <2>2, <2>3
  <2>6. \A s \in Upto(n) : SumStep(g, s) = SumStep(h, s)
    BY <2>4, <2>5 DEF SumStep
  <2>7. h = [s \in Upto(n) |-> SumStep(h, s)]
    BY <2>6
  <2> QED BY <2>7
<1>5. Good(Cardinality(S))
  BY <1>1, <1>4
<1>6. Upto(Cardinality(S)) = SUBSET S
  BY <1>1
<1> QED BY <1>5, <1>6 DEF Sums

(* They are numbers, whichever member is taken out first.                    *)
LEMMA SumsAre ==
  ASSUME NEW S, Sized(S), NEW f, Sums(f, S)
  PROVE  /\ f[{}] = 0
         /\ \A s \in SUBSET S : f[s] \in Nat
         /\ \A s \in SUBSET S : \A x \in s : f[s] = x[2].size + f[s \ {x}]
<1>1. \A s \in SUBSET S : f[s] = SumStep(f, s)
  BY DEF Sums
<1> DEFINE Bad == {s \in SUBSET S : ~(f[s] \in Nat)}
<1>2. Bad = {}
  <2> SUFFICES ASSUME Bad # {} PROVE FALSE
    OBVIOUS
  <2>1. PICK s \in Bad : \A u \in SUBSET s : u # s => u \notin Bad
    <3>1. Bad \subseteq SUBSET S
      OBVIOUS
    <3> HIDE DEF Bad
    <3> QED BY <3>1, Smallest DEF Sized
  <2>0. s \in SUBSET S /\ f[s] \notin Nat /\ f[s] = SumStep(f, s)
    BY <1>1
  <2>2. s # {}
    <3>1. s = {} => f[s] = 0
      BY <2>0 DEF SumStep
    <3> QED BY <2>0, <3>1
  <2>3. Chosen(s) \in s /\ Chosen(s)[2].size \in Nat
    BY <2>0, <2>2, ChosenIs DEF Sized
  <2>4. s \ {Chosen(s)} \in SUBSET s /\ s \ {Chosen(s)} # s
    BY <2>3
  <2>5. f[s \ {Chosen(s)}] \in Nat
    BY <2>1, <2>4
  <2>6. f[s] = Chosen(s)[2].size + f[s \ {Chosen(s)}]
    BY <2>0, <2>2 DEF SumStep
  <2> HIDE DEF Bad
  <2> QED BY <2>0, <2>3, <2>5, <2>6
<1> DEFINE Odd == {s \in SUBSET S : ~(\A x \in s : f[s] = x[2].size + f[s \ {x}])}
<1>3. Odd = {}
  <2> SUFFICES ASSUME Odd # {} PROVE FALSE
    OBVIOUS
  <2>1. PICK s \in Odd : \A u \in SUBSET s : u # s => u \notin Odd
    <3>1. Odd \subseteq SUBSET S
      OBVIOUS
    <3> HIDE DEF Odd
    <3> QED BY <3>1, Smallest DEF Sized
  <2>2. PICK x \in s : f[s] # x[2].size + f[s \ {x}]
    OBVIOUS
  <2> DEFINE y == Chosen(s)
  <2>3. y \in s /\ f[s] = y[2].size + f[s \ {y}]
    BY <1>1, ChosenIs DEF SumStep
  <2> HIDE DEF y
  <2>4. x # y
    BY <2>2, <2>3
  <2>5. f[s \ {y}] = x[2].size + f[(s \ {y}) \ {x}]
    <3>1. s \ {y} \in SUBSET s /\ s \ {y} # s /\ x \in s \ {y} /\ s \ {y} \in SUBSET S
      BY <2>3, <2>4
    <3> QED BY <2>1, <3>1
  <2>6. f[s \ {x}] = y[2].size + f[(s \ {x}) \ {y}]
    <3>1. s \ {x} \in SUBSET s /\ s \ {x} # s /\ y \in s \ {x} /\ s \ {x} \in SUBSET S
      BY <2>3, <2>4
    <3> QED BY <2>1, <3>1
  <2>7. (s \ {x}) \ {y} = (s \ {y}) \ {x} /\ (s \ {x}) \ {y} \in SUBSET S
    OBVIOUS
  <2>8. x[2].size \in Nat /\ y[2].size \in Nat /\ f[(s \ {x}) \ {y}] \in Nat
    <3>1. x \in S /\ y \in S
      BY <2>3
    <3> QED BY <1>2, <2>7, <3>1 DEF Sized
  <2> DEFINE r == f[(s \ {x}) \ {y}]
  <2>9. r \in Nat /\ f[s \ {y}] = x[2].size + r /\ f[s \ {x}] = y[2].size + r
    BY <2>5, <2>6, <2>7, <2>8
  <2> HIDE DEF r
  <2> QED BY <2>2, <2>3, <2>8, <2>9
<1>4. f[{}] = 0
  BY <1>1 DEF SumStep
<1> QED BY <1>2, <1>3, <1>4

(* The sums over a set's subsets do not depend on the set.                   *)
LEMMA SumsAgree ==
  ASSUME NEW S, Sized(S), NEW T \in SUBSET S, NEW f, Sums(f, S), NEW h, Sums(h, T)
  PROVE  f[T] = h[T]
<1>1. (\A s \in SUBSET S : f[s] = SumStep(f, s)) /\ (\A s \in SUBSET T : h[s] = SumStep(h, s))
  BY DEF Sums
<1> DEFINE Bad == {s \in SUBSET T : f[s] # h[s]}
<1>2. ASSUME Bad # {} PROVE FALSE
  <2>1. PICK s \in Bad : \A u \in SUBSET s : u # s => u \notin Bad
    <3>1. Bad \subseteq SUBSET S
      OBVIOUS
    <3> HIDE DEF Bad
    <3> QED BY <1>2, <3>1, Smallest DEF Sized
  <2>2. s # {}
    BY <1>1 DEF SumStep
  <2>3. s \ {Chosen(s)} \in SUBSET s /\ s \ {Chosen(s)} # s
    BY <2>2, ChosenIs
  <2>4. f[s \ {Chosen(s)}] = h[s \ {Chosen(s)}]
    BY <2>1, <2>3
  <2>5. s \in SUBSET S /\ s \in SUBSET T
    OBVIOUS
  <2>6. f[s] = h[s]
    BY <1>1, <2>2, <2>4, <2>5 DEF SumStep
  <2> QED BY <2>6
<1> QED BY <1>2

(* The sum of the sizes of a set with one member more or less.               *)
LEMMA SizeAdd ==
  ASSUME NEW S, NEW x \in S, Sized(S)
  PROVE  /\ SizeOf(S) \in Nat /\ SizeOf(S \ {x}) \in Nat /\ x[2].size \in Nat
         /\ SizeOf(S) = x[2].size + SizeOf(S \ {x})
<1>1. Sized(S \ {x}) /\ x[2].size \in Nat
  BY FS_RemoveElement DEF Sized
<1>2. \E f : Sums(f, S)
  BY SumsExist
<1>3. \E h : Sums(h, S \ {x})
  BY <1>1, SumsExist
<1> DEFINE f == CHOOSE g : Sums(g, S)
           h == CHOOSE g : Sums(g, S \ {x})
<1>4. Sums(f, S) /\ Sums(h, S \ {x})
  BY <1>2, <1>3
<1>5. SizeOf(S) = f[S] /\ SizeOf(S \ {x}) = h[S \ {x}]
  BY SizeIs
<1> HIDE DEF f, h
<1>6. f[S \ {x}] = h[S \ {x}]
  BY <1>4, SumsAgree
<1>7. f[S] \in Nat /\ f[S \ {x}] \in Nat /\ f[S] = x[2].size + f[S \ {x}]
  BY <1>4, SumsAre
<1> QED BY <1>1, <1>5, <1>6, <1>7

(* The empty set sums to nothing.                                            *)
LEMMA SizeNone == SizeOf({}) = 0
<1>1. Sized({})
  BY FS_EmptySet DEF Sized
<1> DEFINE f == CHOOSE g : Sums(g, {})
<1>2. Sums(f, {})
  BY <1>1, SumsExist
<1>3. SizeOf({}) = f[{}]
  BY SizeIs
<1> HIDE DEF f
<1> QED BY <1>1, <1>2, <1>3, SumsAre

------------------------------------------------------------------------------
(* The book.                                                                *)

(* A sequence without its i-th element.                                      *)
LEMMA RemoveIs ==
  ASSUME NEW S, NEW s \in Seq(S), NEW i \in 1..Len(s)
  PROVE  /\ RemoveAt(s, i) \in Seq(S) /\ Len(RemoveAt(s, i)) = Len(s) - 1
         /\ \A j \in 1..(Len(s) - 1) : RemoveAt(s, i)[j] = IF j < i THEN s[j] ELSE s[j + 1]
<1> DEFINE u == SubSeq(s, 1, i - 1)
           v == SubSeq(s, i + 1, Len(s))
<1>1. Len(s) \in Nat /\ i \in Nat /\ i <= Len(s) /\ 1 <= i
  OBVIOUS
<1>2. u \in Seq(S) /\ Len(u) = i - 1 /\ \A j \in 1..(i - 1) : u[j] = s[j]
  BY <1>1
<1>3. v \in Seq(S) /\ Len(v) = Len(s) - i /\ \A j \in 1..(Len(s) - i) : v[j] = s[j + i]
  BY <1>1
<1> HIDE DEF u, v
<1>4. /\ u \o v \in Seq(S) /\ Len(u \o v) = Len(s) - 1
      /\ \A j \in 1..(Len(s) - 1) : (u \o v)[j] = IF j < i THEN u[j] ELSE v[j - (i - 1)]
  <2>1. u \o v \in Seq(S) /\ Len(u \o v) = Len(u) + Len(v)
        /\ \A j \in 1..(Len(u) + Len(v)) :
             (u \o v)[j] = IF j <= Len(u) THEN u[j] ELSE v[j - Len(u)]
    BY <1>2, <1>3, ConcatProperties, Zenon
  <2>2. Len(u) + Len(v) = Len(s) - 1 /\ Len(u) = i - 1
    BY <1>1, <1>2, <1>3
  <2>3. \A j \in 1..(Len(s) - 1) : j <= i - 1 <=> j < i
    BY <1>1
  <2> QED BY <2>1, <2>2, <2>3
<1>5. \A j \in 1..(Len(s) - 1) : (u \o v)[j] = IF j < i THEN s[j] ELSE s[j + 1]
  <2> TAKE j \in 1..(Len(s) - 1)
  <2>1. CASE j < i
    <3>1. j \in 1..(i - 1)
      BY <1>1, <2>1
    <3> QED BY <1>2, <1>4, <2>1, <3>1
  <2>2. CASE ~(j < i)
    <3>1. j - (i - 1) \in 1..(Len(s) - i) /\ (j - (i - 1)) + i = j + 1
      BY <1>1, <2>2
    <3> QED BY <1>3, <1>4, <2>2, <3>1
  <2> QED BY <2>1, <2>2
<1>6. RemoveAt(s, i) = u \o v
  BY DEF RemoveAt, u, v
<1> QED BY <1>4, <1>5, <1>6

Rising(s) == \A i, j \in DOMAIN s : i < j => s[i].seq < s[j].seq

(* The entries of a list of live objects are typed.                          *)
LEMMA ElementsAre == ASSUME NEW s \in Seq(LiveEntries), NEW i \in 1..Len(s)
                     PROVE  s[i] \in LiveEntries /\ s[i].seq \in Nat
<1>1. s[i] \in LiveEntries
  OBVIOUS
<1> QED BY <1>1 DEF LiveEntries

(* partition_point of an ascending list is where the older entries end.      *)
LEMMA PartitionIs ==
  ASSUME NEW s \in Seq(LiveEntries), Rising(s), NEW q \in Nat
  PROVE  /\ partition_point(s, q) \in 0..Len(s)
         /\ \A i \in 1..Len(s) : s[i].seq < q <=> i <= partition_point(s, q)
<1> DEFINE T == {i \in 1..(Len(s) + 1) : i = Len(s) + 1 \/ ~(s[i].seq < q)}
<1>1. Len(s) \in Nat /\ DOMAIN s = 1..Len(s)
  OBVIOUS
<1>2. T \subseteq Nat /\ Len(s) + 1 \in T
  BY <1>1
<1>3. PICK n \in T : \A y \in T : n <= y
  <2> HIDE DEF T
  <2> QED BY <1>2, Least
<1>4. n \in 1..(Len(s) + 1) /\ (n = Len(s) + 1 \/ ~(s[n].seq < q))
  OBVIOUS
<1>5. \A i \in 1..Len(s) : s[i].seq < q <=> i <= n - 1
  <2> TAKE i \in 1..Len(s)
  <2>1. s[i].seq \in Nat
    BY ElementsAre
  <2>2. CASE i < n
    <3>1. i \notin T
      BY <1>1, <1>3, <1>4, <2>2
    <3> QED BY <1>1, <1>4, <2>2, <3>1
  <2>3. CASE i >= n
    <3>1. n \in 1..Len(s) /\ ~(s[n].seq < q) /\ s[n].seq \in Nat
      BY <1>1, <1>4, <2>3, ElementsAre
    <3>2. i = n \/ s[n].seq < s[i].seq
      BY <1>1, <2>3, <3>1 DEF Rising
    <3> QED BY <1>4, <2>1, <2>3, <3>1, <3>2
  <2> QED BY <1>4, <2>2, <2>3
<1>6. {i \in DOMAIN s : s[i].seq < q} = 1..(n - 1)
  BY <1>1, <1>4, <1>5
<1>7. Cardinality(1..(n - 1)) = n - 1
  BY <1>1, <1>4, FS_Interval
<1>8. partition_point(s, q) = n - 1
  BY <1>6, <1>7 DEF partition_point
<1> QED BY <1>1, <1>4, <1>5, <1>8

(* An object is live when some entry of its address's list is its entry.     *)
LEMMA LiveIs ==
  \A bk, p : p \in LiveOf(bk) <=> \E a \in Addrs : \E i \in DOMAIN bk.live[a] : p = <<a, bk.live[a][i]>>
BY DEF LiveOf, ToSet

(* The live objects of a book are pairs of an address and an entry.          *)
LEMMA LiveTyped ==
  ASSUME NEW bk \in Books, NEW p \in LiveOf(bk)
  PROVE  p = <<p[1], p[2]>> /\ p[1] \in Addrs /\ p[2] \in LiveEntries
<1>1. PICK a \in Addrs : \E i \in DOMAIN bk.live[a] : p = <<a, bk.live[a][i]>>
  BY LiveIs
<1>2. PICK i \in DOMAIN bk.live[a] : p = <<a, bk.live[a][i]>>
  BY <1>1
<1>3. bk.live[a][i] \in LiveEntries
  BY DEF Books
<1> QED BY <1>2, <1>3

(* In a book whose lists ascend, an address and a number name one entry.     *)
LEMMA OneEach ==
  ASSUME NEW bk \in Books, Ascending(bk), NEW p \in LiveOf(bk), NEW q \in LiveOf(bk),
         p[1] = q[1], p[2].seq = q[2].seq
  PROVE  p = q
<1>1. PICK a \in Addrs : \E i \in DOMAIN bk.live[a] : p = <<a, bk.live[a][i]>>
  BY LiveIs
<1>1a. PICK i \in DOMAIN bk.live[a] : p = <<a, bk.live[a][i]>>
  BY <1>1
<1>2. PICK b \in Addrs : \E j \in DOMAIN bk.live[b] : q = <<b, bk.live[b][j]>>
  BY LiveIs
<1>2a. PICK j \in DOMAIN bk.live[b] : q = <<b, bk.live[b][j]>>
  BY <1>2
<1>4. bk.live[a] \in Seq(LiveEntries)
  BY DEF Books
<1>3. a = b /\ bk.live[a][i].seq = bk.live[a][j].seq /\ bk.live[a][i].seq \in Nat
  <2>1. i \in 1..Len(bk.live[a])
    BY <1>4
  <2>2. p[1] = a /\ p[2] = bk.live[a][i] /\ q[1] = b /\ q[2] = bk.live[b][j]
    BY <1>1a, <1>2a
  <2>3. bk.live[a][i].seq \in Nat
    BY <1>4, <2>1, ElementsAre
  <2> QED BY <2>2, <2>3
<1>5. i = j
  <2>1. i \in DOMAIN bk.live[a] /\ j \in DOMAIN bk.live[a] /\ i \in Nat /\ j \in Nat
    BY <1>3, <1>4
  <2>2. ~(i < j) /\ ~(j < i)
    BY <1>3, <2>1 DEF Ascending
  <2> QED BY <2>1, <2>2
<1> QED BY <1>1a, <1>2a, <1>3, <1>5

(* Setting the two counts a free, or an allocation, moves keeps a site's     *)
(* totals typed.                                                             *)
LEMMA CountsTyped ==
  ASSUME NEW t \in Totals, NEW m \in Nat, NEW n \in Nat
  PROVE  /\ [t EXCEPT !.freed = m, !.free_count = n] \in Totals
         /\ [t EXCEPT !.allocated = m, !.alloc_count = n] \in Totals
<1>1. [t EXCEPT !.freed = m, !.free_count = n] \in Totals
  BY DEF Totals
<1>2. [t EXCEPT !.allocated = m, !.alloc_count = n] \in Totals
  BY DEF Totals
<1> QED BY <1>1, <1>2

(* Charging a site keeps its totals typed.                                   *)
LEMMA Charged ==
  ASSUME NEW t \in Totals, NEW n \in Nat
  PROVE  /\ [t EXCEPT !.freed = @ + n, !.free_count = @ + 1] \in Totals
         /\ [t EXCEPT !.allocated = @ + n, !.alloc_count = @ + 1] \in Totals
<1>1. t.freed \in Nat /\ t.free_count \in Nat /\ t.allocated \in Nat /\ t.alloc_count \in Nat
  BY DEF Totals
<1>2. t.freed + n \in Nat /\ t.free_count + 1 \in Nat /\ t.allocated + n \in Nat /\ t.alloc_count + 1 \in Nat
  BY <1>1
<1> QED BY <1>2, CountsTyped

(* apply_free: nothing older is live at the address, or the newest older     *)
(* entry goes and is charged to its site.                                    *)
Took(bk, q, a, x, after) ==
  /\ x \in LiveOf(bk) /\ x[1] = a /\ x[2].seq < q
  /\ \A p \in LiveOf(bk) : p[1] = a /\ p[2].seq < q => p[2].seq <= x[2].seq
  /\ after \in Books /\ Ascending(after) /\ LiveOf(after) = LiveOf(bk) \ {x}
  /\ after.sites = [bk.sites EXCEPT ![x[2].site].freed = @ + x[2].size,
                                    ![x[2].site].free_count = @ + 1]

(* apply_free: it finds no older object of the address and changes nothing,  *)
(* or takes exactly one, the youngest older one, and charges its site.       *)
LEMMA FreeTakes ==
  ASSUME NEW bk \in Books, Ascending(bk), NEW q \in Nat, NEW a \in Addrs
  PROVE  \/ /\ apply_free(bk, q, a) = bk
            /\ \A p \in LiveOf(bk) : p[1] = a => ~(p[2].seq < q)
         \/ \E x \in LiveOf(bk) : Took(bk, q, a, x, apply_free(bk, q, a))
<1> DEFINE s == bk.live[a]
           k == partition_point(s, q)
<1>1. s \in Seq(LiveEntries) /\ Rising(s) /\ DOMAIN s = 1..Len(s) /\ Len(s) \in Nat
  BY DEF Books, Ascending, Rising
<1>2. k \in 0..Len(s) /\ \A i \in 1..Len(s) : s[i].seq < q <=> i <= k
  BY <1>1, PartitionIs
<1>3. \A p \in LiveOf(bk) : p[1] = a => \E i \in 1..Len(s) : p = <<a, s[i]>>
  <2> TAKE p \in LiveOf(bk)
  <2>1. PICK b \in Addrs : \E i \in DOMAIN bk.live[b] : p = <<b, bk.live[b][i]>>
    BY LiveIs
  <2>1a. PICK i \in DOMAIN bk.live[b] : p = <<b, bk.live[b][i]>>
    BY <2>1
  <2> QED BY <1>1, <2>1a
<1>4. CASE k = 0
  <2>1. apply_free(bk, q, a) = bk
    BY <1>4 DEF apply_free
  <2>2. \A i \in 1..Len(s) : ~(s[i].seq < q)
    BY <1>1, <1>2, <1>4
  <2>3. \A p \in LiveOf(bk) : p[1] = a => ~(p[2].seq < q)
    BY <1>3, <2>2
  <2> QED BY <2>1, <2>3
<1>5. CASE k # 0
  <2> DEFINE l == s[k]
             x == <<a, l>>
             r == RemoveAt(s, k)
             st == [bk.sites EXCEPT ![l.site].freed = @ + l.size,
                                    ![l.site].free_count = @ + 1]
             after == apply_free(bk, q, a)
  <2>1. after = [sites |-> st, live |-> [bk.live EXCEPT ![a] = r]]
    BY <1>5 DEF apply_free
  <2>2. k \in 1..Len(s) /\ l \in LiveEntries /\ l.seq < q
    <3>1. k \in 1..Len(s)
      BY <1>1, <1>2, <1>5
    <3> QED BY <1>1, <1>2, <3>1, ElementsAre
  <2> HIDE DEF k
  <2>3. r \in Seq(LiveEntries) /\ Len(r) = Len(s) - 1 /\ DOMAIN r = 1..(Len(s) - 1)
        /\ \A j \in 1..(Len(s) - 1) : r[j] = IF j < k THEN s[j] ELSE s[j + 1]
    <3>1. r \in Seq(LiveEntries) /\ Len(r) = Len(s) - 1
          /\ \A j \in 1..(Len(s) - 1) : r[j] = IF j < k THEN s[j] ELSE s[j + 1]
      <4> HIDE DEF s
      <4> QED BY <1>1, <2>2, RemoveIs
    <3>2. DOMAIN r = 1..Len(r)
      BY <3>1
    <3> QED BY <3>1, <3>2, SMTT(30)
  <2>4. x \in LiveOf(bk) /\ x[1] = a /\ x[2] = l
    BY <1>1, <2>2, LiveIs
  <2>5. ASSUME NEW p \in LiveOf(bk), p[1] = a, p[2].seq < q PROVE p[2].seq <= x[2].seq
    <3>1. PICK i \in 1..Len(s) : p = <<a, s[i]>>
      BY <1>3, <2>5
    <3>2. i <= k /\ s[i].seq \in Nat /\ s[k].seq \in Nat
      <4>1. s[i].seq < q
        BY <2>5, <3>1
      <4> QED BY <1>1, <1>2, <2>2, <3>1, <4>1, ElementsAre
    <3>3. i = k \/ s[i].seq < s[k].seq
      BY <1>1, <2>2, <3>2 DEF Rising
    <3> QED BY <2>4, <3>1, <3>2, <3>3
  <2>6. after \in Books
    <3>1. l.site \in Sites /\ l.size \in Nat
      BY <2>2, TrackAssumption DEF LiveEntries
    <3>2. st \in [Sites -> Totals]
      <4> DEFINE t == bk.sites[l.site]
                 t2 == [t EXCEPT !.freed = @ + l.size, !.free_count = @ + 1]
      <4>1. bk.sites \in [Sites -> Totals] /\ t \in Totals
        BY <3>1 DEF Books
      <4>2. t2 \in Totals
        BY <3>1, <4>1, Charged, ZenonT(60)
      <4>3. st = [bk.sites EXCEPT ![l.site] = t2]
        BY <3>1, <4>1
      <4> QED BY <3>1, <4>1, <4>2, <4>3
    <3>3. [bk.live EXCEPT ![a] = r] \in [Addrs -> Seq(LiveEntries)]
      BY <2>3 DEF Books
    <3> HIDE DEF st, r
    <3> QED BY <2>1, <3>2, <3>3 DEF Books
  <2> HIDE DEF r, st
  <2>7. /\ after.sites = st /\ after.live[a] = r
        /\ \A b \in Addrs : b # a => after.live[b] = bk.live[b]
    BY <2>1 DEF Books
  <2> HIDE DEF after
  <2>8. Rising(r)
    <3> SUFFICES ASSUME NEW i \in DOMAIN r, NEW j \in DOMAIN r, i < j PROVE r[i].seq < r[j].seq
      BY DEF Rising
    <3> DEFINE u == IF i < k THEN i ELSE i + 1
               v == IF j < k THEN j ELSE j + 1
    <3>1. u \in DOMAIN s /\ v \in DOMAIN s /\ u < v
      BY <1>1, <2>2, <2>3, SMTT(30)
    <3>2. r[i] = s[u] /\ r[j] = s[v]
      BY <2>3
    <3> QED BY <1>1, <3>1, <3>2 DEF Rising
  <2>9. Ascending(after)
    BY <2>7, <2>8 DEF Ascending, Rising
  <2>10. LiveOf(after) = LiveOf(bk) \ {x}
    <3>1. ASSUME NEW p \in LiveOf(after) PROVE p \in LiveOf(bk) /\ p # x
      <4>1. PICK b \in Addrs : \E i \in DOMAIN after.live[b] : p = <<b, after.live[b][i]>>
        BY LiveIs
      <4>1a. PICK i \in DOMAIN after.live[b] : p = <<b, after.live[b][i]>>
        BY <4>1
      <4>2. CASE b = a
        <5> DEFINE u == IF i < k THEN i ELSE i + 1
        <5>1. i \in 1..(Len(s) - 1) /\ p = <<a, r[i]>>
          BY <2>3, <2>7, <4>1a, <4>2
        <5>2. u \in 1..Len(s) /\ u # k /\ r[i] = s[u]
          <6>1. u \in 1..Len(s) /\ u # k
            BY <1>1, <2>2, <5>1
          <6> QED BY <2>3, <5>1, <6>1
        <5>3. u < k \/ k < u
          BY <1>1, <2>2, <5>2
        <5> HIDE DEF u
        <5>4. s[u].seq # s[k].seq
          <6>1. s[u].seq < s[k].seq \/ s[k].seq < s[u].seq
            BY <1>1, <2>2, <5>2, <5>3 DEF Rising
          <6>2. s[u].seq \in Nat /\ s[k].seq \in Nat
            BY <1>1, <2>2, <5>2, ElementsAre
          <6> QED BY <6>1, <6>2
        <5> QED BY <1>1, <5>1, <5>2, <5>4, LiveIs
      <4>3. CASE b # a
        BY <2>4, <2>7, <4>1a, <4>3, LiveIs
      <4> QED BY <4>2, <4>3
    <3>2. ASSUME NEW p \in LiveOf(bk), p # x PROVE p \in LiveOf(after)
      <4>1. PICK b \in Addrs : \E i \in DOMAIN bk.live[b] : p = <<b, bk.live[b][i]>>
        BY LiveIs
      <4>1a. PICK i \in DOMAIN bk.live[b] : p = <<b, bk.live[b][i]>>
        BY <4>1
      <4>2. CASE b = a
        <5> DEFINE u == IF i < k THEN i ELSE i - 1
        <5>1. i \in 1..Len(s) /\ i # k /\ p = <<a, s[i]>>
          BY <1>1, <3>2, <4>1a, <4>2
        <5>2. u \in 1..(Len(s) - 1) /\ r[u] = s[i]
          <6>1. /\ u \in 1..(Len(s) - 1) /\ (i < k => u < k /\ u = i)
                /\ (~(i < k) => ~(u < k) /\ u + 1 = i)
            BY <1>1, <2>2, <5>1, SMTT(30)
          <6> QED BY <2>3, <6>1
        <5> QED BY <2>3, <2>7, <5>1, <5>2, LiveIs
      <4>3. CASE b # a
        BY <2>7, <4>1a, <4>3, LiveIs
      <4> QED BY <4>2, <4>3
    <3> QED BY <3>1, <3>2
  <2>11. Took(bk, q, a, x, after)
    BY <2>2, <2>4, <2>5, <2>6, <2>7, <2>9, <2>10 DEF Took, st
  <2> QED BY <2>4, <2>11 DEF after
<1> QED BY <1>4, <1>5

(* apply_alloc: one entry more, behind the older ones of its address.        *)
Added(bk, x, after) ==
  /\ after \in Books /\ LiveOf(after) = LiveOf(bk) \cup {x}
  /\ after.sites = [bk.sites EXCEPT ![x[2].site].allocated = @ + x[2].size,
                                    ![x[2].site].alloc_count = @ + 1]

(* apply_alloc adds one object and charges its site; a number above the      *)
(* others of its address keeps the list ascending.                           *)
LEMMA AllocAdds ==
  ASSUME NEW bk \in Books, NEW q \in Nat, NEW a \in Addrs, NEW n \in SampleSizes, NEW c \in Sites
  PROVE  LET x == <<a, [seq |-> q, size |-> n, site |-> c]>>
             after == apply_alloc(bk, q, a, n, c)
         IN  /\ Added(bk, x, after)
             /\ Ascending(bk) /\ (\A p \in LiveOf(bk) : p[1] = a => p[2].seq < q) => Ascending(after)
<1> DEFINE l == [seq |-> q, size |-> n, site |-> c]
           x == <<a, l>>
           s == bk.live[a]
           r == Append(s, l)
           after == apply_alloc(bk, q, a, n, c)
           st == [bk.sites EXCEPT ![c].allocated = @ + n, ![c].alloc_count = @ + 1]
<1>1. l \in LiveEntries /\ s \in Seq(LiveEntries) /\ DOMAIN s = 1..Len(s) /\ Len(s) \in Nat
  <2>1. l \in LiveEntries
    BY DEF LiveEntries
  <2>2. s \in Seq(LiveEntries)
    BY DEF Books
  <2> HIDE DEF s
  <2> QED BY <2>1, <2>2
<1>2. /\ r \in Seq(LiveEntries) /\ DOMAIN r = 1..(Len(s) + 1) /\ r[Len(s) + 1] = l
      /\ \A i \in 1..Len(s) : r[i] = s[i]
  <2> HIDE DEF l, s
  <2> QED BY <1>1
<1>3. after = [sites |-> st, live |-> [bk.live EXCEPT ![a] = r]]
  BY DEF apply_alloc
<1>4. after \in Books
  <2>1. st \in [Sites -> Totals]
    <3> DEFINE t == bk.sites[c]
               t2 == [t EXCEPT !.allocated = @ + n, !.alloc_count = @ + 1]
    <3>1. bk.sites \in [Sites -> Totals] /\ t \in Totals /\ n \in Nat
      BY TrackAssumption DEF Books
    <3>2. t2 \in Totals
      BY <3>1, Charged
    <3>3. st = [bk.sites EXCEPT ![c] = t2]
      BY <3>1
    <3> QED BY <3>1, <3>2, <3>3
  <2>2. [bk.live EXCEPT ![a] = r] \in [Addrs -> Seq(LiveEntries)]
    BY <1>2 DEF Books
  <2> HIDE DEF st, r, after
  <2> QED BY <1>3, <2>1, <2>2 DEF Books
<1> HIDE DEF r
<1>5. after.sites = st /\ after.live[a] = r /\ \A b \in Addrs : b # a => after.live[b] = bk.live[b]
  BY <1>3 DEF Books
<1> HIDE DEF after
<1>6. LiveOf(after) = LiveOf(bk) \cup {x}
  <2>1. ASSUME NEW p \in LiveOf(after) PROVE p \in LiveOf(bk) \cup {x}
    <3>1. PICK b \in Addrs : \E i \in DOMAIN after.live[b] : p = <<b, after.live[b][i]>>
      BY LiveIs
    <3>2. PICK i \in DOMAIN after.live[b] : p = <<b, after.live[b][i]>>
      BY <3>1
    <3>3. CASE b = a /\ i = Len(s) + 1
      BY <1>2, <1>5, <3>2, <3>3
    <3>4. CASE b = a /\ i # Len(s) + 1
      <4>1. i \in 1..Len(s) /\ p = <<a, s[i]>>
        <5>1. i \in DOMAIN r /\ p = <<a, r[i]>>
          BY <1>5, <3>2, <3>4
        <5> QED BY <1>1, <1>2, <3>4, <5>1
      <4> QED BY <1>1, <4>1, LiveIs
    <3>5. CASE b # a
      BY <1>5, <3>2, <3>5, LiveIs
    <3> QED BY <3>3, <3>4, <3>5
  <2>2. ASSUME NEW p \in LiveOf(bk) PROVE p \in LiveOf(after)
    <3>1. PICK b \in Addrs : \E i \in DOMAIN bk.live[b] : p = <<b, bk.live[b][i]>>
      BY LiveIs
    <3>2. PICK i \in DOMAIN bk.live[b] : p = <<b, bk.live[b][i]>>
      BY <3>1
    <3>3. CASE b = a
      <4>1. i \in 1..Len(s) /\ i \in 1..(Len(s) + 1) /\ p = <<a, r[i]>>
        <5>1. i \in DOMAIN s /\ p = <<a, s[i]>>
          BY <3>2, <3>3
        <5>2. i \in 1..Len(s) /\ i \in 1..(Len(s) + 1)
          BY <1>1, <5>1
        <5> QED BY <1>2, <5>1, <5>2
      <4> QED BY <1>2, <1>5, <4>1, LiveIs
    <3>4. CASE b # a
      BY <1>5, <3>2, <3>4, LiveIs
    <3> QED BY <3>3, <3>4
  <2>3. x \in LiveOf(after)
    <3>1. Len(s) + 1 \in DOMAIN after.live[a] /\ x = <<a, after.live[a][Len(s) + 1]>>
      BY <1>1, <1>2, <1>5
    <3> QED BY <3>1, LiveIs
  <2> QED BY <2>1, <2>2, <2>3
<1>7. ASSUME Ascending(bk), \A p \in LiveOf(bk) : p[1] = a => p[2].seq < q
      PROVE  Ascending(after)
  <2>1. ASSUME NEW i \in DOMAIN r, NEW j \in DOMAIN r, i < j PROVE r[i].seq < r[j].seq
    <3>1. i \in 1..Len(s) /\ (j \in 1..Len(s) \/ j = Len(s) + 1)
      <4>1. i \in 1..(Len(s) + 1) /\ j \in 1..(Len(s) + 1)
        BY <1>2
      <4> QED BY <1>1, <2>1, <4>1
    <3>2. CASE j \in 1..Len(s)
      BY <1>1, <1>2, <1>7, <2>1, <3>1, <3>2 DEF Ascending
    <3>3. CASE j = Len(s) + 1
      <4>1. <<a, s[i]>> \in LiveOf(bk)
        BY <1>1, <3>1, LiveIs
      <4>2. s[i].seq < q
        BY <1>7, <4>1
      <4> QED BY <1>2, <3>1, <3>3, <4>2
    <3> QED BY <3>1, <3>2, <3>3
  <2> QED BY <1>5, <1>7, <2>1 DEF Ascending
<1>8. x[2].site = c /\ x[2].size = n
  OBVIOUS
<1> HIDE DEF x
<1>9. Added(bk, x, after)
  BY <1>4, <1>5, <1>6, <1>8 DEF Added
<1> QED BY <1>7, <1>9 DEF after, x, l

------------------------------------------------------------------------------
(* The totals of a site.                                                    *)

OwnOf(bk, s) == {p \in LiveOf(bk) : p[2].site = s}
Balanced(bk) ==
  \A s \in Sites :
    /\ bk.sites[s].alloc_count = bk.sites[s].free_count + Cardinality(OwnOf(bk, s))
    /\ bk.sites[s].allocated = bk.sites[s].freed + SizeOf(OwnOf(bk, s))

(* The live objects of one site are finitely many and have sizes.            *)
LEMMA OwnFacts ==
  ASSUME NEW bk \in Books, IsFiniteSet(LiveOf(bk)), NEW s \in Sites
  PROVE  Sized(OwnOf(bk, s)) /\ Cardinality(OwnOf(bk, s)) \in Nat
<1>1. IsFiniteSet(OwnOf(bk, s)) /\ Cardinality(OwnOf(bk, s)) \in Nat
  <2>1. OwnOf(bk, s) \in SUBSET LiveOf(bk)
    BY DEF OwnOf
  <2> QED BY <2>1, FS_Subset, FS_CardinalityType
<1>2. \A p \in OwnOf(bk, s) : p[2].size \in Nat
  BY LiveTyped, TrackAssumption DEF OwnOf, LiveEntries
<1> QED BY <1>1, <1>2 DEF Sized

(* Which fields of a site's totals a free and an allocation leave alone.     *)
LEMMA CountsAre ==
  ASSUME NEW t \in Totals, NEW m, NEW n
  PROVE  /\ LET u == [t EXCEPT !.freed = m, !.free_count = n]
            IN  u.freed = m /\ u.free_count = n /\ u.allocated = t.allocated /\ u.alloc_count = t.alloc_count
         /\ LET u == [t EXCEPT !.allocated = m, !.alloc_count = n]
            IN  u.allocated = m /\ u.alloc_count = n /\ u.freed = t.freed /\ u.free_count = t.free_count
BY DEF Totals

(* The totals of a site are numbers.                                         *)
LEMMA TotalsAre ==
  ASSUME NEW bk \in Books, NEW s \in Sites
  PROVE  /\ bk.sites[s] \in Totals
         /\ bk.sites[s].freed \in Nat /\ bk.sites[s].free_count \in Nat
         /\ bk.sites[s].allocated \in Nat /\ bk.sites[s].alloc_count \in Nat
<1>1. bk.sites[s] \in Totals
  BY DEF Books
<1> QED BY <1>1 DEF Totals

(* An allocation keeps every site's live count and bytes equal to allocated  *)
(* less freed.                                                               *)
LEMMA BalanceAdds ==
  ASSUME NEW bk \in Books, IsFiniteSet(LiveOf(bk)), Balanced(bk),
         NEW x, x \notin LiveOf(bk), NEW after, Added(bk, x, after)
  PROVE  Balanced(after) /\ IsFiniteSet(LiveOf(after))
<1> DEFINE c == x[2].site
           n == x[2].size
           t == bk.sites[c]
<1>1. IsFiniteSet(LiveOf(after)) /\ after \in Books /\ x \in LiveOf(after)
  BY FS_AddElement DEF Added
<1>2. c \in Sites /\ n \in Nat /\ t \in Totals
  BY <1>1, LiveTyped, TotalsAre, TrackAssumption DEF LiveEntries
<1>3. /\ after.sites[c] = [t EXCEPT !.allocated = t.allocated + n, !.alloc_count = t.alloc_count + 1]
      /\ \A s \in Sites : s # c => after.sites[s] = bk.sites[s]
  BY <1>2 DEF Added, Books
<1>4. /\ after.sites[c].allocated = t.allocated + n /\ after.sites[c].alloc_count = t.alloc_count + 1
      /\ after.sites[c].freed = t.freed /\ after.sites[c].free_count = t.free_count
  BY <1>2, <1>3, CountsAre
<1>5. ASSUME NEW s \in Sites
      PROVE  /\ after.sites[s].alloc_count = after.sites[s].free_count + Cardinality(OwnOf(after, s))
             /\ after.sites[s].allocated = after.sites[s].freed + SizeOf(OwnOf(after, s))
  <2>1. CASE s = c
    <3>1. /\ OwnOf(after, c) \ {x} = OwnOf(bk, c) /\ x \in OwnOf(after, c)
          /\ OwnOf(after, c) = OwnOf(bk, c) \cup {x} /\ x \notin OwnOf(bk, c)
      BY DEF OwnOf, Added
    <3>2. /\ SizeOf(OwnOf(after, c)) = n + SizeOf(OwnOf(bk, c))
          /\ SizeOf(OwnOf(bk, c)) \in Nat
      BY <1>1, <1>2, <3>1, OwnFacts, SizeAdd
    <3>3. /\ Cardinality(OwnOf(after, c)) = Cardinality(OwnOf(bk, c)) + 1
          /\ Cardinality(OwnOf(bk, c)) \in Nat
      BY <1>2, <3>1, OwnFacts, FS_AddElement DEF Sized
    <3>4. /\ t.freed \in Nat /\ t.free_count \in Nat
          /\ t.alloc_count = t.free_count + Cardinality(OwnOf(bk, c))
          /\ t.allocated = t.freed + SizeOf(OwnOf(bk, c))
      BY <1>2, TotalsAre DEF Balanced
    <3> HIDE DEF t, c, n
    <3> QED BY <1>2, <1>4, <2>1, <3>2, <3>3, <3>4
  <2>2. CASE s # c
    <3>1. OwnOf(after, s) = OwnOf(bk, s)
      BY <2>2 DEF OwnOf, Added
    <3> QED BY <1>3, <2>2, <3>1 DEF Balanced
  <2> QED BY <2>1, <2>2
<1> QED BY <1>1, <1>5 DEF Balanced

(* So does a free that takes an object.                                      *)
LEMMA BalanceTakes ==
  ASSUME NEW bk \in Books, IsFiniteSet(LiveOf(bk)), Balanced(bk),
         NEW q, NEW a, NEW x, NEW after, Took(bk, q, a, x, after)
  PROVE  Balanced(after) /\ IsFiniteSet(LiveOf(after))
<1> DEFINE c == x[2].site
           n == x[2].size
           t == bk.sites[c]
<1>1. IsFiniteSet(LiveOf(after)) /\ after \in Books /\ x \in LiveOf(bk)
  BY FS_RemoveElement DEF Took
<1>2. c \in Sites /\ n \in Nat /\ t \in Totals
  BY <1>1, LiveTyped, TotalsAre, TrackAssumption DEF LiveEntries
<1>3. /\ after.sites[c] = [t EXCEPT !.freed = t.freed + n, !.free_count = t.free_count + 1]
      /\ \A s \in Sites : s # c => after.sites[s] = bk.sites[s]
  BY <1>2 DEF Took, Books
<1>4. /\ after.sites[c].freed = t.freed + n /\ after.sites[c].free_count = t.free_count + 1
      /\ after.sites[c].allocated = t.allocated /\ after.sites[c].alloc_count = t.alloc_count
  BY <1>2, <1>3, CountsAre
<1>5. ASSUME NEW s \in Sites
      PROVE  /\ after.sites[s].alloc_count = after.sites[s].free_count + Cardinality(OwnOf(after, s))
             /\ after.sites[s].allocated = after.sites[s].freed + SizeOf(OwnOf(after, s))
  <2>1. CASE s = c
    <3>1. OwnOf(bk, c) \ {x} = OwnOf(after, c) /\ x \in OwnOf(bk, c)
      BY DEF OwnOf, Took
    <3>2. /\ SizeOf(OwnOf(bk, c)) = n + SizeOf(OwnOf(after, c))
          /\ SizeOf(OwnOf(after, c)) \in Nat
      BY <1>1, <1>2, <3>1, OwnFacts, SizeAdd
    <3>3. /\ Cardinality(OwnOf(after, c)) = Cardinality(OwnOf(bk, c)) - 1
          /\ Cardinality(OwnOf(bk, c)) \in Nat
      BY <1>2, <3>1, OwnFacts, FS_RemoveElement DEF Sized
    <3>4. /\ t.freed \in Nat /\ t.free_count \in Nat
          /\ t.alloc_count = t.free_count + Cardinality(OwnOf(bk, c))
          /\ t.allocated = t.freed + SizeOf(OwnOf(bk, c))
      BY <1>2, TotalsAre DEF Balanced
    <3> HIDE DEF t, c, n
    <3> QED BY <1>2, <1>4, <2>1, <3>2, <3>3, <3>4
  <2>2. CASE s # c
    <3>1. OwnOf(after, s) = OwnOf(bk, s)
      BY <2>2 DEF OwnOf, Took
    <3> QED BY <1>3, <2>2, <3>1 DEF Balanced
  <2> QED BY <2>1, <2>2
<1> QED BY <1>1, <1>5 DEF Balanced

------------------------------------------------------------------------------
(* Which frees stand for the objects given up.                              *)

(* More frees under way match as many objects.                               *)
LEMMA MatchedMore ==
  ASSUME NEW G, NEW F, NEW n, Matched(G, F, n), NEW E, F \subseteq E
  PROVE  Matched(G, E, n)
<1>1. PICK D \in SUBSET G : /\ IsFiniteSet(G \ D) /\ Cardinality(G \ D) <= n
                            /\ \E m \in [D -> F] : Pairs(m, D, F)
  BY DEF Matched
<1>2. PICK m \in [D -> F] : Pairs(m, D, F)
  BY <1>1
<1>3. m \in [D -> E] /\ Pairs(m, D, E)
  BY <1>2 DEF Pairs
<1> QED BY <1>1, <1>3 DEF Matched

(* A free that finds nothing was nobody's.                                   *)
LEMMA MatchedWithout ==
  ASSUME NEW G, NEW F, NEW n, Matched(G, F, n),
         NEW e, \A p \in G : p[1] = e.addr => ~(p[2].seq < e.seq)
  PROVE  Matched(G, F \ {e}, n)
<1>1. PICK D \in SUBSET G : /\ IsFiniteSet(G \ D) /\ Cardinality(G \ D) <= n
                            /\ \E m \in [D -> F] : Pairs(m, D, F)
  BY DEF Matched
<1>2. PICK m \in [D -> F] : Pairs(m, D, F)
  BY <1>1
<1>3. \A p \in D : m[p] # e
  BY <1>2 DEF Pairs
<1>4. m \in [D -> F \ {e}] /\ Pairs(m, D, F \ {e})
  BY <1>2, <1>3 DEF Pairs
<1> QED BY <1>1, <1>4 DEF Matched

(* A free that takes the newest older object gives the free of that one, if  *)
(* it had one, to the object it was itself the free of.                      *)
LEMMA MatchedTakes ==
  ASSUME NEW G, NEW F, NEW n \in Nat, Matched(G, F, n),
         \A p \in G : p[2].seq \in Nat, \A f \in F : f.seq \in Nat,
         NEW e, NEW x \in G, x[1] = e.addr, x[2].seq < e.seq,
         \A p \in G : p[1] = e.addr /\ p[2].seq < e.seq => p[2].seq <= x[2].seq
  PROVE  Matched(G \ {x}, F \ {e}, n)
<1>1. PICK D \in SUBSET G : /\ IsFiniteSet(G \ D) /\ Cardinality(G \ D) <= n
                            /\ \E m \in [D -> F] : Pairs(m, D, F)
  BY DEF Matched
<1>2. PICK m \in [D -> F] : Pairs(m, D, F)
  BY <1>1
<1>3. Cardinality(G \ D) \in Nat
  BY <1>1, FS_CardinalityType
<1>4. CASE \A p \in D : m[p] # e
  <2> DEFINE B == D \ {x}
             h == [p \in B |-> m[p]]
  <2>1. h \in [B -> F \ {e}] /\ Pairs(h, B, F \ {e})
    BY <1>2, <1>4 DEF Pairs
  <2>2. (G \ {x}) \ B = (G \ D) \ {x} /\ B \in SUBSET (G \ {x})
    OBVIOUS
  <2>3. IsFiniteSet((G \ D) \ {x}) /\ Cardinality((G \ D) \ {x}) <= Cardinality(G \ D)
        /\ Cardinality((G \ D) \ {x}) \in Nat
    <3>1. (G \ D) \ {x} \in SUBSET (G \ D)
      OBVIOUS
    <3> QED BY <1>1, <3>1, FS_Subset, FS_CardinalityType
  <2>4. Cardinality((G \ D) \ {x}) <= n
    BY <1>1, <1>3, <2>3
  <2> HIDE DEF B, h
  <2> QED BY <2>1, <2>2, <2>3, <2>4 DEF Matched
<1>5. ASSUME NEW y \in D, m[y] = e PROVE Matched(G \ {x}, F \ {e}, n)
  <2>1. y[1] = e.addr /\ y[2].seq <= x[2].seq /\ \A p \in D : p # y => m[p] # e
    BY <1>2, <1>5 DEF Pairs
  <2>2. CASE x \in D
    <3> DEFINE B == D \ {x}
               h == [p \in B |-> IF p = y THEN m[x] ELSE m[p]]
    <3>1. h \in [B -> F \ {e}]
      BY <1>2, <2>1, <2>2 DEF Pairs
    <3>2. \A p \in B : h[p].addr = p[1] /\ p[2].seq < h[p].seq
      <4> TAKE p \in B
      <4>1. CASE p = y
        <5>1. m[x].addr = x[1] /\ x[2].seq < m[x].seq /\ m[x].seq \in Nat
          BY <1>2, <2>2 DEF Pairs
        <5>2. y[2].seq \in Nat /\ x[2].seq \in Nat
          OBVIOUS
        <5>3. y[2].seq < m[x].seq
          BY <2>1, <5>1, <5>2
        <5> QED BY <2>1, <4>1, <5>1, <5>3
      <4>2. CASE p # y
        BY <1>2, <4>2 DEF Pairs
      <4> QED BY <4>1, <4>2
    <3>3. \A p, q \in B : h[p] = h[q] => p = q
      BY <1>2, <2>2 DEF Pairs
    <3>4. (G \ {x}) \ B = G \ D /\ B \in SUBSET (G \ {x})
      BY <2>2
    <3> HIDE DEF B, h
    <3>5. Pairs(h, B, F \ {e})
      BY <3>1, <3>2, <3>3 DEF Pairs
    <3> QED BY <1>1, <3>1, <3>4, <3>5 DEF Matched
  <2>3. CASE x \notin D
    <3> DEFINE B == D \ {y}
               h == [p \in B |-> m[p]]
               U == (G \ D) \ {x}
    <3>1. h \in [B -> F \ {e}] /\ Pairs(h, B, F \ {e})
      BY <1>2, <2>1 DEF Pairs
    <3>2. (G \ {x}) \ B = U \cup {y} /\ B \in SUBSET (G \ {x}) /\ y \notin U
      BY <1>5, <2>3
    <3>3. IsFiniteSet(U) /\ Cardinality(U) = Cardinality(G \ D) - 1
      BY <1>1, <2>3, FS_RemoveElement
    <3>4. IsFiniteSet(U \cup {y}) /\ Cardinality(U \cup {y}) = Cardinality(G \ D)
      <4> HIDE DEF U
      <4>1. IsFiniteSet(U \cup {y}) /\ Cardinality(U \cup {y}) = Cardinality(U) + 1
        BY <3>2, <3>3, FS_AddElement
      <4> QED BY <1>3, <3>3, <4>1
    <3> HIDE DEF B, h, U
    <3> QED BY <1>1, <3>1, <3>2, <3>4 DEF Matched
  <2> QED BY <2>2, <2>3
<1> QED BY <1>4, <1>5

------------------------------------------------------------------------------
(* A batch of frees.                                                        *)

(* What holds of the book while a batch is applied: R is what the ring holds *)
(* behind it, F the frees not applied yet.                                   *)
GoneOf(bk, R) == {p \in LiveOf(bk) \cup R : ~OfKept(p)}
BookOK(bk, R, F) ==
  /\ bk \in Books /\ Ascending(bk) /\ IsFiniteSet(LiveOf(bk)) /\ Balanced(bk)
  /\ Before(LiveOf(bk), R)
  /\ \A a \in Kept : \E p \in LiveOf(bk) \cup R : p[1] = a /\ p[2].seq = heap[a].seq
  /\ Matched(GoneOf(bk, R), F, lost_frees)

(* One entry of a published batch: the book and what is still on the way     *)
(* stay as accounted without it.                                             *)
LEMMA FreeApplied ==
  ASSUME NEW bk, NEW R, NEW F, BookOK(bk, R, F), lost_frees \in Nat,
         \A p \in R : p[2].seq \in Nat, \A f \in F : f.seq \in Nat,
         \A a \in Addrs : heap[a].seq \in Nat,
         NEW e \in Entries, e.addr \in Kept => e.seq < heap[e.addr].seq,
         \A p \in R : p[1] = e.addr => e.seq < p[2].seq
  PROVE  LET after == apply_free(bk, e.seq, e.addr)
         IN  BookOK(after, R, F \ {e}) /\ LiveOf(after) \subseteq LiveOf(bk)
<1> DEFINE after == apply_free(bk, e.seq, e.addr)
           G == GoneOf(bk, R)
<1>1. e.seq \in Nat /\ e.addr \in Addrs /\ bk \in Books /\ Ascending(bk)
  BY DEF Entries, BookOK
<1>2. \A p \in LiveOf(bk) \cup R : p[2].seq \in Nat
  BY <1>1, LiveTyped DEF LiveEntries
<1>3. CASE after = bk /\ \A p \in LiveOf(bk) : p[1] = e.addr => ~(p[2].seq < e.seq)
  <2>1. \A p \in G : p[1] = e.addr => ~(p[2].seq < e.seq)
    BY <1>1, <1>2, <1>3 DEF GoneOf
  <2>2. Matched(G, F \ {e}, lost_frees)
    BY <2>1, MatchedWithout DEF BookOK
  <2> QED BY <1>3, <2>2 DEF BookOK
<1>4. ASSUME NEW x \in LiveOf(bk), Took(bk, e.seq, e.addr, x, after)
      PROVE  BookOK(after, R, F \ {e}) /\ LiveOf(after) \subseteq LiveOf(bk)
  <2>1. x[1] = e.addr /\ x[2].seq < e.seq /\ x[2].seq \in Nat /\ heap[e.addr].seq \in Nat
    BY <1>1, <1>2, <1>4 DEF Took
  <2>2. ~OfKept(x)
    BY <1>1, <2>1 DEF OfKept
  <2>3. x \notin R
    BY <2>1 DEF BookOK, Before
  <2>4. x \in G
    BY <2>2 DEF GoneOf
  <2>5. \A p \in G : p[2].seq \in Nat
    BY <1>2 DEF GoneOf
  <2>6. \A p \in G : p[1] = e.addr /\ p[2].seq < e.seq => p[2].seq <= x[2].seq
    BY <1>1, <1>2, <1>4 DEF GoneOf, Took
  <2>7. Matched(G \ {x}, F \ {e}, lost_frees)
    <3>1. Matched(G, F, lost_frees)
      BY DEF BookOK
    <3> HIDE DEF G
    <3> QED BY <2>1, <2>4, <2>5, <2>6, <3>1, MatchedTakes
  <2>8. LiveOf(after) = LiveOf(bk) \ {x} /\ after \in Books /\ Ascending(after)
    BY <1>4 DEF Took
  <2>9. GoneOf(after, R) = G \ {x}
    BY <2>3, <2>8 DEF GoneOf
  <2>10. Balanced(after) /\ IsFiniteSet(LiveOf(after))
    BY <1>1, <1>4, BalanceTakes DEF BookOK
  <2>11. Before(LiveOf(after), R)
    BY <2>8 DEF BookOK, Before
  <2>12. ASSUME NEW a \in Kept
         PROVE  \E p \in LiveOf(after) \cup R : p[1] = a /\ p[2].seq = heap[a].seq
    <3>1. PICK p \in LiveOf(bk) \cup R : p[1] = a /\ p[2].seq = heap[a].seq
      BY DEF BookOK
    <3>2. p # x
      BY <2>2, <3>1 DEF OfKept
    <3> QED BY <2>8, <3>1, <3>2
  <2> HIDE DEF G, after
  <2>13. BookOK(after, R, F \ {e})
    BY <2>7, <2>8, <2>9, <2>10, <2>11, <2>12 DEF BookOK
  <2> QED BY <2>8, <2>13
<1>5. \/ /\ after = bk
         /\ \A p \in LiveOf(bk) : p[1] = e.addr => ~(p[2].seq < e.seq)
      \/ \E x \in LiveOf(bk) : Took(bk, e.seq, e.addr, x, after)
  BY <1>1, FreeTakes
<1> QED BY <1>3, <1>4, <1>5

(* The books after the frees of a batch, one after the other.                *)
BookStep(f, bk, entries, n) ==
  IF n = 0 THEN bk ELSE apply_free(f[n - 1], entries[n].seq, entries[n].addr)

(* The recursion that applies a batch, process_record's loop, unfolded       *)
(* once.                                                                     *)
LEMMA BooksAre ==
  ASSUME NEW bk, NEW entries \in Seq(Entries)
  PROVE  /\ BooksAfter(bk, entries)[0] = bk
         /\ \A n \in 1..Len(entries) :
              BooksAfter(bk, entries)[n]
                = apply_free(BooksAfter(bk, entries)[n - 1], entries[n].seq, entries[n].addr)
<1> DEFINE Good(k) == \E g : g = [n \in 0..k |-> BookStep(g, bk, entries, n)]
           T == {k \in Nat : ~Good(k)}
<1>1. Good(0)
  <2> DEFINE g == [n \in 0..0 |-> bk]
  <2>1. g = [n \in 0..0 |-> BookStep(g, bk, entries, n)]
    BY DEF BookStep
  <2> QED BY <2>1
<1>2. T = {}
  <2> SUFFICES ASSUME T # {} PROVE FALSE
    OBVIOUS
  <2>1. PICK k \in T : \A y \in T : k <= y
    <3>1. T \subseteq Nat
      OBVIOUS
    <3> HIDE DEF T
    <3> QED BY <3>1, Least
  <2>2. k \in Nat /\ k # 0 /\ k - 1 \in Nat /\ Good(k - 1) /\ ~Good(k)
    <3>1. k \in Nat /\ k # 0 /\ ~Good(k)
      BY <1>1
    <3>2. k - 1 \in Nat /\ ~(k <= k - 1)
      BY <3>1
    <3> QED BY <2>1, <3>1, <3>2
  <2>3. PICK g : g = [n \in 0..(k - 1) |-> BookStep(g, bk, entries, n)]
    BY <2>2
  <2> DEFINE h == [n \in 0..k |-> BookStep(g, bk, entries, n)]
  <2>4. \A n \in 0..(k - 1) : n \in 0..k /\ g[n] = h[n]
    <3>1. \A n \in 0..(k - 1) : n \in 0..k
      BY <2>2
    <3>2. \A n \in 0..(k - 1) : g[n] = BookStep(g, bk, entries, n)
      BY <2>3, Zenon
    <3> QED BY <3>1, <3>2
  <2>5. \A n \in 0..k : n = 0 \/ n - 1 \in 0..(k - 1)
    BY <2>2
  <2>6. \A n \in 0..k : BookStep(g, bk, entries, n) = BookStep(h, bk, entries, n)
    BY <2>4, <2>5 DEF BookStep
  <2>7. h = [n \in 0..k |-> BookStep(h, bk, entries, n)]
    BY <2>6
  <2> QED BY <2>2, <2>7
<1>3. Len(entries) \in Nat
  OBVIOUS
<1>4. Good(Len(entries))
  BY <1>2, <1>3
<1> DEFINE f == CHOOSE g : g = [n \in 0..Len(entries) |-> BookStep(g, bk, entries, n)]
<1>5. f = [n \in 0..Len(entries) |-> BookStep(f, bk, entries, n)]
  BY <1>4
<1>6. BooksAfter(bk, entries) = f
  BY DEF BooksAfter, BookStep
<1> HIDE DEF f
<1>7. \A n \in 0..Len(entries) : f[n] = BookStep(f, bk, entries, n)
  BY <1>5
<1> QED BY <1>3, <1>6, <1>7 DEF BookStep

(* A whole batch applied: FreeApplied at every entry, by the least entry     *)
(* where it would fail.                                                      *)
LEMMA BatchApplied ==
  ASSUME NEW bk, NEW R, NEW F, BookOK(bk, R, F), lost_frees \in Nat,
         \A p \in R : p[2].seq \in Nat, \A f \in F : f.seq \in Nat,
         \A a \in Addrs : heap[a].seq \in Nat,
         NEW entries \in Seq(Entries),
         \A e \in ToSet(entries) : /\ e.addr \in Kept => e.seq < heap[e.addr].seq
                                   /\ \A p \in R : p[1] = e.addr => e.seq < p[2].seq
  PROVE  LET after == BooksAfter(bk, entries)[Len(entries)]
         IN  BookOK(after, R, F \ ToSet(entries)) /\ LiveOf(after) \subseteq LiveOf(bk)
<1> DEFINE b == BooksAfter(bk, entries)
           Done(n) == {entries[i] : i \in 1..n}
           Good(n) == BookOK(b[n], R, F \ Done(n)) /\ LiveOf(b[n]) \subseteq LiveOf(bk)
           T == {n \in 0..Len(entries) : ~Good(n)}
<1>1. Len(entries) \in Nat /\ DOMAIN entries = 1..Len(entries)
  OBVIOUS
<1>2. b[0] = bk /\ \A n \in 1..Len(entries) : b[n] = apply_free(b[n - 1], entries[n].seq, entries[n].addr)
  BY BooksAre
<1>3. Good(0)
  <2>1. F \ Done(0) = F
    OBVIOUS
  <2> QED BY <1>2, <2>1
<1>4. T = {}
  <2> SUFFICES ASSUME T # {} PROVE FALSE
    OBVIOUS
  <2>1. PICK n \in T : \A y \in T : n <= y
    <3>1. T \subseteq Nat
      OBVIOUS
    <3> HIDE DEF T
    <3> QED BY <3>1, Least
  <2>2. n \in 1..Len(entries) /\ n - 1 \in 0..Len(entries) /\ Good(n - 1) /\ ~Good(n)
    <3>1. n \in 0..Len(entries) /\ n # 0 /\ ~Good(n)
      BY <1>3
    <3>2. n \in 1..Len(entries) /\ n - 1 \in 0..Len(entries) /\ ~(n <= n - 1)
      BY <1>1, <3>1
    <3> QED BY <2>1, <3>1, <3>2
  <2> DEFINE e == entries[n]
             E == F \ Done(n - 1)
  <2>3. e \in Entries /\ e \in ToSet(entries)
    BY <1>1, <2>2 DEF ToSet
  <2>4. Done(n) = Done(n - 1) \cup {e}
    <3>1. 1..n = (1..(n - 1)) \cup {n}
      BY <1>1, <2>2
    <3> QED BY <3>1
  <2>5. E \ {e} = F \ Done(n)
    BY <2>4
  <2>6. \A f \in E : f.seq \in Nat
    OBVIOUS
  <2>7. BookOK(b[n - 1], R, E) /\ LiveOf(b[n - 1]) \subseteq LiveOf(bk)
    BY <2>2
  <2> HIDE DEF b, E, e
  <2>8. LET after == apply_free(b[n - 1], e.seq, e.addr)
        IN  BookOK(after, R, E \ {e}) /\ LiveOf(after) \subseteq LiveOf(b[n - 1])
    BY <2>3, <2>6, <2>7, FreeApplied
  <2>9. b[n] = apply_free(b[n - 1], e.seq, e.addr)
    BY <1>2, <2>2 DEF e
  <2> QED BY <2>2, <2>5, <2>7, <2>8, <2>9
<1>5. Done(Len(entries)) = ToSet(entries)
  BY <1>1 DEF ToSet
<1>6. Good(Len(entries))
  <2>1. Len(entries) \in 0..Len(entries)
    BY <1>1
  <2> HIDE DEF Good
  <2> QED BY <1>4, <2>1
<1> QED BY <1>5, <1>6

------------------------------------------------------------------------------
(* The ring.                                                                *)

(* A record is an allocation's or a batch of frees, told by its kind.        *)
LEMMA Kinds ==
  ASSUME NEW r \in Records
  PROVE  /\ r.kind \in {"alloc", "frees"} /\ r.owner \in Callers /\ r.pub \in BOOLEAN
         /\ r.kind = "alloc" <=> r \in AllocRecords
         /\ r.kind = "frees" <=> r \in FreesRecords
BY DEF Records, AllocRecords, FreesRecords

(* The fields of an allocation's record.                                     *)
LEMMA AllocFields ==
  ASSUME NEW r \in AllocRecords
  PROVE  /\ r.kind = "alloc" /\ r.owner \in Callers /\ r.pub \in BOOLEAN /\ r.seq \in Nat
         /\ r.addr \in Addrs /\ r.size \in SampleSizes /\ r.site \in Sites
BY DEF AllocRecords

(* The fields of a batch's record.                                           *)
LEMMA FreesFields ==
  ASSUME NEW r \in FreesRecords
  PROVE  r.kind = "frees" /\ r.owner \in Callers /\ r.pub \in BOOLEAN /\ r.entries \in Seq(Entries)
BY DEF FreesRecords

SameButPub(r, u) ==
  /\ u.kind = r.kind /\ u.owner = r.owner
  /\ r.kind = "alloc" => u.seq = r.seq /\ u.addr = r.addr /\ u.size = r.size /\ u.site = r.site
  /\ r.kind = "frees" => u.entries = r.entries

(* Publishing changes the published mark of a record and nothing else.       *)
LEMMA PubEdit ==
  ASSUME NEW r \in Records
  PROVE  LET u == [r EXCEPT !.pub = TRUE]
         IN  u \in Records /\ u.pub = TRUE /\ SameButPub(r, u)
<1>1. CASE r \in AllocRecords
  BY <1>1 DEF AllocRecords, Records, SameButPub
<1>2. CASE r \in FreesRecords
  BY <1>2 DEF FreesRecords, Records, SameButPub
<1> QED BY <1>1, <1>2 DEF Records

(* Stamping changes the number of an allocation's record and nothing else.   *)
LEMMA SeqEdit ==
  ASSUME NEW r \in AllocRecords, NEW n \in Nat
  PROVE  LET u == [r EXCEPT !.seq = n]
         IN  /\ u \in AllocRecords /\ u.seq = n /\ u.pub = r.pub /\ u.owner = r.owner
             /\ u.kind = "alloc" /\ u.addr = r.addr /\ u.size = r.size /\ u.site = r.site
BY DEF AllocRecords

(* The ring with one record changed.                                         *)
LEMMA RingPut ==
  ASSUME NEW q \in Seq(Records), NEW k \in DOMAIN q, NEW r \in Records
  PROVE  LET p == [q EXCEPT ![k] = r]
         IN  /\ p \in Seq(Records) /\ Len(p) = Len(q) /\ DOMAIN p = DOMAIN q /\ p[k] = r
             /\ \A i \in DOMAIN q : i # k => p[i] = q[i]
OBVIOUS

(* The ring with one more record.                                            *)
LEMMA RingAppend ==
  ASSUME NEW q \in Seq(Records), NEW r \in Records
  PROVE  LET p == Append(q, r)
         IN  /\ p \in Seq(Records) /\ Len(p) = Len(q) + 1 /\ DOMAIN p = DOMAIN q \cup {Len(q) + 1}
             /\ p[Len(q) + 1] = r /\ Len(q) + 1 \notin DOMAIN q
             /\ \A i \in DOMAIN q : p[i] = q[i] /\ i < Len(q) + 1
<1>1. Len(q) \in Nat /\ DOMAIN q = 1..Len(q)
  OBVIOUS
<1> QED BY <1>1

(* The ring without its oldest record.                                       *)
LEMMA RingTail ==
  ASSUME NEW q \in Seq(Records), q # << >>
  PROVE  /\ Tail(q) \in Seq(Records) /\ Len(Tail(q)) = Len(q) - 1 /\ Len(q) \in Nat \ {0}
         /\ \A i \in DOMAIN Tail(q) : i \in Nat /\ i + 1 \in DOMAIN q /\ Tail(q)[i] = q[i + 1]
         /\ \A i \in DOMAIN q : i # 1 => i - 1 \in DOMAIN Tail(q) /\ Tail(q)[i - 1] = q[i]
         /\ 1 \in DOMAIN q /\ Head(q) = q[1] /\ q[1] \in Records
<1>1. Len(q) \in Nat /\ DOMAIN q = 1..Len(q) /\ Len(q) # 0
  OBVIOUS
<1>2. Tail(q) \in Seq(Records) /\ Len(Tail(q)) = Len(q) - 1
  BY <1>1
<1>3. DOMAIN Tail(q) = 1..(Len(q) - 1)
  BY <1>1, <1>2
<1>4. \A i \in 1..(Len(q) - 1) : Tail(q)[i] = q[i + 1]
  BY <1>1
<1>5. \A i \in DOMAIN Tail(q) : i \in Nat /\ i + 1 \in DOMAIN q /\ Tail(q)[i] = q[i + 1]
  BY <1>1, <1>3, <1>4
<1>6. \A i \in DOMAIN q : i # 1 => i - 1 \in DOMAIN Tail(q) /\ Tail(q)[i - 1] = q[i]
  <2> SUFFICES ASSUME NEW i \in DOMAIN q, i # 1
               PROVE  i - 1 \in DOMAIN Tail(q) /\ Tail(q)[i - 1] = q[i]
    OBVIOUS
  <2>1. i - 1 \in 1..(Len(q) - 1) /\ (i - 1) + 1 = i
    BY <1>1
  <2> QED BY <1>3, <1>4, <2>1
<1>7. 1 \in DOMAIN q /\ Head(q) = q[1] /\ q[1] \in Records
  BY <1>1
<1> QED BY <1>1, <1>2, <1>5, <1>6, <1>7

(* The allocations on the ring are those of its numbered records.            *)
LEMMA InRingIs ==
  \A q, p : p \in InRingOf(q) <=> \E i \in DOMAIN q : Numbered(q[i]) /\ p = RecordOf(q[i])
BY DEF InRingOf

(* The object an allocation's record tells of is typed.                      *)
LEMMA RecordIs ==
  ASSUME NEW r \in AllocRecords
  PROVE  /\ RecordOf(r)[1] = r.addr /\ RecordOf(r)[2].seq = r.seq
         /\ RecordOf(r) = <<RecordOf(r)[1], RecordOf(r)[2]>>
         /\ RecordOf(r)[1] \in Addrs /\ RecordOf(r)[2] \in LiveEntries
BY DEF RecordOf, AllocRecords, LiveEntries

(* So is every object on the ring, and its number is not zero.               *)
LEMMA InRingTyped ==
  ASSUME NEW q \in Seq(Records), NEW p \in InRingOf(q)
  PROVE  p[1] \in Addrs /\ p[2] \in LiveEntries /\ p[2].seq \in Nat /\ p[2].seq # 0
<1>1. PICK i \in DOMAIN q : Numbered(q[i]) /\ p = RecordOf(q[i])
  BY InRingIs
<1>2. q[i] \in AllocRecords /\ q[i].seq # 0
  BY <1>1, Kinds DEF Numbered
<1> QED BY <1>1, <1>2, RecordIs, AllocFields

(* The frees in batches b and ring q.                                        *)
IsFree(b, q, e) ==
  \/ \E t \in Callers : e \in ToSet(b[t])
  \/ \E i \in DOMAIN q : q[i].kind = "frees" /\ q[i].pub /\ e \in ToSet(q[i].entries)
Batched(b) == UNION {ToSet(b[t]) : t \in Callers}
Published(q) == {j \in DOMAIN q : q[j].kind = "frees" /\ q[j].pub}
OnRing(q) == UNION {ToSet(q[i].entries) : i \in Published(q)}
FreesIn(b, q) == Batched(b) \cup OnRing(q)

(* A free is under way when a thread's batch or a published record holds     *)
(* it.                                                                       *)
LEMMA FreesInIs == \A b, q, e : e \in FreesIn(b, q) <=> IsFree(b, q, e)
<1> SUFFICES ASSUME NEW b, NEW q, NEW e PROVE e \in FreesIn(b, q) <=> IsFree(b, q, e)
  OBVIOUS
<1>1. e \in Batched(b) <=> \E t \in Callers : e \in ToSet(b[t])
  BY DEF Batched
<1>2. e \in OnRing(q) <=> \E i \in Published(q) : e \in ToSet(q[i].entries)
  BY DEF OnRing
<1>3. (\E i \in Published(q) : e \in ToSet(q[i].entries))
        <=> \E i \in DOMAIN q : q[i].kind = "frees" /\ q[i].pub /\ e \in ToSet(q[i].entries)
  BY DEF Published
<1> QED BY <1>1, <1>2, <1>3 DEF IsFree, FreesIn

(* PendingFrees, of this state and of the next, as one operator of the       *)
(* batches and the ring.                                                     *)
LEMMA PendingIs == PendingFrees = FreesIn(batch, ring) /\ PendingFrees' = FreesIn(batch', ring')
<1>1. InBatches = Batched(batch) /\ InBatches' = Batched(batch')
  BY DEF InBatches, Batched
<1>2. PublishedBatches = Published(ring) /\ PublishedBatches' = Published(ring')
  BY DEF PublishedBatches, Published
<1>3. PublishedFrees = OnRing(ring) /\ PublishedFrees' = OnRing(ring')
  BY <1>2 DEF PublishedFrees, OnRing
<1> QED BY <1>1, <1>3 DEF PendingFrees, FreesIn

(* The frees under way are typed.                                            *)
LEMMA FreesTyped ==
  ASSUME NEW b \in [Callers -> Seq(Entries)], NEW q \in Seq(Records), NEW e \in FreesIn(b, q)
  PROVE  e \in Entries /\ e.seq \in Nat /\ e.addr \in Addrs
<1>1. e \in Entries
  <2>1. CASE \E t \in Callers : e \in ToSet(b[t])
    BY <2>1 DEF ToSet
  <2>2. CASE \E i \in DOMAIN q : q[i].kind = "frees" /\ q[i].pub /\ e \in ToSet(q[i].entries)
    <3>1. PICK i \in DOMAIN q : q[i].kind = "frees" /\ q[i].pub /\ e \in ToSet(q[i].entries)
      BY <2>2
    <3>2. q[i].entries \in Seq(Entries)
      BY <3>1, Kinds, FreesFields
    <3> QED BY <3>1, <3>2 DEF ToSet
  <2> QED BY <2>1, <2>2, FreesInIs DEF IsFree
<1> QED BY <1>1 DEF Entries

(* The slot of a thread, and what stamping and publishing do to it.          *)
LEMMA SlotIs ==
  ASSUME Types, Slots, NEW t \in Callers, pc[t] \in {"stamp", "publish", "publish_frees"}
  PROVE  /\ SlotOf(t) \in DOMAIN ring /\ ring[SlotOf(t)] \in Records
         /\ ring[SlotOf(t)].owner = t /\ ~ring[SlotOf(t)].pub /\ Reserved(SlotOf(t))
         /\ \A i \in DOMAIN ring : ~ring[i].pub /\ ring[i].owner = t => i = SlotOf(t)
<1>1. \E i \in DOMAIN ring : ring[i].owner = t /\ ~ring[i].pub
  BY DEF Slots
<1>2. SlotOf(t) \in DOMAIN ring /\ ring[SlotOf(t)].owner = t /\ ~ring[SlotOf(t)].pub
  BY <1>1 DEF SlotOf
<1>3. ring \in Seq(Records)
  BY DEF Types
<1> QED BY <1>2, <1>3 DEF Slots

Edited(k, u) ==
  /\ ring' \in Seq(Records) /\ Len(ring') = Len(ring) /\ DOMAIN ring' = DOMAIN ring
  /\ k \in DOMAIN ring /\ ring'[k] = u /\ u \in Records
  /\ \A i \in DOMAIN ring : i # k => ring'[i] = ring[i]

(* shim.rs, emit_alloc_record: the number goes into the thread's own         *)
(* reserved record, which had none.                                          *)
LEMMA StampEdits ==
  ASSUME Types, Slots, NEW t \in Callers, StampAlloc(t)
  PROVE  LET r == ring[SlotOf(t)]
             u == [r EXCEPT !.seq = g_seq]
         IN  /\ Edited(SlotOf(t), u) /\ r \in AllocRecords /\ r.seq = 0 /\ ~r.pub /\ r.owner = t
             /\ r.addr = arg[t].addr /\ u \in AllocRecords /\ u.kind = "alloc" /\ u.owner = t
             /\ ~u.pub /\ u.seq = g_seq /\ u.addr = arg[t].addr
             /\ \A i \in DOMAIN ring : ~ring[i].pub /\ ring[i].owner = t => i = SlotOf(t)
<1> DEFINE k == SlotOf(t)
           r == ring[k]
           u == [r EXCEPT !.seq = g_seq]
<1>1. pc[t] = "stamp" /\ g_seq \in Nat /\ ring \in Seq(Records)
  BY DEF StampAlloc, Types, TypeOK
<1>2. /\ k \in DOMAIN ring /\ r \in Records /\ r.owner = t /\ ~r.pub /\ Reserved(k)
      /\ \A i \in DOMAIN ring : ~ring[i].pub /\ ring[i].owner = t => i = k
  BY <1>1, SlotIs
<1>3. ring' = [ring EXCEPT ![k] = u]
  BY DEF StampAlloc
<1> HIDE DEF k
<1>4. r \in AllocRecords /\ r.seq = 0 /\ r.addr = arg[t].addr
  BY <1>1, <1>2, Kinds DEF Reserved
<1> HIDE DEF r
<1>5. /\ u \in AllocRecords /\ u.seq = g_seq /\ u.pub = r.pub /\ u.owner = r.owner
      /\ u.kind = "alloc" /\ u.addr = r.addr
  BY <1>1, <1>4, SeqEdit
<1> HIDE DEF u
<1>6. u \in Records
  BY <1>5 DEF Records
<1>7. Edited(k, u)
  BY <1>1, <1>2, <1>3, <1>6, RingPut DEF Edited
<1> QED BY <1>2, <1>4, <1>5, <1>7 DEF k, r, u

(* Publishing touches the thread's one reserved record.                      *)
LEMMA PublishEdits ==
  ASSUME Types, Slots, NEW t \in Callers, PublishAlloc(t) \/ PublishFrees(t)
  PROVE  LET r == ring[SlotOf(t)]
             u == [r EXCEPT !.pub = TRUE]
         IN  /\ Edited(SlotOf(t), u) /\ r \in Records /\ ~r.pub /\ r.owner = t /\ u.pub
             /\ SameButPub(r, u) /\ Reserved(SlotOf(t))
             /\ \A i \in DOMAIN ring : ~ring[i].pub /\ ring[i].owner = t => i = SlotOf(t)
<1> DEFINE k == SlotOf(t)
           r == ring[k]
           u == [r EXCEPT !.pub = TRUE]
<1>1. pc[t] \in {"publish", "publish_frees"} /\ ring \in Seq(Records)
  BY DEF PublishAlloc, PublishFrees, Types
<1>2. /\ k \in DOMAIN ring /\ r \in Records /\ r.owner = t /\ ~r.pub /\ Reserved(k)
      /\ \A i \in DOMAIN ring : ~ring[i].pub /\ ring[i].owner = t => i = k
  BY <1>1, SlotIs
<1>3. ring' = [ring EXCEPT ![k] = u]
  BY DEF PublishAlloc, PublishFrees
<1> HIDE DEF k, r
<1>4. u \in Records /\ u.pub /\ SameButPub(r, u)
  BY <1>2, PubEdit
<1> HIDE DEF u
<1>5. Edited(k, u)
  BY <1>1, <1>2, <1>3, <1>4, RingPut DEF Edited
<1> QED BY <1>2, <1>4, <1>5 DEF k, r, u

------------------------------------------------------------------------------
(* The types.                                                               *)

Cells == [st : {"free", "coming", "held", "leaving"}, seq : Nat]
Lines == {"idle", "reserve", "stamp", "publish", "queue", "flush", "publish_frees", "finish"}

(* The parts of Types, each by itself.                                       *)
LEMMA TypesAre ==
  ASSUME Types
  PROVE  /\ heap \in [Addrs -> Cells] /\ pc \in [Callers -> Lines]
         /\ allocs \in 0..MaxAllocs /\ g_seq \in Nat /\ g_seq # 0 /\ lost_frees \in Nat
         /\ op \in [Callers -> {"none", "free", "realloc"}] /\ refused \in Nat /\ spoiled \subseteq Nat
         /\ arg \in [Callers -> Args] /\ batch \in [Callers -> Seq(Entries)] /\ ring \in Seq(Records)
         /\ book \in Books /\ Len(ring) <= RingCap
         /\ \A t \in Callers :
              /\ Len(batch[t]) \in Nat /\ Len(batch[t]) <= FREE_BATCH_CAP
              /\ arg[t].addr \in Addrs /\ arg[t].size \in Nat /\ arg[t].site \in Sites
         /\ \A a \in Addrs : heap[a].seq \in Nat /\ heap[a].st \in {"free", "coming", "held", "leaving"}
<1>1. \A t \in Callers : arg[t].addr \in Addrs /\ arg[t].size \in Nat /\ arg[t].site \in Sites
  BY DEF Types, Args
<1>2. heap \in [Addrs -> Cells]
  BY DEF Types, TypeOK, Cells
<1>3. \A a \in Addrs : heap[a].seq \in Nat /\ heap[a].st \in {"free", "coming", "held", "leaving"}
  BY <1>2 DEF Cells
<1>4. \A t \in Callers : Len(batch[t]) \in Nat /\ Len(batch[t]) <= FREE_BATCH_CAP
  <2> SUFFICES ASSUME NEW t \in Callers PROVE Len(batch[t]) \in Nat /\ Len(batch[t]) <= FREE_BATCH_CAP
    OBVIOUS
  <2>1. batch[t] \in Seq(Entries)
    BY DEF Types
  <2> QED BY <2>1 DEF Types, TypeOK
<1> QED BY <1>1, <1>2, <1>3, <1>4 DEF Types, TypeOK, Lines

(* What to show of a step for Types to hold after it.                        *)
LEMMA TypesFrom ==
  ASSUME heap' \in [Addrs -> Cells], pc' \in [Callers -> Lines], allocs' \in 0..MaxAllocs,
         g_seq' \in Nat, g_seq' # 0, lost_frees' \in Nat,
         op' \in [Callers -> {"none", "free", "realloc"}], refused' \in Nat, spoiled' \subseteq Nat,
         arg' \in [Callers -> Args], batch' \in [Callers -> Seq(Entries)], ring' \in Seq(Records),
         book' \in Books, Len(ring') <= RingCap,
         \A t \in Callers :
           /\ Len(batch'[t]) <= FREE_BATCH_CAP
           /\ pc'[t] \notin {"flush", "publish_frees"} => Len(batch'[t]) < FREE_BATCH_CAP
           /\ pc'[t] \in Coming => arg'[t].size \in SampleSizes
  PROVE  Types'
<1>1. book'.live \in [Addrs -> Seq([seq : Nat, size : SampleSizes, site : Sites])]
  BY DEF Books, LiveEntries
<1>2. TypeOK'
  BY <1>1 DEF TypeOK, Cells, Lines
<1> QED BY <1>2 DEF Types

(* The argument of an idle thread is typed.                                  *)
LEMMA NoArgTyped == NoArg \in Args
BY TrackAssumption DEF NoArg, Args

(* The heap with one cell in another state.                                  *)
LEMMA StSet ==
  ASSUME NEW h \in [Addrs -> Cells], NEW a \in Addrs, NEW l \in {"free", "coming", "held", "leaving"}
  PROVE  LET k == [h EXCEPT ![a].st = l]
         IN  /\ k \in [Addrs -> Cells] /\ k[a].st = l /\ k[a].seq = h[a].seq
             /\ \A b \in Addrs : k[b].seq = h[b].seq
             /\ \A b \in Addrs : b # a => k[b] = h[b]
BY DEF Cells

(* The heap with one cell replaced.                                          *)
LEMMA CellSet ==
  ASSUME NEW h \in [Addrs -> Cells], NEW a \in Addrs, NEW c \in Cells
  PROVE  LET k == [h EXCEPT ![a] = c]
         IN  k \in [Addrs -> Cells] /\ k[a] = c /\ \A b \in Addrs : b # a => k[b] = h[b]
OBVIOUS

(* A cell with no number is typed.                                           *)
LEMMA CellsTyped ==
  ASSUME NEW l \in {"free", "coming", "held", "leaving"}
  PROVE  [st |-> l, seq |-> 0] \in Cells
BY DEF Cells

(* The argument of a sampled allocation is typed.                            *)
LEMMA ArgTyped ==
  ASSUME NEW a \in Addrs, NEW n \in SampleSizes, NEW c \in Sites
  PROVE  LET r == [addr |-> a, size |-> n, site |-> c]
         IN  r \in Args /\ r.addr = a /\ r.size = n /\ r.site = c
BY TrackAssumption DEF Args

(* The arguments with the address of one call changed, as realloc's move     *)
(* does.                                                                     *)
LEMMA ArgEdit ==
  ASSUME NEW g \in [Callers -> Args], NEW t \in Callers, NEW a \in Addrs
  PROVE  LET k == [g EXCEPT ![t].addr = a]
         IN  k \in [Callers -> Args] /\ k[t].addr = a /\ \A u \in Callers : u # t => k[u] = g[u]
BY DEF Args

(* The records the shim writes, emit_alloc_record's and flush_frees's, are   *)
(* typed.                                                                    *)
LEMMA RecordsTyped ==
  ASSUME Types, NEW t \in Callers
  PROVE  /\ pc[t] = "reserve" => /\ AllocRecord(t) \in AllocRecords /\ AllocRecord(t) \in Records
                                 /\ AllocRecord(t).kind = "alloc" /\ AllocRecord(t).seq = 0
                                 /\ AllocRecord(t).owner = t /\ AllocRecord(t).pub = FALSE
                                 /\ AllocRecord(t).addr = arg[t].addr
         /\ FreesRecord(t) \in FreesRecords /\ FreesRecord(t) \in Records
         /\ FreesRecord(t).kind = "frees" /\ FreesRecord(t).owner = t /\ FreesRecord(t).pub = FALSE
         /\ FreesRecord(t).entries = batch[t]
<1>1. /\ arg[t].addr \in Addrs /\ arg[t].site \in Sites /\ batch[t] \in Seq(Entries)
      /\ pc[t] = "reserve" => arg[t].size \in SampleSizes
  BY TypesAre DEF Types, Coming
<1>2. pc[t] = "reserve" => AllocRecord(t) \in AllocRecords
  BY <1>1 DEF AllocRecord, AllocRecords
<1>3. FreesRecord(t) \in FreesRecords
  BY <1>1 DEF FreesRecord, FreesRecords
<1>4. /\ AllocRecord(t).kind = "alloc" /\ AllocRecord(t).seq = 0
      /\ AllocRecord(t).owner = t /\ AllocRecord(t).pub = FALSE
      /\ AllocRecord(t).addr = arg[t].addr
  BY DEF AllocRecord
<1>5. /\ FreesRecord(t).kind = "frees" /\ FreesRecord(t).owner = t /\ FreesRecord(t).pub = FALSE
      /\ FreesRecord(t).entries = batch[t]
  BY DEF FreesRecord
<1> QED BY <1>2, <1>3, <1>4, <1>5 DEF Records

(* What a call does to the cell of its address.                              *)
LEMMA StIs ==
  ASSUME Types, NEW t \in Callers, NEW l \in {"free", "coming", "held", "leaving"}, heap' = [heap EXCEPT ![arg[t].addr].st = l]
  PROVE  /\ heap' \in [Addrs -> Cells] /\ heap'[arg[t].addr].st = l
         /\ \A b \in Addrs : heap'[b].seq = heap[b].seq
         /\ \A b \in Addrs : b # arg[t].addr => heap'[b] = heap[b]
<1> DEFINE a == arg[t].addr
<1>1. a \in Addrs /\ heap \in [Addrs -> Cells] /\ heap' = [heap EXCEPT ![a].st = l]
  BY TypesAre
<1> HIDE DEF a
<1>2. heap' = [heap EXCEPT ![a] = [heap[a] EXCEPT !.st = l]] /\ heap[a] \in Cells
  BY <1>1
<1> DEFINE c == [heap[a] EXCEPT !.st = l]
<1>3. c \in Cells /\ c.st = l /\ c.seq = heap[a].seq
  BY <1>1, <1>2 DEF Cells
<1> HIDE DEF c
<1>4. heap' \in [Addrs -> Cells] /\ heap'[a] = c /\ \A b \in Addrs : b # a => heap'[b] = heap[b]
  BY <1>1, <1>2, <1>3 DEF c
<1> QED BY <1>3, <1>4 DEF a

(* What stamping does to the cell of its address.                            *)
LEMMA SeqIs ==
  ASSUME Types, NEW t \in Callers, heap' = [heap EXCEPT ![arg[t].addr].seq = g_seq]
  PROVE  /\ heap' \in [Addrs -> Cells] /\ heap'[arg[t].addr].seq = g_seq
         /\ heap'[arg[t].addr].st = heap[arg[t].addr].st
         /\ \A b \in Addrs : b # arg[t].addr => heap'[b] = heap[b]
<1> DEFINE a == arg[t].addr
<1>1. a \in Addrs /\ heap \in [Addrs -> Cells] /\ heap' = [heap EXCEPT ![a].seq = g_seq] /\ g_seq \in Nat
  BY TypesAre
<1> HIDE DEF a
<1>2. heap' = [heap EXCEPT ![a] = [heap[a] EXCEPT !.seq = g_seq]] /\ heap[a] \in Cells
  BY <1>1
<1> DEFINE c == [heap[a] EXCEPT !.seq = g_seq]
<1>3. c \in Cells /\ c.seq = g_seq /\ c.st = heap[a].st
  BY <1>1, <1>2 DEF Cells
<1> HIDE DEF c
<1>4. heap' \in [Addrs -> Cells] /\ heap'[a] = c /\ \A b \in Addrs : b # a => heap'[b] = heap[b]
  BY <1>1, <1>2, <1>3 DEF c
<1> QED BY <1>3, <1>4 DEF a

(* Reserving adds one unpublished record of the thread at the ring's end.    *)
LEMMA ReserveEdits ==
  ASSUME Types, NEW t \in Callers, ReserveAlloc(t) \/ ReserveFrees(t)
  PROVE  LET r == ring'[Len(ring) + 1]
         IN  /\ ring' \in Seq(Records) /\ Len(ring') <= RingCap
             /\ DOMAIN ring' = DOMAIN ring \cup {Len(ring) + 1} /\ Len(ring) + 1 \notin DOMAIN ring
             /\ \A i \in DOMAIN ring : ring'[i] = ring[i] /\ i < Len(ring) + 1
             /\ r \in Records /\ r.owner = t /\ r.pub = FALSE
             /\ ReserveAlloc(t) => r.kind = "alloc" /\ r.seq = 0 /\ r.addr = arg[t].addr
             /\ ReserveFrees(t) => r.kind = "frees" /\ r.entries = batch[t]
<1>1. ring \in Seq(Records) /\ Len(ring) \in Nat
  BY TypesAre
<1>2. ASSUME NEW r \in Records, ring' = Append(ring, r), Len(ring) < RingCap
      PROVE  /\ ring' \in Seq(Records) /\ Len(ring') <= RingCap
             /\ DOMAIN ring' = DOMAIN ring \cup {Len(ring) + 1} /\ Len(ring) + 1 \notin DOMAIN ring
             /\ \A i \in DOMAIN ring : ring'[i] = ring[i] /\ i < Len(ring) + 1
             /\ ring'[Len(ring) + 1] = r
  <2>1. /\ ring' \in Seq(Records) /\ Len(ring') = Len(ring) + 1
        /\ DOMAIN ring' = DOMAIN ring \cup {Len(ring) + 1} /\ Len(ring) + 1 \notin DOMAIN ring
        /\ \A i \in DOMAIN ring : ring'[i] = ring[i] /\ i < Len(ring) + 1
        /\ ring'[Len(ring) + 1] = r
    BY <1>1, <1>2, RingAppend
  <2>2. Len(ring) + 1 <= RingCap
    BY <1>1, <1>2, TrackAssumption
  <2> QED BY <2>1, <2>2
<1>3. CASE ReserveAlloc(t)
  <2>1. /\ pc[t] = "reserve" /\ ring' = Append(ring, AllocRecord(t)) /\ Len(ring) < RingCap
        /\ ~ReserveFrees(t)
    BY <1>3 DEF ReserveAlloc, ReserveFrees
  <2>2. /\ AllocRecord(t) \in Records /\ AllocRecord(t).kind = "alloc" /\ AllocRecord(t).seq = 0
        /\ AllocRecord(t).owner = t /\ AllocRecord(t).pub = FALSE
        /\ AllocRecord(t).addr = arg[t].addr
    BY <2>1, RecordsTyped
  <2> QED BY <1>2, <2>1, <2>2
<1>4. CASE ReserveFrees(t)
  <2>1. /\ pc[t] = "flush" /\ ring' = Append(ring, FreesRecord(t)) /\ Len(ring) < RingCap
        /\ ~ReserveAlloc(t)
    BY <1>4 DEF ReserveAlloc, ReserveFrees
  <2>2. /\ FreesRecord(t) \in Records
        /\ FreesRecord(t).kind = "frees" /\ FreesRecord(t).owner = t /\ FreesRecord(t).pub = FALSE
        /\ FreesRecord(t).entries = batch[t]
    BY RecordsTyped
  <2> QED BY <1>2, <2>1, <2>2
<1> QED BY <1>3, <1>4

------------------------------------------------------------------------------
(* Drain.                                                                   *)

(* What a drained record takes from the allocations on the ring and from     *)
(* the frees under way, and that it takes no more.                           *)
LEMMA TailViews ==
  ASSUME NEW q \in Seq(Records), q # << >>, NEW b
  PROVE  /\ InRingOf(Tail(q)) \subseteq InRingOf(q)
         /\ Numbered(q[1]) => RecordOf(q[1]) \in InRingOf(q)
         /\ \A p \in InRingOf(q) : p \in InRingOf(Tail(q)) \/ (Numbered(q[1]) /\ p = RecordOf(q[1]))
         /\ FreesIn(b, Tail(q)) \subseteq FreesIn(b, q)
         /\ q[1].kind = "frees" /\ q[1].pub => \A e \in ToSet(q[1].entries) : e \in FreesIn(b, q)
         /\ \A e \in FreesIn(b, q) :
              e \in FreesIn(b, Tail(q)) \/ (q[1].kind = "frees" /\ q[1].pub /\ e \in ToSet(q[1].entries))
<1>1. /\ \A i \in DOMAIN Tail(q) : i + 1 \in DOMAIN q /\ Tail(q)[i] = q[i + 1]
      /\ \A i \in DOMAIN q : i # 1 => i - 1 \in DOMAIN Tail(q) /\ Tail(q)[i - 1] = q[i]
      /\ 1 \in DOMAIN q
  BY RingTail
<1> DEFINE z == Tail(q)
<1> HIDE DEF z
<1>2. /\ \A i \in DOMAIN z : \E j \in DOMAIN q : z[i] = q[j]
      /\ \A i \in DOMAIN q : i # 1 => \E j \in DOMAIN z : z[j] = q[i]
  BY <1>1 DEF z
<1>3. InRingOf(z) \subseteq InRingOf(q)
  BY <1>2, InRingIs
<1>4. \A p \in InRingOf(q) : p \in InRingOf(z) \/ (Numbered(q[1]) /\ p = RecordOf(q[1]))
  <2> SUFFICES ASSUME NEW p \in InRingOf(q)
               PROVE  p \in InRingOf(z) \/ (Numbered(q[1]) /\ p = RecordOf(q[1]))
    OBVIOUS
  <2>1. PICK i \in DOMAIN q : Numbered(q[i]) /\ p = RecordOf(q[i])
    BY InRingIs
  <2>2. CASE i = 1
    BY <2>1, <2>2
  <2>3. CASE i # 1
    <3>1. PICK j \in DOMAIN z : z[j] = q[i]
      BY <1>2, <2>3
    <3> QED BY <2>1, <3>1, InRingIs
  <2> QED BY <2>2, <2>3
<1>5. FreesIn(b, z) \subseteq FreesIn(b, q)
  <2> SUFFICES ASSUME NEW e \in FreesIn(b, z) PROVE IsFree(b, q, e)
    BY FreesInIs
  <2>1. IsFree(b, z, e)
    BY FreesInIs
  <2> QED BY <1>2, <2>1 DEF IsFree
<1>6. \A e \in FreesIn(b, q) :
        e \in FreesIn(b, z) \/ (q[1].kind = "frees" /\ q[1].pub /\ e \in ToSet(q[1].entries))
  <2> SUFFICES ASSUME NEW e \in FreesIn(b, q)
               PROVE  e \in FreesIn(b, z) \/ (q[1].kind = "frees" /\ q[1].pub /\ e \in ToSet(q[1].entries))
    OBVIOUS
  <2>1. IsFree(b, q, e)
    BY FreesInIs
  <2>2. CASE \E t \in Callers : e \in ToSet(b[t])
    <3>1. IsFree(b, z, e)
      BY <2>2 DEF IsFree
    <3> QED BY <3>1, FreesInIs
  <2>3. CASE \E i \in DOMAIN q : q[i].kind = "frees" /\ q[i].pub /\ e \in ToSet(q[i].entries)
    <3>1. PICK i \in DOMAIN q : q[i].kind = "frees" /\ q[i].pub /\ e \in ToSet(q[i].entries)
      BY <2>3
    <3>2. CASE i = 1
      BY <3>1, <3>2
    <3>3. CASE i # 1
      <4>1. PICK j \in DOMAIN z : z[j] = q[i]
        BY <1>2, <3>3
      <4>2. IsFree(b, z, e)
        BY <3>1, <4>1 DEF IsFree
      <4> QED BY <4>2, FreesInIs
    <3> QED BY <3>2, <3>3
  <2> QED BY <2>1, <2>2, <2>3 DEF IsFree
<1>7. q[1].kind = "frees" /\ q[1].pub => \A e \in ToSet(q[1].entries) : e \in FreesIn(b, q)
  <2> SUFFICES ASSUME q[1].kind = "frees" /\ q[1].pub, NEW e \in ToSet(q[1].entries)
               PROVE  IsFree(b, q, e)
    BY FreesInIs
  <2> QED BY <1>1 DEF IsFree
<1>8. Numbered(q[1]) => RecordOf(q[1]) \in InRingOf(q)
  BY <1>1, InRingIs
<1> QED BY <1>3, <1>4, <1>5, <1>6, <1>7, <1>8 DEF z

(* SiteTotalsBalance as a predicate of the book, now and after a step.       *)
LEMMA Balances ==
  (SiteTotalsBalance <=> Balanced(book)) /\ (SiteTotalsBalance' <=> Balanced(book'))
<1>1. Live = LiveOf(book) /\ Live' = LiveOf(book')
  BY DEF Live, LiveOf
<1>2. \A s : LiveAt(s) = OwnOf(book, s) /\ LiveAt(s)' = OwnOf(book', s)
  BY <1>1 DEF LiveAt, OwnOf
<1> QED BY <1>2 DEF SiteTotalsBalance, Balanced

(* Gone as an operator of the book and the ring.                             *)
LEMMA GoneIs == Gone = GoneOf(book, InRing)
BY DEF Gone, GoneOf, Recorded

(* A step that touches no heap cell and no call keeps the same objects.      *)
LEMMA KeptSame ==
  ASSUME UNCHANGED <<heap, spoiled, pc, arg>>
  PROVE  Kept' = Kept /\ \A p : OfKept(p)' <=> OfKept(p)
<1>1. \A a : Given(a)' <=> Given(a)
  BY DEF Given
<1>2. Kept' = Kept
  BY <1>1 DEF Kept
<1> QED BY <1>2 DEF OfKept

(* Every object recorded and every free under way has an address and a       *)
(* number.                                                                   *)
LEMMA SeqsAre ==
  ASSUME BookInv
  PROVE  /\ \A p \in Recorded : p[1] \in Addrs /\ p[2] \in LiveEntries /\ p[2].seq \in Nat
         /\ \A e \in PendingFrees : e \in Entries /\ e.seq \in Nat /\ e.addr \in Addrs
<1>1. book \in Books /\ ring \in Seq(Records) /\ batch \in [Callers -> Seq(Entries)]
  BY TypesAre DEF BookInv
<1>2. \A p \in LiveOf(book) : p[1] \in Addrs /\ p[2] \in LiveEntries
  BY <1>1, LiveTyped
<1>3. \A p \in InRing : p[1] \in Addrs /\ p[2] \in LiveEntries
  BY <1>1, InRingTyped DEF InRing
<1>4. \A e \in PendingFrees : e \in Entries /\ e.seq \in Nat /\ e.addr \in Addrs
  BY <1>1, PendingIs, FreesTyped
<1>5. \A p \in Recorded : p[1] \in Addrs /\ p[2] \in LiveEntries
  BY <1>2, <1>3 DEF Recorded
<1>6. \A l \in LiveEntries : l.seq \in Nat
  BY DEF LiveEntries
<1> QED BY <1>4, <1>5, <1>6

Drained ==
  /\ book' \in Books /\ Ascending(book)' /\ Before(LiveOf(book), InRing)'
  /\ SiteTotalsBalance' /\ KeptRecorded' /\ Accounted'
  /\ Recorded' \subseteq Recorded /\ PendingFrees' \subseteq PendingFrees
  /\ Kept' = Kept

(* The worker's step: the oldest published record leaves the ring for the    *)
(* book, and the accounting holds of what remains.                           *)
LEMMA DrainIs ==
  ASSUME BookInv, Drain
  PROVE  Drained
<1> DEFINE r == ring[1]
           R == InRingOf(Tail(ring))
           F == PendingFrees
<1>1. /\ ring \in Seq(Records) /\ book \in Books /\ batch \in [Callers -> Seq(Entries)]
      /\ lost_frees \in Nat /\ g_seq \in Nat /\ \A a \in Addrs : heap[a].seq \in Nat
  BY TypesAre DEF BookInv
<1>2. /\ ring # << >> /\ r.pub /\ book' = process_record(book, r) /\ ring' = Tail(ring)
      /\ UNCHANGED <<heap, allocs, g_seq, pc, op, arg, batch, loss, spoiled>>
      /\ r \in Records /\ 1 \in DOMAIN ring
  BY <1>1, RingTail DEF Drain
<1>3. /\ Kept' = Kept /\ \A p : OfKept(p)' <=> OfKept(p)
  BY <1>2, KeptSame
<1>4. /\ InRing' = R /\ R \subseteq InRing
      /\ Numbered(r) => RecordOf(r) \in InRing
      /\ \A p \in InRing : p \in R \/ (Numbered(r) /\ p = RecordOf(r))
      /\ F' \subseteq F
      /\ r.kind = "frees" => \A e \in ToSet(r.entries) : e \in F
      /\ \A e \in F : e \in F' \/ (r.kind = "frees" /\ e \in ToSet(r.entries))
  BY <1>1, <1>2, TailViews, PendingIs DEF InRing
<1>5. /\ Ascending(book) /\ Before(LiveOf(book), InRing) /\ RingOrder /\ FreesOlder /\ KeptRecorded
      /\ Accounted /\ Balanced(book)
  BY Balances DEF BookInv, Order
<1>6. /\ \A p \in R : /\ p[1] \in Addrs /\ p[2].seq \in Nat
                      /\ \E j \in DOMAIN ring : 1 < j /\ Numbered(ring[j]) /\ p = RecordOf(ring[j])
  <2> SUFFICES ASSUME NEW p \in R
               PROVE  /\ p[1] \in Addrs /\ p[2].seq \in Nat
                      /\ \E j \in DOMAIN ring : 1 < j /\ Numbered(ring[j]) /\ p = RecordOf(ring[j])
    OBVIOUS
  <2>1. Tail(ring) \in Seq(Records) /\ \A i \in DOMAIN Tail(ring) : i \in Nat /\ i + 1 \in DOMAIN ring /\ Tail(ring)[i] = ring[i + 1]
    BY <1>1, <1>2, RingTail
  <2>2. p[1] \in Addrs /\ p[2].seq \in Nat
    BY <2>1, InRingTyped
  <2>3. PICK i \in DOMAIN Tail(ring) : Numbered(Tail(ring)[i]) /\ p = RecordOf(Tail(ring)[i])
    BY InRingIs
  <2>4. i \in 1..Len(Tail(ring)) /\ Len(Tail(ring)) \in Nat
    BY <2>1
  <2>5. 1 < i + 1
    BY <2>4
  <2> QED BY <2>1, <2>2, <2>3, <2>5
<1>7. /\ \A e \in F : e \in Entries /\ e.seq \in Nat
      /\ \A p \in Recorded : p[2].seq \in Nat
  BY SeqsAre
<1>8. ASSUME LiveOf(book') \cup R \subseteq Recorded,
             book' \in Books, Ascending(book'), IsFiniteSet(LiveOf(book')), Balanced(book'),
             Before(LiveOf(book'), R), Matched(GoneOf(book', R), F', lost_frees),
             \A a \in Kept : \E p \in LiveOf(book') \cup R : p[1] = a /\ p[2].seq = heap[a].seq
      PROVE  Drained
  <2>1. Recorded' = LiveOf(book') \cup R
    BY <1>4 DEF Recorded, LiveOf
  <2>2. Ascending(book)' /\ Before(LiveOf(book), InRing)'
    BY <1>4, <1>8 DEF Ascending, Before, LiveOf
  <2>3. SiteTotalsBalance'
    BY <1>8, Balances
  <2>4. KeptRecorded'
    BY <1>2, <1>3, <1>8, <2>1 DEF KeptRecorded
  <2>5. Gone' = GoneOf(book', R)
    BY <1>3, <2>1 DEF Gone, GoneOf
  <2>6. IsFiniteSet(F')
    BY <1>4, <1>5, FS_Subset DEF Accounted
  <2>7. Matched(Gone, PendingFrees, lost_frees)'
    BY <1>2, <1>8, <2>5 DEF Matched, Pairs, loss
  <2>8. Accounted'
    BY <1>2, <1>5, <1>8, <2>6, <2>7 DEF Accounted, LiveOf, loss
  <2> QED BY <1>3, <1>4, <1>8, <2>1, <2>2, <2>3, <2>4, <2>8 DEF Drained
<1>9. CASE r.kind = "alloc"
  <2> DEFINE x == RecordOf(r)
  <2>1. r \in AllocRecords /\ r.seq # 0 /\ Numbered(r) /\ x \in InRing
    BY <1>2, <1>4, <1>9, Kinds DEF BookInv, Slots, Numbered
  <2>2. r.seq \in Nat /\ r.addr \in Addrs /\ r.size \in SampleSizes /\ r.site \in Sites
    BY <2>1, AllocFields
  <2>3. book' = apply_alloc(book, r.seq, r.addr, r.size, r.site)
    BY <1>2, <1>9 DEF process_record
  <2>4. x[1] = r.addr /\ x[2].seq = r.seq
    BY <2>1, RecordIs
  <2>5. \A p \in LiveOf(book) : p[1] = r.addr => p[2].seq < r.seq
    BY <1>5, <2>1, <2>4 DEF Before
  <2>6. /\ Added(book, x, book') /\ Ascending(book')
    BY <1>1, <1>5, <2>2, <2>3, <2>5, AllocAdds DEF RecordOf
  <2>7. x \notin LiveOf(book)
    BY <2>2, <2>4, <2>5
  <2>8. Balanced(book') /\ IsFiniteSet(LiveOf(book'))
    BY <1>1, <1>5, <2>6, <2>7, BalanceAdds DEF Accounted
  <2>9. book' \in Books /\ LiveOf(book') = LiveOf(book) \cup {x}
    BY <2>6 DEF Added
  <2>10. LiveOf(book') \cup R = Recorded
    BY <1>4, <2>1, <2>9 DEF Recorded
  <2>11. Before(LiveOf(book'), R)
    <3> SUFFICES ASSUME NEW p \in LiveOf(book'), NEW y \in R, p[1] = y[1] PROVE p[2].seq < y[2].seq
      BY DEF Before
    <3>1. CASE p \in LiveOf(book)
      BY <1>4, <1>5, <3>1 DEF Before
    <3>2. CASE p = x
      <4>1. PICK j \in DOMAIN ring : 1 < j /\ Numbered(ring[j]) /\ y = RecordOf(ring[j])
        BY <1>6
      <4>2. ring[j] \in AllocRecords /\ ring[j].kind = "alloc" /\ ring[j].seq # 0
        BY <1>1, <4>1, Kinds DEF Numbered
      <4>3. y[1] = ring[j].addr /\ y[2].seq = ring[j].seq
        BY <4>1, <4>2, RecordIs
      <4>4. r.seq < ring[j].seq
        BY <1>2, <1>5, <1>9, <2>4, <3>2, <4>1, <4>2, <4>3 DEF RingOrder
      <4> QED BY <2>4, <3>2, <4>3, <4>4
    <3> QED BY <2>9, <3>1, <3>2
  <2>12. F' = F
    BY <1>4, <1>9
  <2>13. GoneOf(book', R) = Gone
    BY <2>10 DEF GoneOf, Gone
  <2>14. Matched(GoneOf(book', R), F', lost_frees)
    BY <1>5, <2>12, <2>13 DEF Accounted
  <2>15. \A a \in Kept : \E p \in LiveOf(book') \cup R : p[1] = a /\ p[2].seq = heap[a].seq
    BY <1>5, <2>10 DEF KeptRecorded
  <2> QED BY <1>8, <2>6, <2>8, <2>9, <2>10, <2>11, <2>14, <2>15
<1>10. CASE r.kind = "frees"
  <2> DEFINE E == r.entries
  <2>1. r \in FreesRecords /\ E \in Seq(Entries) /\ ~Numbered(r)
    BY <1>2, <1>10, Kinds, FreesFields DEF Numbered
  <2>2. book' = BooksAfter(book, E)[Len(E)]
    BY <1>2, <1>10 DEF process_record
  <2>3. InRing = R
    BY <1>4, <2>1
  <2>4. BookOK(book, R, F)
    <3>1. Matched(GoneOf(book, R), F, lost_frees)
      BY <1>5, <2>3, GoneIs DEF Accounted
    <3>2. \A a \in Kept : \E p \in LiveOf(book) \cup R : p[1] = a /\ p[2].seq = heap[a].seq
      BY <1>5, <2>3 DEF KeptRecorded, Recorded
    <3> QED BY <1>1, <1>5, <2>3, <3>1, <3>2 DEF BookOK, Accounted
  <2>5. \A e \in ToSet(E) : /\ e.addr \in Kept => e.seq < heap[e.addr].seq
                            /\ \A p \in R : p[1] = e.addr => e.seq < p[2].seq
    <3> SUFFICES ASSUME NEW e \in ToSet(E)
                 PROVE  /\ e.addr \in Kept => e.seq < heap[e.addr].seq
                        /\ \A p \in R : p[1] = e.addr => e.seq < p[2].seq
      OBVIOUS
    <3>1. e \in F
      BY <1>4, <1>10
    <3>2. e.addr \in Kept => e.seq < heap[e.addr].seq
      BY <1>5, <3>1 DEF FreesOlder
    <3>3. ASSUME NEW p \in R, p[1] = e.addr PROVE e.seq < p[2].seq
      <4>1. PICK j \in DOMAIN ring : 1 < j /\ Numbered(ring[j]) /\ p = RecordOf(ring[j])
        BY <1>6
      <4>2. ring[j] \in AllocRecords /\ ring[j].kind = "alloc" /\ ring[j].seq # 0
        BY <1>1, <4>1, Kinds DEF Numbered
      <4>3. p[2].seq = ring[j].seq
        BY <4>1, <4>2, RecordIs
      <4>4. e.seq < ring[j].seq
        BY <1>2, <1>5, <1>10, <4>1, <4>2 DEF RingOrder
      <4> QED BY <4>3, <4>4
    <3> QED BY <3>2, <3>3
  <2>6. /\ \A p \in R : p[2].seq \in Nat
        /\ \A f \in F : f.seq \in Nat
    BY <1>6, <1>7
  <2> HIDE DEF E, R, F
  <2>7. BookOK(book', R, F \ ToSet(E)) /\ LiveOf(book') \subseteq LiveOf(book)
    BY <1>1, <2>1, <2>2, <2>4, <2>5, <2>6, BatchApplied
  <2>8. F \ ToSet(E) \subseteq F'
    BY <1>4 DEF E
  <2>9. Matched(GoneOf(book', R), F', lost_frees)
    BY <2>7, <2>8, MatchedMore DEF BookOK
  <2>10. LiveOf(book') \cup R \subseteq Recorded
    BY <2>3, <2>7 DEF Recorded
  <2> QED BY <1>8, <2>7, <2>9, <2>10 DEF BookOK
<1> QED BY <1>2, <1>9, <1>10, Kinds

(* Entering an allocation, a free or a realloc keeps the types.              *)
LEMMA AllocTypes ==
  ASSUME BookInv, NEW t \in Callers, NEW a \in Addrs
  PROVE  /\ AllocUnsampled(t, a) => Types'
         /\ \A size \in SampleSizes, site \in Sites : AllocSampled(t, a, size, site) => Types'
         /\ \A o \in {"free", "realloc"} : CallFree(t, a, o) => Types'
<1> USE TrackAssumption DEF Coming
<1>1. Types
  BY DEF BookInv
<1>2. AllocUnsampled(t, a) => Types'
  <2> SUFFICES ASSUME AllocUnsampled(t, a) PROVE Types'
    OBVIOUS
  <2>1. heap' \in [Addrs -> Cells]
    BY <1>1, TypesAre, CellSet, CellsTyped DEF AllocUnsampled
  <2>2. allocs' \in 0..MaxAllocs
    BY <1>1, TypesAre DEF AllocUnsampled
  <2> QED BY <1>1, <2>1, <2>2, TypesAre, TypesFrom DEF AllocUnsampled, loss, Types
<1>3. ASSUME NEW size \in SampleSizes, NEW site \in Sites, AllocSampled(t, a, size, site)
      PROVE  Types'
  <2>1. heap' \in [Addrs -> Cells]
    BY <1>1, <1>3, TypesAre, CellSet, CellsTyped DEF AllocSampled
  <2>2. allocs' \in 0..MaxAllocs
    BY <1>1, <1>3, TypesAre DEF AllocSampled
  <2>3. arg' \in [Callers -> Args] /\ pc' \in [Callers -> Lines] /\ pc[t] = "idle"
    BY <1>1, <1>3, TypesAre, ArgTyped DEF AllocSampled, Goto, Lines
  <2>4. \A u \in Callers :
           /\ Len(batch'[u]) <= FREE_BATCH_CAP
           /\ pc'[u] \notin {"flush", "publish_frees"} => Len(batch'[u]) < FREE_BATCH_CAP
           /\ pc'[u] \in Coming => arg'[u].size \in SampleSizes
    BY <1>1, <1>3, <2>3, TypesAre, ArgTyped DEF AllocSampled, Goto, Types
  <2> QED BY <1>1, <1>3, <2>1, <2>2, <2>3, <2>4, TypesAre, TypesFrom DEF AllocSampled, loss
<1>4. ASSUME NEW o \in {"free", "realloc"}, CallFree(t, a, o)
      PROVE  Types'
  <2>1. heap' \in [Addrs -> Cells]
    BY <1>1, <1>4, TypesAre, StSet DEF CallFree
  <2>2. allocs' \in 0..MaxAllocs /\ op' \in [Callers -> {"none", "free", "realloc"}]
    BY <1>1, <1>4, TypesAre DEF CallFree
  <2>3. arg' \in [Callers -> Args] /\ pc' \in [Callers -> Lines] /\ pc[t] = "idle"
    BY <1>1, <1>4, TypesAre, ArgEdit DEF CallFree, Goto, Lines
  <2>4. \A u \in Callers : u # t => arg'[u] = arg[u]
    BY <1>1, <1>4, TypesAre DEF CallFree
  <2>5. \A u \in Callers :
           /\ Len(batch'[u]) <= FREE_BATCH_CAP
           /\ pc'[u] \notin {"flush", "publish_frees"} => Len(batch'[u]) < FREE_BATCH_CAP
           /\ pc'[u] \in Coming => arg'[u].size \in SampleSizes
    BY <1>1, <1>4, <2>3, <2>4, TypesAre DEF CallFree, Goto, Types
  <2> QED BY <1>1, <1>4, <2>1, <2>2, <2>3, <2>5, TypesAre, TypesFrom DEF CallFree, loss
<1> QED BY <1>2, <1>3, <1>4

(* A returning call leaves its thread idle and the others alone.             *)
LEMMA Returns ==
  ASSUME Types, NEW t \in Callers, Return(t)
  PROVE  /\ pc' \in [Callers -> Lines] /\ op' \in [Callers -> {"none", "free", "realloc"}]
         /\ arg' \in [Callers -> Args]
         /\ pc'[t] = "idle" /\ arg'[t] = NoArg
         /\ \A u \in Callers : u # t => pc'[u] = pc[u] /\ arg'[u] = arg[u]
BY TypesAre, NoArgTyped DEF Return, Goto, Lines

(* The steps of emit_alloc_record keep the types.                            *)
LEMMA RecordTypes ==
  ASSUME BookInv, NEW t \in Callers
  PROVE  /\ ReserveAlloc(t) => Types'
         /\ DropAlloc(t) => Types'
         /\ StampAlloc(t) => Types'
         /\ PublishAlloc(t) => Types'
<1> USE DEF Coming
<1>1. Types /\ Slots
  BY DEF BookInv
<1>2. ASSUME ReserveAlloc(t) PROVE Types'
  <2>1. ring' \in Seq(Records) /\ Len(ring') <= RingCap
    BY <1>1, <1>2, ReserveEdits
  <2>2. pc' \in [Callers -> Lines] /\ pc[t] = "reserve" /\ \A u \in Callers : pc'[u] = IF u = t THEN "stamp" ELSE pc[u]
    BY <1>1, <1>2, TypesAre DEF ReserveAlloc, Goto, Lines
  <2>3. \A u \in Callers :
           /\ Len(batch'[u]) <= FREE_BATCH_CAP
           /\ pc'[u] \notin {"flush", "publish_frees"} => Len(batch'[u]) < FREE_BATCH_CAP
           /\ pc'[u] \in Coming => arg'[u].size \in SampleSizes
    BY <1>1, <1>2, <2>2, TypesAre DEF ReserveAlloc, Types
  <2> QED BY <1>1, <1>2, <2>1, <2>2, <2>3, TypesAre, TypesFrom DEF ReserveAlloc, loss
<1>3. ASSUME DropAlloc(t) PROVE Types'
  <2>1. heap' \in [Addrs -> Cells]
    BY <1>1, <1>3, StIs DEF DropAlloc
  <2>2. \A u \in Callers :
           /\ Len(batch'[u]) <= FREE_BATCH_CAP
           /\ pc'[u] \notin {"flush", "publish_frees"} => Len(batch'[u]) < FREE_BATCH_CAP
           /\ pc'[u] \in Coming => arg'[u].size \in SampleSizes
    BY <1>1, <1>3, Returns, TypesAre DEF DropAlloc, Types
  <2> QED BY <1>1, <1>3, <2>1, <2>2, Returns, TypesAre, TypesFrom, SMTT(30) DEF DropAlloc
<1>4. ASSUME StampAlloc(t) PROVE Types'
  <2>1. ring' \in Seq(Records) /\ Len(ring') = Len(ring)
    BY <1>1, <1>4, StampEdits DEF Edited
  <2>2. pc' \in [Callers -> Lines] /\ pc[t] = "stamp" /\ \A u \in Callers : pc'[u] = IF u = t THEN "publish" ELSE pc[u]
    BY <1>1, <1>4, TypesAre DEF StampAlloc, Goto, Lines
  <2>3. heap' \in [Addrs -> Cells] /\ g_seq' \in Nat /\ g_seq' # 0
    <3>1. heap' \in [Addrs -> Cells]
      BY <1>1, <1>4, SeqIs DEF StampAlloc
    <3>2. g_seq' = g_seq + 1
      BY <1>4 DEF StampAlloc
    <3> QED BY <1>1, <3>1, <3>2, TypesAre
  <2>4. \A u \in Callers :
           /\ Len(batch'[u]) <= FREE_BATCH_CAP
           /\ pc'[u] \notin {"flush", "publish_frees"} => Len(batch'[u]) < FREE_BATCH_CAP
           /\ pc'[u] \in Coming => arg'[u].size \in SampleSizes
    BY <1>1, <1>4, <2>2, TypesAre DEF StampAlloc, Types
  <2> QED BY <1>1, <1>4, <2>1, <2>2, <2>3, <2>4, TypesAre, TypesFrom DEF StampAlloc, loss
<1>5. ASSUME PublishAlloc(t) PROVE Types'
  <2>1. ring' \in Seq(Records) /\ Len(ring') = Len(ring)
    BY <1>1, <1>5, PublishEdits DEF Edited
  <2>2. heap' \in [Addrs -> Cells]
    BY <1>1, <1>5, StIs DEF PublishAlloc
  <2>3. \A u \in Callers :
           /\ Len(batch'[u]) <= FREE_BATCH_CAP
           /\ pc'[u] \notin {"flush", "publish_frees"} => Len(batch'[u]) < FREE_BATCH_CAP
           /\ pc'[u] \in Coming => arg'[u].size \in SampleSizes
    BY <1>1, <1>5, Returns, TypesAre DEF PublishAlloc, Types
  <2> QED BY <1>1, <1>5, <2>1, <2>2, <2>3, Returns, TypesAre, TypesFrom DEF PublishAlloc, loss
<1> QED BY <1>2, <1>3, <1>4, <1>5

(* A batch with one more free.                                               *)
LEMMA BatchAppend ==
  ASSUME NEW s \in Seq(Entries), NEW e \in Entries
  PROVE  /\ Append(s, e) \in Seq(Entries) /\ Len(Append(s, e)) = Len(s) + 1
         /\ ToSet(Append(s, e)) = ToSet(s) \cup {e}
<1>1. Len(s) \in Nat /\ DOMAIN s = 1..Len(s)
  OBVIOUS
<1>2. Append(s, e) \in Seq(Entries) /\ Len(Append(s, e)) = Len(s) + 1
  OBVIOUS
<1>3. /\ DOMAIN Append(s, e) = 1..(Len(s) + 1) /\ Append(s, e)[Len(s) + 1] = e
      /\ \A i \in 1..Len(s) : Append(s, e)[i] = s[i]
  BY <1>1
<1>4. 1..(Len(s) + 1) = 1..Len(s) \cup {Len(s) + 1}
  BY <1>1
<1> DEFINE v == Append(s, e)
           n == Len(s)
<1> HIDE DEF v, n
<1>5. ToSet(v) = ToSet(s) \cup {e}
  <2>1. DOMAIN v = DOMAIN s \cup {n + 1} /\ v[n + 1] = e /\ \A i \in DOMAIN s : v[i] = s[i]
    BY <1>1, <1>3, <1>4 DEF v, n
  <2> QED BY <2>1 DEF ToSet
<1> QED BY <1>2, <1>5 DEF v, n

(* An entry of a batch is typed.                                             *)
LEMMA EntryTyped ==
  ASSUME NEW n \in Nat, NEW a \in Addrs
  PROVE  LET e == [seq |-> n, addr |-> a] IN e \in Entries /\ e.seq = n /\ e.addr = a
BY DEF Entries

(* shim.rs, queue_free: the free takes the current number and ends the       *)
(* thread's batch.                                                           *)
LEMMA QueueEdits ==
  ASSUME Types, NEW t \in Callers, QueueFree(t)
  PROVE  LET e == [seq |-> g_seq, addr |-> arg[t].addr]
         IN  /\ e \in Entries /\ e.seq = g_seq /\ e.addr = arg[t].addr
             /\ batch' \in [Callers -> Seq(Entries)] /\ Len(batch'[t]) = Len(batch[t]) + 1
             /\ ToSet(batch'[t]) = ToSet(batch[t]) \cup {e}
             /\ \A u \in Callers : u # t => batch'[u] = batch[u]
<1>1. batch \in [Callers -> Seq(Entries)] /\ g_seq \in Nat /\ arg[t].addr \in Addrs
  BY TypesAre
<1> DEFINE e == [seq |-> g_seq, addr |-> arg[t].addr]
<1>2. e \in Entries /\ e.seq = g_seq /\ e.addr = arg[t].addr
  BY <1>1, EntryTyped
<1>3. batch' = [batch EXCEPT ![t] = Append(batch[t], e)]
  BY DEF QueueFree
<1> HIDE DEF e
<1>4. batch[t] \in Seq(Entries)
  BY <1>1
<1>5. /\ Append(batch[t], e) \in Seq(Entries) /\ Len(Append(batch[t], e)) = Len(batch[t]) + 1
      /\ ToSet(Append(batch[t], e)) = ToSet(batch[t]) \cup {e}
  BY <1>2, <1>4, BatchAppend
<1>6. /\ batch' \in [Callers -> Seq(Entries)] /\ batch'[t] = Append(batch[t], e)
      /\ \A u \in Callers : u # t => batch'[u] = batch[u]
  BY <1>1, <1>3, <1>5
<1> QED BY <1>2, <1>5, <1>6 DEF e

(* The steps of queue_free and flush_frees keep the types.                   *)
LEMMA FreeTypes ==
  ASSUME BookInv, NEW t \in Callers
  PROVE  /\ QueueFree(t) => Types'
         /\ ReserveFrees(t) => Types'
         /\ DropFrees(t) => Types'
         /\ PublishFrees(t) => Types'
<1> USE DEF Coming
<1>1. Types /\ Slots
  BY DEF BookInv
<1>2. ASSUME QueueFree(t) PROVE Types'
  <2>1. /\ batch' \in [Callers -> Seq(Entries)] /\ Len(batch'[t]) = Len(batch[t]) + 1
        /\ \A u \in Callers : u # t => batch'[u] = batch[u]
    BY <1>1, <1>2, QueueEdits
  <2>2. /\ pc' \in [Callers -> Lines] /\ pc[t] = "queue" /\ \A u \in Callers : u # t => pc'[u] = pc[u]
        /\ \/ pc'[t] = "flush"
           \/ pc'[t] = "finish" /\ Len(batch[t]) + 1 < FREE_BATCH_CAP
    BY <1>1, <1>2, TypesAre DEF QueueFree, Goto, Lines
  <2>3. Len(batch[t]) \in Nat /\ Len(batch[t]) < FREE_BATCH_CAP
    BY <1>1, <2>2, TypesAre DEF Types
  <2>4. Len(batch[t]) + 1 <= FREE_BATCH_CAP
    BY <2>3, TrackAssumption
  <2>5. \A u \in Callers :
           /\ Len(batch'[u]) <= FREE_BATCH_CAP
           /\ pc'[u] \notin {"flush", "publish_frees"} => Len(batch'[u]) < FREE_BATCH_CAP
           /\ pc'[u] \in Coming => arg'[u].size \in SampleSizes
    BY <1>1, <1>2, <2>1, <2>2, <2>4, TypesAre DEF QueueFree, Types
  <2>6. g_seq' \in Nat /\ g_seq' # 0
    BY <1>1, <1>2, TypesAre DEF QueueFree
  <2> QED BY <1>1, <1>2, <2>1, <2>2, <2>5, <2>6, TypesAre, TypesFrom DEF QueueFree, loss
<1>3. ASSUME ReserveFrees(t) PROVE Types'
  <2>1. ring' \in Seq(Records) /\ Len(ring') <= RingCap
    BY <1>1, <1>3, ReserveEdits
  <2>2. pc' \in [Callers -> Lines] /\ \A u \in Callers : pc'[u] = IF u = t THEN "publish_frees" ELSE pc[u]
    BY <1>1, <1>3, TypesAre DEF ReserveFrees, Goto, Lines
  <2>3. \A u \in Callers :
           /\ Len(batch'[u]) <= FREE_BATCH_CAP
           /\ pc'[u] \notin {"flush", "publish_frees"} => Len(batch'[u]) < FREE_BATCH_CAP
           /\ pc'[u] \in Coming => arg'[u].size \in SampleSizes
    BY <1>1, <1>3, <2>2, TypesAre DEF ReserveFrees, Types
  <2> QED BY <1>1, <1>3, <2>1, <2>2, <2>3, TypesAre, TypesFrom DEF ReserveFrees, loss
<1>4. <<>> \in Seq(Entries) /\ Len(<<>>) = 0 /\ 0 < FREE_BATCH_CAP /\ 0 <= FREE_BATCH_CAP
  BY TrackAssumption
<1>5. ASSUME DropFrees(t) PROVE Types'
  <2>1. batch' \in [Callers -> Seq(Entries)] /\ \A u \in Callers : batch'[u] = IF u = t THEN <<>> ELSE batch[u]
    BY <1>1, <1>4, <1>5, TypesAre DEF DropFrees
  <2>2. pc' \in [Callers -> Lines] /\ \A u \in Callers : pc'[u] = IF u = t THEN "finish" ELSE pc[u]
    BY <1>1, <1>5, TypesAre DEF DropFrees, Goto, Lines
  <2>3. refused' \in Nat /\ lost_frees' \in Nat
    BY <1>1, <1>5, TypesAre DEF DropFrees
  <2>4. \A u \in Callers :
           /\ Len(batch'[u]) <= FREE_BATCH_CAP
           /\ pc'[u] \notin {"flush", "publish_frees"} => Len(batch'[u]) < FREE_BATCH_CAP
           /\ pc'[u] \in Coming => arg'[u].size \in SampleSizes
    BY <1>1, <1>4, <1>5, <2>1, <2>2, TypesAre DEF DropFrees, Types
  <2> QED BY <1>1, <1>5, <2>1, <2>2, <2>3, <2>4, TypesAre, TypesFrom DEF DropFrees
<1>6. ASSUME PublishFrees(t) PROVE Types'
  <2>1. batch' \in [Callers -> Seq(Entries)] /\ \A u \in Callers : batch'[u] = IF u = t THEN <<>> ELSE batch[u]
    BY <1>1, <1>4, <1>6, TypesAre DEF PublishFrees
  <2>2. pc' \in [Callers -> Lines] /\ \A u \in Callers : pc'[u] = IF u = t THEN "finish" ELSE pc[u]
    BY <1>1, <1>6, TypesAre DEF PublishFrees, Goto, Lines
  <2>3. ring' \in Seq(Records) /\ Len(ring') = Len(ring)
    BY <1>1, <1>6, PublishEdits DEF Edited
  <2>4. \A u \in Callers :
           /\ Len(batch'[u]) <= FREE_BATCH_CAP
           /\ pc'[u] \notin {"flush", "publish_frees"} => Len(batch'[u]) < FREE_BATCH_CAP
           /\ pc'[u] \in Coming => arg'[u].size \in SampleSizes
    BY <1>1, <1>4, <1>6, <2>1, <2>2, TypesAre DEF PublishFrees, Types
  <2> QED BY <1>1, <1>6, <2>1, <2>2, <2>3, <2>4, TypesAre, TypesFrom DEF PublishFrees, loss
<1> QED BY <1>2, <1>3, <1>5, <1>6

(* The real free and the real realloc keep the types.                        *)
LEMMA FinishTypes ==
  ASSUME BookInv, NEW t \in Callers
  PROVE  /\ RealFree(t) => Types'
         /\ FailedRealloc(t) => Types'
         /\ \A b \in Addrs, sampled \in BOOLEAN, size \in SampleSizes, site \in Sites :
              RealRealloc(t, b, sampled, size, site) => Types'
<1> USE DEF Coming
<1>1. Types
  BY DEF BookInv
<1>2. ASSUME RealFree(t) PROVE Types'
  <2>1. heap' \in [Addrs -> Cells]
    BY <1>1, <1>2, TypesAre, CellSet, CellsTyped DEF RealFree
  <2>2. \A u \in Callers :
           /\ Len(batch'[u]) <= FREE_BATCH_CAP
           /\ pc'[u] \notin {"flush", "publish_frees"} => Len(batch'[u]) < FREE_BATCH_CAP
           /\ pc'[u] \in Coming => arg'[u].size \in SampleSizes
    BY <1>1, <1>2, Returns, TypesAre DEF RealFree, Types
  <2> QED BY <1>1, <1>2, <2>1, <2>2, Returns, TypesAre, TypesFrom DEF RealFree, loss
<1>3. ASSUME FailedRealloc(t) PROVE Types'
  <2>1. heap' \in [Addrs -> Cells] /\ spoiled' \subseteq Nat
    <3>1. heap' \in [Addrs -> Cells]
      BY <1>1, <1>3, StIs DEF FailedRealloc
    <3>2. heap[arg[t].addr].seq \in Nat
      BY <1>1, TypesAre
    <3> QED BY <1>1, <1>3, <3>1, <3>2, TypesAre, SMTT(30) DEF FailedRealloc
  <2>2. \A u \in Callers :
           /\ Len(batch'[u]) <= FREE_BATCH_CAP
           /\ pc'[u] \notin {"flush", "publish_frees"} => Len(batch'[u]) < FREE_BATCH_CAP
           /\ pc'[u] \in Coming => arg'[u].size \in SampleSizes
    BY <1>1, <1>3, Returns, TypesAre DEF FailedRealloc, Types
  <2> QED BY <1>1, <1>3, <2>1, <2>2, Returns, TypesAre, TypesFrom DEF FailedRealloc, loss
<1>4. ASSUME NEW b \in Addrs, NEW sampled \in BOOLEAN, NEW size \in SampleSizes, NEW site \in Sites,
             RealRealloc(t, b, sampled, size, site)
      PROVE  Types'
  <2>1. heap' \in [Addrs -> Cells]
    <3> DEFINE l == IF sampled THEN "coming" ELSE "held"
               h == [heap EXCEPT ![arg[t].addr] = [st |-> "free", seq |-> 0]]
    <3>1. l \in {"free", "coming", "held", "leaving"}
      OBVIOUS
    <3>2. heap' = [h EXCEPT ![b] = [st |-> l, seq |-> 0]]
      BY <1>4 DEF RealRealloc
    <3> HIDE DEF l
    <3>3. [st |-> l, seq |-> 0] \in Cells /\ [st |-> "free", seq |-> 0] \in Cells
      BY <3>1, CellsTyped
    <3>4. h \in [Addrs -> Cells]
      BY <1>1, <3>3, TypesAre, CellSet
    <3> HIDE DEF h
    <3> QED BY <3>2, <3>3, <3>4, CellSet
  <2>2. CASE sampled
    <3>0. arg' = [arg EXCEPT ![t] = [addr |-> b, size |-> size, site |-> site]] /\ op' = op
      BY <1>4, <2>2 DEF RealRealloc
    <3>1. arg' \in [Callers -> Args] /\ pc' \in [Callers -> Lines] /\ pc[t] = "finish" /\ op' = op
      <4>1. arg' \in [Callers -> Args]
        BY <1>1, <3>0, TypesAre, ArgTyped
      <4> QED BY <1>1, <1>4, <2>2, <3>0, <4>1, TypesAre DEF RealRealloc, Goto, Lines
    <3>2. /\ pc'[t] = "reserve" /\ arg'[t].size = size
          /\ \A u \in Callers : u # t => pc'[u] = pc[u] /\ arg'[u] = arg[u]
      BY <1>1, <1>4, <2>2, TypesAre DEF RealRealloc, Goto
    <3>3. \A u \in Callers :
             /\ Len(batch'[u]) <= FREE_BATCH_CAP
             /\ pc'[u] \notin {"flush", "publish_frees"} => Len(batch'[u]) < FREE_BATCH_CAP
             /\ pc'[u] \in Coming => arg'[u].size \in SampleSizes
      BY <1>1, <1>4, <3>1, <3>2, TypesAre DEF RealRealloc, Types
    <3> QED BY <1>1, <1>4, <2>1, <3>1, <3>3, TypesAre, TypesFrom DEF RealRealloc, loss
  <2>3. CASE ~sampled
    <3>1. Return(t)
      BY <1>4, <2>3 DEF RealRealloc
    <3>2. \A u \in Callers :
             /\ Len(batch'[u]) <= FREE_BATCH_CAP
             /\ pc'[u] \notin {"flush", "publish_frees"} => Len(batch'[u]) < FREE_BATCH_CAP
             /\ pc'[u] \in Coming => arg'[u].size \in SampleSizes
      BY <1>1, <1>4, <3>1, Returns, TypesAre DEF RealRealloc, Types
    <3> QED BY <1>1, <1>4, <2>1, <3>1, <3>2, Returns, TypesAre, TypesFrom DEF RealRealloc, loss
  <2> QED BY <2>2, <2>3
<1> QED BY <1>2, <1>3, <1>4

(* The worker's step keeps the types.                                        *)
LEMMA DrainTypes ==
  ASSUME BookInv, Drain
  PROVE  Types'
<1>1. Types
  BY DEF BookInv
<1>2. /\ ring' \in Seq(Records) /\ Len(ring') <= RingCap
  <2>1. ring \in Seq(Records) /\ ring # << >> /\ ring' = Tail(ring) /\ Len(ring) <= RingCap
    BY <1>1, TypesAre DEF Drain
  <2>2. ring' \in Seq(Records) /\ Len(ring') = Len(ring) - 1 /\ Len(ring) \in Nat
    BY <2>1, RingTail
  <2> QED BY <2>1, <2>2, TrackAssumption
<1>3. book' \in Books
  BY DrainIs DEF Drained
<1>4. \A u \in Callers :
         /\ Len(batch'[u]) <= FREE_BATCH_CAP
         /\ pc'[u] \notin {"flush", "publish_frees"} => Len(batch'[u]) < FREE_BATCH_CAP
         /\ pc'[u] \in Coming => arg'[u].size \in SampleSizes
  BY <1>1, TypesAre DEF Drain, Types
<1> QED BY <1>1, <1>2, <1>3, <1>4, TypesAre, TypesFrom DEF Drain, loss

------------------------------------------------------------------------------
(* The addresses.                                                           *)

(* A step of thread t leaves the other calls' addresses alone.               *)
LEMMA ServingBy ==
  ASSUME Serving, NEW t \in Callers,
         \A u \in Callers : u # t => pc'[u] = pc[u] /\ arg'[u] = arg[u],
         \A u \in Callers : u # t /\ pc[u] # "idle" =>
            /\ heap'[arg[u].addr] = heap[arg[u].addr]
            /\ pc'[t] # "idle" => arg'[t].addr # arg[u].addr,
         pc'[t] \in Coming => heap'[arg'[t].addr].st = "coming",
         pc'[t] \in Leaving => heap'[arg'[t].addr].st = "leaving",
         pc'[t] \in {"reserve", "stamp"} => heap'[arg'[t].addr].seq = 0,
         \A a \in Addrs :
            /\ heap'[a].st = "free" => heap'[a].seq = 0
            /\ heap'[a].st \in {"coming", "leaving"} =>
                 \/ pc'[t] # "idle" /\ arg'[t].addr = a
                 \/ \E u \in Callers : u # t /\ pc[u] # "idle" /\ arg[u].addr = a
  PROVE  Serving'
<1> USE DEF Coming, Leaving
<1>1. \A a \in Addrs : heap'[a].st \in {"coming", "leaving"} =>
        \E u \in Callers : pc'[u] # "idle" /\ arg'[u].addr = a
  OBVIOUS
<1>2. \A u \in Callers :
        /\ pc'[u] \in Coming => heap'[arg'[u].addr].st = "coming"
        /\ pc'[u] \in Leaving => heap'[arg'[u].addr].st = "leaving"
        /\ pc'[u] \in {"reserve", "stamp"} => heap'[arg'[u].addr].seq = 0
  BY DEF Serving
<1>3. \A u, v \in Callers : pc'[u] # "idle" /\ pc'[v] # "idle" /\ arg'[u].addr = arg'[v].addr => u = v
  BY DEF Serving
<1> QED BY <1>1, <1>2, <1>3 DEF Serving

(* Serving, with each part by itself.                                        *)
LEMMA ServingIs ==
  ASSUME BookInv
  PROVE  /\ Serving /\ Types
         /\ \A u \in Callers : pc[u] # "idle" => heap[arg[u].addr].st \in {"coming", "leaving"}
         /\ \A t, u \in Callers : t # u /\ pc[t] # "idle" /\ pc[u] # "idle" => arg[u].addr # arg[t].addr
         /\ \A a \in Addrs : heap[a].st = "free" => heap[a].seq = 0
         /\ \A a \in Addrs : heap[a].st \in {"coming", "leaving"} =>
              \E u \in Callers : pc[u] # "idle" /\ arg[u].addr = a
<1>1. \A u \in Callers : pc[u] \in Lines
  BY TypesAre DEF BookInv
<1> QED BY <1>1 DEF BookInv, Serving, Lines, Coming, Leaving

(* The allocator gives a call an address no other call works on.             *)
LEMMA AllocServing ==
  ASSUME BookInv, NEW t \in Callers, NEW a \in Addrs
  PROVE  /\ AllocUnsampled(t, a) => Serving'
         /\ \A size \in SampleSizes, site \in Sites : AllocSampled(t, a, size, site) => Serving'
         /\ \A o \in {"free", "realloc"} : CallFree(t, a, o) => Serving'
<1> USE DEF Coming, Leaving
<1>1. /\ Types /\ heap \in [Addrs -> Cells] /\ pc \in [Callers -> Lines] /\ arg \in [Callers -> Args]
  BY TypesAre DEF BookInv
<1>2. \A b \in Addrs : pc[t] = "idle" /\ b # a /\ heap[b].st \in {"coming", "leaving"} =>
        \E u \in Callers : u # t /\ pc[u] # "idle" /\ arg[u].addr = b
  BY ServingIs
<1>3. ASSUME AllocUnsampled(t, a) PROVE Serving'
  <2>1. /\ heap'[a].st = "held" /\ heap'[a].seq = 0 /\ \A b \in Addrs : b # a => heap'[b] = heap[b]
        /\ heap[a].st = "free" /\ pc' = pc /\ arg' = arg /\ pc[t] = "idle"
    BY <1>1, <1>3, CellSet, CellsTyped DEF AllocUnsampled
  <2>2. \A u \in Callers : u # t /\ pc[u] # "idle" => heap'[arg[u].addr] = heap[arg[u].addr]
    BY <1>1, <2>1, ServingIs, TypesAre
  <2>3. \A b \in Addrs :
            /\ heap'[b].st = "free" => heap'[b].seq = 0
            /\ heap'[b].st \in {"coming", "leaving"} =>
                 \/ pc'[t] # "idle" /\ arg'[t].addr = b
                 \/ \E u \in Callers : u # t /\ pc[u] # "idle" /\ arg[u].addr = b
    BY <1>2, <2>1, ServingIs
  <2> QED BY <2>1, <2>2, <2>3, ServingIs, ServingBy
<1>4. ASSUME NEW size \in SampleSizes, NEW site \in Sites, AllocSampled(t, a, size, site)
      PROVE  Serving'
  <2>1. /\ heap'[a].st = "coming" /\ heap'[a].seq = 0 /\ \A b \in Addrs : b # a => heap'[b] = heap[b]
        /\ heap[a].st = "free"
    BY <1>1, <1>4, CellSet, CellsTyped DEF AllocSampled
  <2>2. arg' = [arg EXCEPT ![t] = [addr |-> a, size |-> size, site |-> site]] /\ pc' = [pc EXCEPT ![t] = "reserve"]
    BY <1>4 DEF AllocSampled, Goto
  <2>3. /\ arg'[t].addr = a /\ pc'[t] = "reserve" /\ pc[t] = "idle"
        /\ \A u \in Callers : u # t => pc'[u] = pc[u] /\ arg'[u] = arg[u]
    BY <1>1, <1>4, <2>2 DEF AllocSampled
  <2>4. \A u \in Callers : u # t /\ pc[u] # "idle" => arg[u].addr # a /\ heap'[arg[u].addr] = heap[arg[u].addr]
    BY <1>1, <2>1, ServingIs, TypesAre
  <2>5. \A b \in Addrs :
            /\ heap'[b].st = "free" => heap'[b].seq = 0
            /\ heap'[b].st \in {"coming", "leaving"} =>
                 \/ pc'[t] # "idle" /\ arg'[t].addr = b
                 \/ \E u \in Callers : u # t /\ pc[u] # "idle" /\ arg[u].addr = b
    BY <1>2, <2>1, <2>3, ServingIs
  <2> QED BY <2>1, <2>3, <2>4, <2>5, ServingIs, ServingBy
<1>5. ASSUME NEW o \in {"free", "realloc"}, CallFree(t, a, o)
      PROVE  Serving'
  <2>1. /\ heap'[a].st = "leaving" /\ heap'[a].seq = heap[a].seq /\ \A b \in Addrs : b # a => heap'[b] = heap[b]
        /\ heap[a].st = "held"
    BY <1>1, <1>5, StSet DEF CallFree
  <2>2. arg' = [arg EXCEPT ![t].addr = a] /\ pc' = [pc EXCEPT ![t] = "queue"]
    BY <1>5 DEF CallFree, Goto
  <2>3. /\ arg'[t].addr = a /\ pc'[t] = "queue" /\ pc[t] = "idle"
        /\ \A u \in Callers : u # t => pc'[u] = pc[u] /\ arg'[u] = arg[u]
    BY <1>1, <1>5, <2>2, ArgEdit DEF CallFree
  <2>4. \A u \in Callers : u # t /\ pc[u] # "idle" => arg[u].addr # a /\ heap'[arg[u].addr] = heap[arg[u].addr]
    BY <1>1, <2>1, ServingIs, TypesAre
  <2>5. \A b \in Addrs :
            /\ heap'[b].st = "free" => heap'[b].seq = 0
            /\ heap'[b].st \in {"coming", "leaving"} =>
                 \/ pc'[t] # "idle" /\ arg'[t].addr = b
                 \/ \E u \in Callers : u # t /\ pc[u] # "idle" /\ arg[u].addr = b
    BY <1>2, <2>1, <2>3, ServingIs
  <2> QED BY <2>1, <2>3, <2>4, <2>5, ServingIs, ServingBy
<1> QED BY <1>3, <1>4, <1>5

(* A call that returns or goes on, with another cell at its address.         *)
LEMMA CallServing ==
  ASSUME BookInv, NEW t \in Callers, pc[t] # "idle",
         \A u \in Callers : u # t => pc'[u] = pc[u] /\ arg'[u] = arg[u],
         \A b \in Addrs : b # arg[t].addr => heap'[b] = heap[b],
         heap'[arg[t].addr].st = "free" => heap'[arg[t].addr].seq = 0,
         \/ pc'[t] = "idle" /\ heap'[arg[t].addr].st \in {"free", "held"}
         \/ /\ arg'[t].addr = arg[t].addr
            /\ pc'[t] \in Coming /\ heap'[arg[t].addr].st = "coming"
            /\ pc'[t] \in {"reserve", "stamp"} => heap'[arg[t].addr].seq = 0
         \/ /\ arg'[t].addr = arg[t].addr
            /\ pc'[t] \in Leaving /\ heap'[arg[t].addr].st = "leaving"
  PROVE  Serving'
<1> DEFINE a == arg[t].addr
<1>1. \A u \in Callers : arg[u].addr \in Addrs
  BY TypesAre DEF BookInv
<1>2. \A u \in Callers : u # t /\ pc[u] # "idle" => arg[u].addr # a /\ heap'[arg[u].addr] = heap[arg[u].addr]
  BY <1>1, ServingIs
<1>3. \A b \in Addrs : b # a /\ heap[b].st \in {"coming", "leaving"} =>
        \E u \in Callers : u # t /\ pc[u] # "idle" /\ arg[u].addr = b
  BY ServingIs
<1>4. \A b \in Addrs :
          /\ heap'[b].st = "free" => heap'[b].seq = 0
          /\ heap'[b].st \in {"coming", "leaving"} =>
               \/ pc'[t] # "idle" /\ arg'[t].addr = b
               \/ \E u \in Callers : u # t /\ pc[u] # "idle" /\ arg[u].addr = b
  BY <1>3, ServingIs DEF Coming, Leaving
<1>5. /\ pc'[t] \in Coming => heap'[arg'[t].addr].st = "coming"
      /\ pc'[t] \in Leaving => heap'[arg'[t].addr].st = "leaving"
      /\ pc'[t] \in {"reserve", "stamp"} => heap'[arg'[t].addr].seq = 0
      /\ pc'[t] # "idle" => arg'[t].addr = a
  BY DEF Coming, Leaving
<1>6. \A u \in Callers : u # t /\ pc[u] # "idle" =>
            /\ heap'[arg[u].addr] = heap[arg[u].addr]
            /\ pc'[t] # "idle" => arg'[t].addr # arg[u].addr
  BY <1>2, <1>5
<1>7. Serving
  BY DEF BookInv
<1> HIDE DEF a
<1> QED BY <1>4, <1>5, <1>6, <1>7, ServingBy

(* Recording an allocation leaves every address with its call.               *)
LEMMA RecordServing ==
  ASSUME BookInv, NEW t \in Callers
  PROVE  /\ ReserveAlloc(t) => Serving'
         /\ DropAlloc(t) => Serving'
         /\ StampAlloc(t) => Serving'
         /\ PublishAlloc(t) => Serving'
<1>1. Types /\ Serving /\ arg[t].addr \in Addrs /\ pc \in [Callers -> Lines]
  BY TypesAre DEF BookInv
<1>2. ASSUME ReserveAlloc(t) PROVE Serving'
  <2>1. /\ pc[t] = "reserve" /\ pc'[t] = "stamp" /\ \A u \in Callers : u # t => pc'[u] = pc[u]
        /\ arg' = arg /\ heap' = heap
    BY <1>1, <1>2 DEF ReserveAlloc, Goto
  <2>2. heap[arg[t].addr].st = "coming" /\ heap[arg[t].addr].seq = 0
    BY <1>1, <2>1 DEF Serving, Coming
  <2> QED BY <2>1, <2>2, CallServing DEF Coming
<1>3. ASSUME DropAlloc(t) PROVE Serving'
  <2>1. /\ heap'[arg[t].addr].st = "held" /\ \A b \in Addrs : b # arg[t].addr => heap'[b] = heap[b]
    BY <1>1, <1>3, StIs DEF DropAlloc
  <2>2. pc[t] = "reserve" /\ pc'[t] = "idle" /\ \A u \in Callers : u # t => pc'[u] = pc[u] /\ arg'[u] = arg[u]
    BY <1>1, <1>3, Returns DEF DropAlloc
  <2> QED BY <2>1, <2>2, CallServing, SMTT(30)
<1>4. ASSUME StampAlloc(t) PROVE Serving'
  <2>1. /\ heap'[arg[t].addr].st = heap[arg[t].addr].st
        /\ \A b \in Addrs : b # arg[t].addr => heap'[b] = heap[b]
    BY <1>1, <1>4, SeqIs DEF StampAlloc
  <2>2. /\ pc[t] = "stamp" /\ pc'[t] = "publish" /\ \A u \in Callers : u # t => pc'[u] = pc[u]
        /\ arg' = arg
    BY <1>1, <1>4 DEF StampAlloc, Goto
  <2>3. heap[arg[t].addr].st = "coming"
    BY <1>1, <2>2 DEF Serving, Coming
  <2> QED BY <2>1, <2>2, <2>3, CallServing DEF Coming
<1>5. ASSUME PublishAlloc(t) PROVE Serving'
  <2>1. /\ heap'[arg[t].addr].st = "held" /\ \A b \in Addrs : b # arg[t].addr => heap'[b] = heap[b]
    BY <1>1, <1>5, StIs DEF PublishAlloc
  <2>2. pc[t] = "publish" /\ pc'[t] = "idle" /\ \A u \in Callers : u # t => pc'[u] = pc[u] /\ arg'[u] = arg[u]
    BY <1>1, <1>5, Returns DEF PublishAlloc
  <2> QED BY <2>1, <2>2, CallServing, SMTT(30)
<1> QED BY <1>2, <1>3, <1>4, <1>5

(* Recording a free leaves every address with its call.                      *)
LEMMA FreeServing ==
  ASSUME BookInv, NEW t \in Callers,
         QueueFree(t) \/ ReserveFrees(t) \/ DropFrees(t) \/ PublishFrees(t)
  PROVE  Serving'
<1>1. Types /\ Serving /\ arg[t].addr \in Addrs /\ pc \in [Callers -> Lines]
  BY TypesAre DEF BookInv
<1>2. /\ pc[t] \in Leaving /\ pc'[t] \in Leaving /\ \A u \in Callers : u # t => pc'[u] = pc[u]
      /\ arg' = arg /\ heap' = heap
  BY <1>1 DEF QueueFree, ReserveFrees, DropFrees, PublishFrees, Goto, Leaving
<1>3. heap[arg[t].addr].st = "leaving" /\ pc[t] # "idle"
  BY <1>1, <1>2 DEF Serving, Leaving
<1> QED BY <1>2, <1>3, CallServing

(* The real free and realloc return, or move, the address of their own call  *)
(* only.                                                                     *)
LEMMA FinishServing ==
  ASSUME BookInv, NEW t \in Callers
  PROVE  /\ RealFree(t) => Serving'
         /\ FailedRealloc(t) => Serving'
         /\ \A b \in Addrs, sampled \in BOOLEAN, size \in SampleSizes, site \in Sites :
              RealRealloc(t, b, sampled, size, site) => Serving'
<1>1. /\ Types /\ Serving /\ heap \in [Addrs -> Cells] /\ pc \in [Callers -> Lines]
      /\ arg \in [Callers -> Args] /\ \A u \in Callers : arg[u].addr \in Addrs
  BY TypesAre DEF BookInv
<1>2. ASSUME RealFree(t) PROVE Serving'
  <2> DEFINE a == arg[t].addr
  <2>1. heap' = [heap EXCEPT ![a] = [st |-> "free", seq |-> 0]] /\ a \in Addrs
    BY <1>1, <1>2 DEF RealFree
  <2> HIDE DEF a
  <2>2. /\ heap'[a].st = "free" /\ heap'[a].seq = 0 /\ \A b \in Addrs : b # a => heap'[b] = heap[b]
    BY <1>1, <2>1
  <2>3. pc[t] = "finish" /\ pc'[t] = "idle" /\ \A u \in Callers : u # t => pc'[u] = pc[u] /\ arg'[u] = arg[u]
    BY <1>1, <1>2, Returns DEF RealFree
  <2> QED BY <2>2, <2>3, CallServing DEF a
<1>3. ASSUME FailedRealloc(t) PROVE Serving'
  <2>1. /\ heap'[arg[t].addr].st = "held" /\ \A b \in Addrs : b # arg[t].addr => heap'[b] = heap[b]
    BY <1>1, <1>3, StIs DEF FailedRealloc
  <2>2. pc[t] = "finish" /\ pc'[t] = "idle" /\ \A u \in Callers : u # t => pc'[u] = pc[u] /\ arg'[u] = arg[u]
    BY <1>1, <1>3, Returns DEF FailedRealloc
  <2> QED BY <2>1, <2>2, CallServing
<1>4. ASSUME NEW b \in Addrs, NEW sampled \in BOOLEAN, NEW size \in SampleSizes, NEW site \in Sites,
             RealRealloc(t, b, sampled, size, site)
      PROVE  Serving'
  <2> DEFINE a == arg[t].addr
             l == IF sampled THEN "coming" ELSE "held"
  <2>1. /\ heap' = [heap EXCEPT ![a] = [st |-> "free", seq |-> 0], ![b] = [st |-> l, seq |-> 0]]
        /\ a \in Addrs /\ pc[t] = "finish" /\ (b = a \/ heap[b].st = "free")
    BY <1>1, <1>4 DEF RealRealloc
  <2>2. \A u \in Callers : u # t /\ pc[u] # "idle" => arg[u].addr # a /\ arg[u].addr # b
    BY <2>1, ServingIs
  <2>3. sampled => l = "coming"
    OBVIOUS
  <2>4. ~sampled => l = "held"
    OBVIOUS
  <2> HIDE DEF a, l
  <2>5. /\ heap'[b].st = l /\ heap'[b].seq = 0
        /\ a # b => heap'[a].st = "free" /\ heap'[a].seq = 0
        /\ \A c \in Addrs : c # a /\ c # b => heap'[c] = heap[c]
    BY <1>1, <2>1
  <2>6. /\ \A u \in Callers : u # t => pc'[u] = pc[u] /\ arg'[u] = arg[u]
        /\ sampled => pc'[t] = "reserve" /\ arg'[t].addr = b
        /\ ~sampled => pc'[t] = "idle"
    <3>1. CASE sampled
      <4>1. arg' = [arg EXCEPT ![t] = [addr |-> b, size |-> size, site |-> site]] /\ pc' = [pc EXCEPT ![t] = "reserve"]
        BY <1>4, <3>1 DEF RealRealloc, Goto
      <4> QED BY <1>1, <3>1, <4>1
    <3>2. CASE ~sampled
      <4>1. Return(t)
        BY <1>4, <3>2 DEF RealRealloc
      <4> QED BY <1>1, <3>2, <4>1, Returns
    <3> QED BY <3>1, <3>2
  <2>7. \A c \in Addrs : c # a /\ c # b /\ heap[c].st \in {"coming", "leaving"} =>
          \E u \in Callers : u # t /\ pc[u] # "idle" /\ arg[u].addr = c
    BY ServingIs DEF a
  <2>8. \A c \in Addrs :
            /\ heap'[c].st = "free" => heap'[c].seq = 0
            /\ heap'[c].st \in {"coming", "leaving"} =>
                 \/ pc'[t] # "idle" /\ arg'[t].addr = c
                 \/ \E u \in Callers : u # t /\ pc[u] # "idle" /\ arg[u].addr = c
    <3> SUFFICES ASSUME NEW c \in Addrs
                 PROVE  /\ heap'[c].st = "free" => heap'[c].seq = 0
                        /\ heap'[c].st \in {"coming", "leaving"} =>
                             \/ pc'[t] # "idle" /\ arg'[t].addr = c
                             \/ \E u \in Callers : u # t /\ pc[u] # "idle" /\ arg[u].addr = c
      OBVIOUS
    <3>1. CASE c = b
      BY <2>3, <2>4, <2>5, <2>6, <3>1
    <3>2. CASE c = a /\ a # b
      BY <2>5, <3>2
    <3>3. CASE c # a /\ c # b
      BY <2>5, <2>7, <3>3, ServingIs
    <3> QED BY <3>1, <3>2, <3>3
  <2>9. \A u \in Callers : u # t /\ pc[u] # "idle" =>
            /\ heap'[arg[u].addr] = heap[arg[u].addr]
            /\ pc'[t] # "idle" => arg'[t].addr # arg[u].addr
    BY <1>1, <2>2, <2>5, <2>6
  <2>10. /\ pc'[t] \in Coming => heap'[arg'[t].addr].st = "coming"
         /\ pc'[t] \in Leaving => heap'[arg'[t].addr].st = "leaving"
         /\ pc'[t] \in {"reserve", "stamp"} => heap'[arg'[t].addr].seq = 0
    BY <2>3, <2>4, <2>5, <2>6 DEF Coming, Leaving
  <2> QED BY <1>1, <2>6, <2>8, <2>9, <2>10, ServingBy
<1> QED BY <1>2, <1>3, <1>4

------------------------------------------------------------------------------
(* The slots.                                                               *)

Waiting == {"stamp", "publish", "publish_frees"}

(* Steps of threads that own no slot.                                        *)
LEMMA SlotsBy ==
  ASSUME Slots, NEW t \in Callers, ring' = ring,
         pc[t] \notin Waiting, pc'[t] \notin Waiting,
         \A u \in Callers : u # t => /\ pc'[u] = pc[u] /\ arg'[u] = arg[u] /\ batch'[u] = batch[u],
         ring \in Seq(Records)
  PROVE  Slots'
<1>1. \A i \in DOMAIN ring : ring[i].owner \in Callers
  BY Kinds
<1>2. \A i \in DOMAIN ring : Reserved(i) => Reserved(i)'
  BY <1>1 DEF Reserved, Waiting
<1>3. \A i \in DOMAIN ring' : IF ring'[i].pub THEN ring'[i].kind = "alloc" => ring'[i].seq # 0
                                              ELSE Reserved(i)'
  BY <1>2 DEF Slots
<1>4. \A i, j \in DOMAIN ring' :
       ~ring'[i].pub /\ ~ring'[j].pub /\ ring'[i].owner = ring'[j].owner => i = j
  BY DEF Slots
<1>5. \A u \in Callers : pc'[u] \in {"stamp", "publish", "publish_frees"} =>
       \E i \in DOMAIN ring' : ~ring'[i].pub /\ ring'[i].owner = u
  BY DEF Slots, Waiting
<1> QED BY <1>3, <1>4, <1>5 DEF Slots

(* Steps that leave the ring alone leave each reserved record with its       *)
(* thread.                                                                   *)
LEMMA RestSlots ==
  ASSUME BookInv, NEW t \in Callers, NEW a \in Addrs
  PROVE  /\ AllocUnsampled(t, a) => Slots'
         /\ \A size \in SampleSizes, site \in Sites : AllocSampled(t, a, size, site) => Slots'
         /\ \A o \in {"free", "realloc"} : CallFree(t, a, o) => Slots'
         /\ DropAlloc(t) => Slots'
         /\ QueueFree(t) => Slots'
         /\ DropFrees(t) => Slots'
         /\ RealFree(t) => Slots'
         /\ FailedRealloc(t) => Slots'
         /\ \A sampled \in BOOLEAN, size \in SampleSizes, site \in Sites :
              RealRealloc(t, a, sampled, size, site) => Slots'
<1> USE DEF Waiting
<1>1. /\ Types /\ Slots /\ ring \in Seq(Records) /\ pc \in [Callers -> Lines]
      /\ arg \in [Callers -> Args] /\ batch \in [Callers -> Seq(Entries)]
  BY TypesAre DEF BookInv
<1>2. AllocUnsampled(t, a) => Slots'
  BY <1>1, SlotsBy DEF AllocUnsampled
<1>3. \A size \in SampleSizes, site \in Sites : AllocSampled(t, a, size, site) => Slots'
  BY <1>1, SlotsBy DEF AllocSampled, Goto
<1>4. \A o \in {"free", "realloc"} : CallFree(t, a, o) => Slots'
  BY <1>1, SlotsBy DEF CallFree, Goto
<1>5. DropAlloc(t) => Slots'
  BY <1>1, SlotsBy, Returns DEF DropAlloc
<1>6. QueueFree(t) => Slots'
  <2> SUFFICES ASSUME QueueFree(t) PROVE Slots'
    OBVIOUS
  <2>1. \A u \in Callers : u # t => batch'[u] = batch[u]
    BY <1>1, QueueEdits
  <2>2. pc[t] = "queue" /\ pc'[t] \in {"flush", "finish"} /\ \A u \in Callers : u # t => pc'[u] = pc[u]
    BY <1>1 DEF QueueFree, Goto
  <2> QED BY <1>1, <2>1, <2>2, SlotsBy DEF QueueFree
<1>7. DropFrees(t) => Slots'
  BY <1>1, SlotsBy DEF DropFrees, Goto
<1>8. RealFree(t) => Slots'
  BY <1>1, SlotsBy, Returns DEF RealFree
<1>9. FailedRealloc(t) => Slots'
  BY <1>1, SlotsBy, Returns DEF FailedRealloc
<1>10. ASSUME NEW sampled \in BOOLEAN, NEW size \in SampleSizes, NEW site \in Sites,
              RealRealloc(t, a, sampled, size, site)
       PROVE  Slots'
  <2>1. CASE sampled
    BY <1>1, <1>10, <2>1, SlotsBy DEF RealRealloc, Goto
  <2>2. CASE ~sampled
    <3>1. Return(t)
      BY <1>10, <2>2 DEF RealRealloc
    <3> QED BY <1>1, <1>10, <3>1, SlotsBy, Returns DEF RealRealloc
  <2> QED BY <2>1, <2>2
<1> QED BY <1>2, <1>3, <1>4, <1>5, <1>6, <1>7, <1>8, <1>9, <1>10

(* A reservation is its thread's only one.                                   *)
LEMMA ReserveSlots ==
  ASSUME BookInv, NEW t \in Callers, ReserveAlloc(t) \/ ReserveFrees(t)
  PROVE  Slots'
<1>0. PICK n : n = Len(ring) + 1
  OBVIOUS
<1>1. /\ Types /\ Slots /\ ring \in Seq(Records) /\ pc \in [Callers -> Lines]
  BY TypesAre DEF BookInv
<1>2. /\ DOMAIN ring' = DOMAIN ring \cup {n} /\ n \notin DOMAIN ring
      /\ \A i \in DOMAIN ring : ring'[i] = ring[i]
      /\ ring'[n].owner = t /\ ring'[n].pub = FALSE
      /\ ReserveAlloc(t) => ring'[n].kind = "alloc" /\ ring'[n].seq = 0 /\ ring'[n].addr = arg[t].addr
      /\ ReserveFrees(t) => ring'[n].kind = "frees" /\ ring'[n].entries = batch[t]
  BY <1>0, <1>1, ReserveEdits
<1>3. /\ pc[t] \notin Waiting /\ arg' = arg /\ batch' = batch
      /\ ReserveAlloc(t) => pc'[t] = "stamp"
      /\ ReserveFrees(t) => pc'[t] = "publish_frees"
      /\ \A u \in Callers : u # t => pc'[u] = pc[u]
  BY <1>1 DEF ReserveAlloc, ReserveFrees, Goto, Waiting
<1>4. \A i \in DOMAIN ring : ring[i].owner \in Callers
  BY <1>1, Kinds
<1>5. \A i \in DOMAIN ring : Reserved(i) => Reserved(i)' /\ ring[i].owner # t
  BY <1>2, <1>3, <1>4 DEF Reserved, Waiting
<1>6. Reserved(n)'
  BY <1>2, <1>3 DEF Reserved
<1>7. \A i \in DOMAIN ring' : IF ring'[i].pub THEN ring'[i].kind = "alloc" => ring'[i].seq # 0
                                              ELSE Reserved(i)'
  BY <1>1, <1>2, <1>5, <1>6 DEF Slots
<1>8. \A i, j \in DOMAIN ring' :
       ~ring'[i].pub /\ ~ring'[j].pub /\ ring'[i].owner = ring'[j].owner => i = j
  BY <1>1, <1>2, <1>5 DEF Slots
<1>9. \A u \in Callers : pc'[u] \in {"stamp", "publish", "publish_frees"} =>
       \E i \in DOMAIN ring' : ~ring'[i].pub /\ ring'[i].owner = u
  BY <1>1, <1>2, <1>3 DEF Slots
<1> QED BY <1>7, <1>8, <1>9 DEF Slots

(* A stamped record stays its thread's.                                      *)
LEMMA StampSlots ==
  ASSUME BookInv, NEW t \in Callers, StampAlloc(t)
  PROVE  Slots'
<1>0. PICK k : k = SlotOf(t)
  OBVIOUS
<1>1. /\ Types /\ Slots /\ ring \in Seq(Records) /\ pc \in [Callers -> Lines] /\ g_seq # 0
  BY TypesAre DEF BookInv
<1>2. /\ DOMAIN ring' = DOMAIN ring /\ k \in DOMAIN ring /\ \A i \in DOMAIN ring : i # k => ring'[i] = ring[i]
      /\ ring'[k].kind = "alloc" /\ ring'[k].owner = t /\ ~ring'[k].pub /\ ring'[k].seq = g_seq
      /\ ring'[k].addr = arg[t].addr /\ ~ring[k].pub /\ ring[k].owner = t
      /\ \A i \in DOMAIN ring : ~ring[i].pub /\ ring[i].owner = t => i = k
  <2> DEFINE u == [ring[k] EXCEPT !.seq = g_seq]
  <2>1. /\ Edited(k, u) /\ u.kind = "alloc" /\ u.owner = t /\ ~u.pub /\ u.seq = g_seq
        /\ u.addr = arg[t].addr /\ ~ring[k].pub /\ ring[k].owner = t
        /\ \A i \in DOMAIN ring : ~ring[i].pub /\ ring[i].owner = t => i = k
    BY <1>0, <1>1, StampEdits
  <2> HIDE DEF u
  <2> QED BY <2>1 DEF Edited
<1>3. /\ arg' = arg /\ batch' = batch /\ pc'[t] = "publish"
      /\ \A u \in Callers : u # t => pc'[u] = pc[u]
  BY <1>1 DEF StampAlloc, Goto
<1>4. \A i \in DOMAIN ring : ring[i].owner \in Callers
  BY <1>1, Kinds
<1>5. \A i \in DOMAIN ring : i # k /\ ~ring[i].pub /\ Reserved(i) => Reserved(i)'
  BY <1>2, <1>3, <1>4 DEF Reserved
<1>6. Reserved(k)'
  BY <1>1, <1>2, <1>3 DEF Reserved
<1>7. \A i \in DOMAIN ring' : IF ring'[i].pub THEN ring'[i].kind = "alloc" => ring'[i].seq # 0
                                              ELSE Reserved(i)'
  BY <1>1, <1>2, <1>5, <1>6 DEF Slots
<1>8. \A i, j \in DOMAIN ring' :
       ~ring'[i].pub /\ ~ring'[j].pub /\ ring'[i].owner = ring'[j].owner => i = j
  BY <1>1, <1>2 DEF Slots
<1>9. \A u \in Callers : pc'[u] \in {"stamp", "publish", "publish_frees"} =>
       \E i \in DOMAIN ring' : ~ring'[i].pub /\ ring'[i].owner = u
  BY <1>1, <1>2, <1>3 DEF Slots
<1> QED BY <1>7, <1>8, <1>9 DEF Slots

(* A published record has a number, and its thread then has no reservation.  *)
LEMMA PublishSlots ==
  ASSUME BookInv, NEW t \in Callers, PublishAlloc(t) \/ PublishFrees(t)
  PROVE  Slots'
<1>0. PICK k : k = SlotOf(t)
  OBVIOUS
<1>1. /\ Types /\ Slots /\ ring \in Seq(Records) /\ pc \in [Callers -> Lines]
      /\ batch \in [Callers -> Seq(Entries)]
  BY TypesAre DEF BookInv
<1>2. /\ DOMAIN ring' = DOMAIN ring /\ k \in DOMAIN ring /\ \A i \in DOMAIN ring : i # k => ring'[i] = ring[i]
      /\ ring'[k].pub /\ SameButPub(ring[k], ring'[k]) /\ ~ring[k].pub /\ ring[k].owner = t
      /\ Reserved(k)
      /\ \A i \in DOMAIN ring : ~ring[i].pub /\ ring[i].owner = t => i = k
  <2> DEFINE u == [ring[k] EXCEPT !.pub = TRUE]
  <2>1. /\ Edited(k, u) /\ u.pub /\ SameButPub(ring[k], u) /\ ~ring[k].pub /\ ring[k].owner = t
        /\ Reserved(k) /\ \A i \in DOMAIN ring : ~ring[i].pub /\ ring[i].owner = t => i = k
    BY <1>0, <1>1, PublishEdits
  <2> HIDE DEF u
  <2> QED BY <2>1 DEF Edited
<1>3. /\ pc[t] \in {"publish", "publish_frees"} /\ pc'[t] \notin Waiting
      /\ \A u \in Callers : u # t => pc'[u] = pc[u] /\ arg'[u] = arg[u] /\ batch'[u] = batch[u]
  BY <1>1, Returns DEF PublishAlloc, PublishFrees, Goto, Waiting
<1>4. \A i \in DOMAIN ring : ring[i].owner \in Callers
  BY <1>1, Kinds
<1>5. \A i \in DOMAIN ring : i # k /\ ~ring[i].pub /\ Reserved(i) => Reserved(i)'
  BY <1>2, <1>3, <1>4 DEF Reserved
<1>6. ring'[k].kind = "alloc" => ring'[k].seq # 0
  BY <1>2, <1>3 DEF Reserved, SameButPub
<1>7. \A i \in DOMAIN ring' : IF ring'[i].pub THEN ring'[i].kind = "alloc" => ring'[i].seq # 0
                                              ELSE Reserved(i)'
  BY <1>1, <1>2, <1>5, <1>6 DEF Slots
<1>8. \A i, j \in DOMAIN ring' :
       ~ring'[i].pub /\ ~ring'[j].pub /\ ring'[i].owner = ring'[j].owner => i = j
  BY <1>1, <1>2 DEF Slots
<1>9. \A u \in Callers : pc'[u] \in {"stamp", "publish", "publish_frees"} =>
       \E i \in DOMAIN ring' : ~ring'[i].pub /\ ring'[i].owner = u
  <2> SUFFICES ASSUME NEW u \in Callers, pc'[u] \in Waiting
               PROVE  \E i \in DOMAIN ring' : ~ring'[i].pub /\ ring'[i].owner = u
    BY DEF Waiting
  <2>1. u # t /\ pc[u] \in Waiting
    BY <1>3
  <2>2. PICK i \in DOMAIN ring : ~ring[i].pub /\ ring[i].owner = u
    BY <1>1, <2>1 DEF Slots, Waiting
  <2>3. i # k
    BY <1>2, <2>1, <2>2
  <2> QED BY <1>2, <2>2, <2>3
<1> QED BY <1>7, <1>8, <1>9 DEF Slots

(* Only a published record is drained.                                       *)
LEMMA DrainSlots ==
  ASSUME BookInv, Drain
  PROVE  Slots'
<1>1. /\ ring \in Seq(Records) /\ Slots /\ ring # << >> /\ ring[1].pub /\ ring' = Tail(ring)
      /\ pc' = pc /\ arg' = arg /\ batch' = batch
  BY TypesAre, RingTail DEF BookInv, Drain
<1>2. /\ \A i \in DOMAIN ring' : i \in Nat /\ i + 1 \in DOMAIN ring /\ ring'[i] = ring[i + 1]
      /\ \A i \in DOMAIN ring : i # 1 => i - 1 \in DOMAIN ring' /\ ring'[i - 1] = ring[i]
  BY <1>1, RingTail
<1>3. \A i \in DOMAIN ring' : Reserved(i + 1) => Reserved(i)'
  BY <1>1, <1>2 DEF Reserved
<1>4. \A i \in DOMAIN ring' : IF ring'[i].pub THEN ring'[i].kind = "alloc" => ring'[i].seq # 0
                                              ELSE Reserved(i)'
  BY <1>1, <1>2, <1>3 DEF Slots
<1>5. \A i, j \in DOMAIN ring' :
       ~ring'[i].pub /\ ~ring'[j].pub /\ ring'[i].owner = ring'[j].owner => i = j
  <2> SUFFICES ASSUME NEW i \in DOMAIN ring', NEW j \in DOMAIN ring',
                      ~ring'[i].pub, ~ring'[j].pub, ring'[i].owner = ring'[j].owner
               PROVE  i = j
    OBVIOUS
  <2>1. i + 1 = j + 1
    BY <1>1, <1>2 DEF Slots
  <2> QED BY <1>2, <2>1
<1>6. \A u \in Callers : pc'[u] \in {"stamp", "publish", "publish_frees"} =>
       \E i \in DOMAIN ring' : ~ring'[i].pub /\ ring'[i].owner = u
  <2> SUFFICES ASSUME NEW u \in Callers, pc'[u] \in {"stamp", "publish", "publish_frees"}
               PROVE  \E i \in DOMAIN ring' : ~ring'[i].pub /\ ring'[i].owner = u
    OBVIOUS
  <2>1. PICK i \in DOMAIN ring : ~ring[i].pub /\ ring[i].owner = u
    BY <1>1 DEF Slots
  <2>2. i - 1 \in DOMAIN ring' /\ ring'[i - 1] = ring[i]
    BY <1>1, <1>2, <2>1
  <2> QED BY <2>1, <2>2
<1> QED BY <1>4, <1>5, <1>6 DEF Slots

------------------------------------------------------------------------------
(* What the steps do to the records and the frees under way.                *)

(* The allocations on the ring are the ring's alone.                         *)
LEMMA RingSame ==
  ASSUME ring' = ring PROVE InRing' = InRing
BY DEF InRing

(* Publishing a record does not change the object it tells of.               *)
LEMMA RecordOfSame ==
  ASSUME NEW r, NEW u, SameButPub(r, u)
  PROVE  /\ Numbered(u) <=> Numbered(r)
         /\ Numbered(r) => RecordOf(u) = RecordOf(r)
BY DEF SameButPub, Numbered, RecordOf

(* A reserved record tells of no object yet, and of no free it did not hold  *)
(* in the batch.                                                             *)
LEMMA ReserveViews ==
  ASSUME Types, NEW t \in Callers, ReserveAlloc(t) \/ ReserveFrees(t)
  PROVE  InRing' = InRing /\ PendingFrees' = PendingFrees
<1>1. PICK n : n = Len(ring) + 1
  OBVIOUS
<1>2. /\ DOMAIN ring' = DOMAIN ring \cup {n} /\ n \notin DOMAIN ring
      /\ \A i \in DOMAIN ring : ring'[i] = ring[i]
      /\ ring'[n].pub = FALSE
      /\ ring'[n].kind = "frees" \/ ring'[n].seq = 0
  BY <1>1, ReserveEdits
<1>3. ~Numbered(ring'[n])
  BY <1>2 DEF Numbered
<1>4. \A p : p \in InRingOf(ring') <=> p \in InRingOf(ring)
  BY <1>2, <1>3, InRingIs
<1>5. batch' = batch
  BY DEF ReserveAlloc, ReserveFrees
<1>6. \A e : IsFree(batch, ring', e) <=> IsFree(batch, ring, e)
  BY <1>2 DEF IsFree
<1>7. \A e : e \in FreesIn(batch, ring') <=> e \in FreesIn(batch, ring)
  BY <1>6, FreesInIs
<1>8. FreesIn(batch, ring') = FreesIn(batch, ring)
  BY <1>7 DEF FreesIn
<1>9. InRingOf(ring') = InRingOf(ring)
  BY <1>4 DEF InRingOf
<1> QED BY <1>5, <1>8, <1>9, PendingIs DEF InRing

(* Stamping makes one object known to the ring, with the newest number.      *)
LEMMA StampViews ==
  ASSUME Types, Slots, NEW t \in Callers, StampAlloc(t)
  PROVE  /\ PendingFrees' = PendingFrees
         /\ \E x : InRing' = InRing \cup {x} /\ x[1] = arg[t].addr /\ x[2].seq = g_seq
<1>1. PICK k : k = SlotOf(t)
  OBVIOUS
<1> DEFINE u == [ring[k] EXCEPT !.seq = g_seq]
<1>2. /\ Edited(k, u) /\ ring[k] \in AllocRecords /\ ring[k].seq = 0 /\ ~ring[k].pub
      /\ u \in AllocRecords /\ u.seq = g_seq /\ u.addr = arg[t].addr
  BY <1>1, StampEdits
<1> HIDE DEF u
<1>3. g_seq # 0 /\ ring[k].kind = "alloc" /\ u.kind = "alloc"
  BY <1>2, TypesAre, AllocFields
<1>4. Numbered(u) /\ ~Numbered(ring[k]) /\ RecordOf(u)[1] = arg[t].addr /\ RecordOf(u)[2].seq = g_seq
  BY <1>2, <1>3, RecordIs DEF Numbered
<1>5. /\ DOMAIN ring' = DOMAIN ring /\ k \in DOMAIN ring /\ ring'[k] = u
      /\ \A i \in DOMAIN ring : i # k => ring'[i] = ring[i]
  BY <1>2 DEF Edited
<1>6. \A p : p \in InRingOf(ring') <=> p \in InRingOf(ring) \/ p = RecordOf(u)
  BY <1>4, <1>5, InRingIs
<1>7. InRing' = InRing \cup {RecordOf(u)}
  BY <1>6 DEF InRing
<1>8. batch' = batch
  BY DEF StampAlloc
<1>9. \A e : IsFree(batch, ring', e) <=> IsFree(batch, ring, e)
  BY <1>3, <1>5 DEF IsFree
<1>10. \A e : e \in FreesIn(batch, ring') <=> e \in FreesIn(batch, ring)
  BY <1>9, FreesInIs
<1>11. FreesIn(batch, ring') = FreesIn(batch, ring)
  BY <1>10 DEF FreesIn
<1> QED BY <1>4, <1>7, <1>8, <1>11, PendingIs

(* The empty sequence has no members.                                        *)
LEMMA NoneIn == ToSet(<<>>) = {}
BY DEF ToSet

(* Publishing a batch moves its frees from the thread to the ring: none is   *)
(* added and none lost.                                                      *)
LEMMA PublishViews ==
  ASSUME Types, Slots, NEW t \in Callers, PublishAlloc(t) \/ PublishFrees(t)
  PROVE  InRing' = InRing /\ PendingFrees' = PendingFrees
<1>1. PICK k : k = SlotOf(t)
  OBVIOUS
<1> DEFINE u == [ring[k] EXCEPT !.pub = TRUE]
<1>2. /\ Edited(k, u) /\ SameButPub(ring[k], u) /\ ~ring[k].pub /\ u.pub /\ ring[k].owner = t
      /\ Reserved(k)
  BY <1>1, PublishEdits
<1> HIDE DEF u
<1>3. /\ DOMAIN ring' = DOMAIN ring /\ k \in DOMAIN ring /\ ring'[k] = u
      /\ \A i \in DOMAIN ring : i # k => ring'[i] = ring[i]
  BY <1>2 DEF Edited
<1>4. /\ Numbered(u) <=> Numbered(ring[k])
      /\ Numbered(ring[k]) => RecordOf(u) = RecordOf(ring[k])
  BY <1>2, RecordOfSame
<1>5. \A p : p \in InRingOf(ring') <=> p \in InRingOf(ring)
  BY <1>3, <1>4, InRingIs
<1>6. InRing' = InRing
  BY <1>5 DEF InRing, InRingOf
<1>7. \A e : IsFree(batch', ring', e) <=> IsFree(batch, ring, e)
  <2>1. CASE PublishAlloc(t)
    <3>1. u.kind = "alloc" /\ batch' = batch
      BY <1>2, <2>1 DEF PublishAlloc, Reserved, SameButPub
    <3> QED BY <1>2, <1>3, <3>1 DEF IsFree
  <2>2. CASE PublishFrees(t)
    <3>1. u.kind = "frees" /\ u.entries = batch[t]
      BY <1>2, <2>2 DEF PublishFrees, Reserved, SameButPub
    <3>2. ToSet(batch'[t]) = {} /\ \A v \in Callers : v # t => batch'[v] = batch[v]
      BY <2>2, NoneIn, TypesAre DEF PublishFrees
    <3>3. ASSUME NEW e, IsFree(batch', ring', e) PROVE IsFree(batch, ring, e)
      BY <1>2, <1>3, <3>1, <3>2, <3>3 DEF IsFree
    <3>4. ASSUME NEW e, IsFree(batch, ring, e) PROVE IsFree(batch', ring', e)
      BY <1>2, <1>3, <3>1, <3>2, <3>4 DEF IsFree
    <3> QED BY <3>3, <3>4
  <2> QED BY <2>1, <2>2
<1>8. \A e : e \in FreesIn(batch', ring') <=> e \in FreesIn(batch, ring)
  BY <1>7, FreesInIs
<1>9. FreesIn(batch', ring') = FreesIn(batch, ring)
  BY <1>8 DEF FreesIn
<1> QED BY <1>6, <1>9, PendingIs

(* Queueing a free adds one to those under way, with the newest number.      *)
LEMMA QueueViews ==
  ASSUME Types, NEW t \in Callers, QueueFree(t)
  PROVE  /\ InRing' = InRing
         /\ \E e : PendingFrees' = PendingFrees \cup {e} /\ e.seq = g_seq /\ e.addr = arg[t].addr
<1> DEFINE e == [seq |-> g_seq, addr |-> arg[t].addr]
<1>1. /\ e.seq = g_seq /\ e.addr = arg[t].addr
      /\ ToSet(batch'[t]) = ToSet(batch[t]) \cup {e}
      /\ \A u \in Callers : u # t => batch'[u] = batch[u]
  BY QueueEdits
<1> HIDE DEF e
<1>2. ring' = ring
  BY DEF QueueFree
<1>3. \A f : IsFree(batch', ring', f) <=> IsFree(batch, ring, f) \/ f = e
  BY <1>1, <1>2 DEF IsFree
<1>4. \A f : f \in FreesIn(batch', ring') <=> f \in FreesIn(batch, ring) \cup {e}
  BY <1>3, FreesInIs
<1>5. FreesIn(batch', ring') = FreesIn(batch, ring) \cup {e}
  BY <1>4 DEF FreesIn
<1> QED BY <1>1, <1>2, <1>5, RingSame, PendingIs

(* A batch the full ring refuses takes its own frees along and no others.    *)
LEMMA DropViews ==
  ASSUME Types, NEW t \in Callers, DropFrees(t)
  PROVE  /\ InRing' = InRing
         /\ PendingFrees' \subseteq PendingFrees
         /\ PendingFrees \subseteq PendingFrees' \cup ToSet(batch[t])
<1>1. ToSet(batch'[t]) = {} /\ \A v \in Callers : v # t => batch'[v] = batch[v]
  BY NoneIn, TypesAre DEF DropFrees
<1>2. ring' = ring
  BY DEF DropFrees
<1>3. \A f : /\ IsFree(batch', ring', f) => IsFree(batch, ring, f)
             /\ IsFree(batch, ring, f) => IsFree(batch', ring', f) \/ f \in ToSet(batch[t])
  BY <1>1, <1>2 DEF IsFree
<1>4. \A f : /\ f \in FreesIn(batch', ring') => f \in FreesIn(batch, ring)
             /\ f \in FreesIn(batch, ring) => f \in FreesIn(batch', ring') \/ f \in ToSet(batch[t])
  BY <1>3, FreesInIs
<1> QED BY <1>2, <1>4, RingSame, PendingIs

(* The frees under way are those of the batches and of the ring alone.       *)
LEMMA PendingSame ==
  ASSUME ring' = ring, batch' = batch PROVE PendingFrees' = PendingFrees
BY PendingIs

------------------------------------------------------------------------------
(* What the steps do to the objects no free was queued for.                 *)

Giver(a) == \E u \in Callers : pc[u] \in Queued /\ arg[u].addr = a

(* An object is kept while it has a number, no free of it was queued and     *)
(* its number is not spoiled.                                                *)
LEMMA KeptIs == \A a \in Addrs : a \in Kept <=> heap[a].seq # 0 /\ heap[a].seq \notin spoiled /\ ~Giver(a)
BY DEF Kept, Given, Giver

(* What to show of a step for the kept objects to stay the same.             *)
LEMMA KeptLike ==
  ASSUME \A a \in Addrs : heap[a].seq # 0 =>
            \/ /\ heap'[a].seq = heap[a].seq
               /\ heap'[a].seq \notin spoiled' /\ ~Giver(a)' <=> heap[a].seq \notin spoiled /\ ~Giver(a)
            \/ ~(heap[a].seq \notin spoiled /\ ~Giver(a)) /\ heap'[a].seq = 0,
         \A a \in Addrs : heap[a].seq = 0 => heap'[a].seq = 0
  PROVE  Kept' = Kept /\ \A a \in Kept : heap'[a].seq = heap[a].seq
BY DEF Kept, Given, Giver

(* A step that does not enter or leave queue_free keeps them.                *)
LEMMA KeptThrough ==
  ASSUME NEW t \in Callers, spoiled' = spoiled,
         \A a \in Addrs : heap'[a].seq = heap[a].seq,
         \A u \in Callers : u # t => pc'[u] = pc[u] /\ arg'[u] = arg[u],
         \/ pc[t] \notin Queued /\ pc'[t] \notin Queued
         \/ pc[t] \in Queued /\ pc'[t] \in Queued /\ arg'[t] = arg[t]
  PROVE  Kept' = Kept /\ \A a \in Kept : heap'[a].seq = heap[a].seq
<1>1. \A a \in Addrs : Giver(a)' <=> Giver(a)
  BY DEF Giver
<1> QED BY <1>1, KeptLike

(* So does the return of a call whose free was queued, or whose number       *)
(* failed to pass on.                                                        *)
LEMMA KeptAfter ==
  ASSUME BookInv, NEW t \in Callers, pc[t] \in Queued, pc'[t] \notin Queued,
         \A u \in Callers : u # t => pc'[u] = pc[u] /\ arg'[u] = arg[u],
         \A b \in Addrs : b # arg[t].addr => heap'[b].seq = heap[b].seq,
         \/ spoiled' = spoiled /\ heap'[arg[t].addr].seq = 0
         \/ spoiled' = spoiled \cup {heap[arg[t].addr].seq} /\ heap'[arg[t].addr].seq = heap[arg[t].addr].seq
  PROVE  Kept' = Kept /\ \A a \in Kept : heap'[a].seq = heap[a].seq
<1>1. PICK a : a = arg[t].addr
  OBVIOUS
<1>2. a \in Addrs
  BY <1>1, TypesAre DEF BookInv
<1>3. Giver(a)
  BY <1>1 DEF Giver
<1>4. \A b \in Addrs : b # a => (Giver(b)' <=> Giver(b))
  BY <1>1 DEF Giver
<1>5. \A b \in Addrs : b # a /\ heap[b].seq # 0 => (heap'[b].seq \notin spoiled' <=> heap[b].seq \notin spoiled)
  BY <1>1, <1>2 DEF BookInv, Numbers
<1>6. a \notin Kept
  BY <1>2, <1>3, KeptIs
<1>7. a \notin Kept'
  BY <1>1, <1>2 DEF Kept, Given
<1>8. \A b \in Addrs : b # a => (b \in Kept' <=> b \in Kept)
  BY <1>1, <1>4, <1>5 DEF Kept, Given, Giver
<1>9. Kept' = Kept
  BY <1>6, <1>7, <1>8 DEF Kept
<1>10. \A b \in Kept : b # a /\ b \in Addrs
  BY <1>6 DEF Kept
<1> QED BY <1>1, <1>9, <1>10

(* Stamping makes an object kept.                                            *)
LEMMA StampKept ==
  ASSUME BookInv, NEW t \in Callers, StampAlloc(t)
  PROVE  /\ arg[t].addr \notin Kept /\ Kept' = Kept \cup {arg[t].addr}
         /\ heap'[arg[t].addr].seq = g_seq
         /\ \A a \in Kept : heap'[a].seq = heap[a].seq
<1>1. PICK a : a = arg[t].addr
  OBVIOUS
<1>2. /\ Types /\ a \in Addrs /\ g_seq # 0 /\ g_seq \in Nat /\ pc \in [Callers -> Lines] /\ spoiled \subseteq Nat
  BY <1>1, TypesAre DEF BookInv
<1>3. /\ heap'[a].seq = g_seq /\ \A b \in Addrs : b # a => heap'[b] = heap[b]
  BY <1>1, <1>2, SeqIs DEF StampAlloc
<1>4. /\ pc[t] = "stamp" /\ pc'[t] = "publish" /\ \A u \in Callers : u # t => pc'[u] = pc[u]
      /\ arg' = arg /\ spoiled' = spoiled
  BY <1>2 DEF StampAlloc, Goto
<1>5. heap[a].seq = 0
  BY <1>1, <1>4 DEF BookInv, Serving
<1>6. g_seq \notin spoiled
  BY <1>2 DEF BookInv, Numbers
<1>7. \A u \in Callers : u # t /\ pc[u] # "idle" => arg[u].addr # a
  BY <1>1, <1>4, ServingIs
<1>8. \A b \in Addrs : Giver(b)' <=> Giver(b)
  BY <1>4 DEF Giver, Queued
<1>9. ~Giver(a)
  BY <1>4, <1>7 DEF Giver, Queued
<1>10. a \notin Kept
  BY <1>5 DEF Kept
<1>11. a \in Kept'
  BY <1>2, <1>3, <1>4, <1>6, <1>8, <1>9 DEF Kept, Given, Giver
<1>12. \A b \in Addrs : b # a => (b \in Kept' <=> b \in Kept)
  BY <1>3, <1>4, <1>8 DEF Kept, Given, Giver
<1>13. Kept' = Kept \cup {a}
  BY <1>2, <1>11, <1>12 DEF Kept
<1>14. \A b \in Kept : b # a /\ b \in Addrs
  BY <1>10 DEF Kept
<1> QED BY <1>1, <1>3, <1>10, <1>13, <1>14

(* Queueing its free makes it no longer kept.                                *)
LEMMA QueueKept ==
  ASSUME BookInv, NEW t \in Callers, QueueFree(t)
  PROVE  Kept' = Kept \ {arg[t].addr} /\ heap' = heap
<1>1. PICK a : a = arg[t].addr
  OBVIOUS
<1>2. pc \in [Callers -> Lines]
  BY TypesAre DEF BookInv
<1>3. /\ pc[t] = "queue" /\ pc'[t] \in {"flush", "finish"} /\ \A u \in Callers : u # t => pc'[u] = pc[u]
      /\ arg' = arg /\ spoiled' = spoiled /\ heap' = heap
  BY <1>2 DEF QueueFree, Goto
<1>4. \A b \in Addrs : b # a => (Giver(b)' <=> Giver(b))
  BY <1>1, <1>3 DEF Giver, Queued
<1>5. a \notin Kept'
  BY <1>1, <1>3 DEF Kept, Given, Queued
<1>6. \A b \in Addrs : b # a => (b \in Kept' <=> b \in Kept)
  BY <1>3, <1>4 DEF Kept, Given, Giver
<1>7. Kept' = Kept \ {a}
  BY <1>5, <1>6 DEF Kept
<1> QED BY <1>1, <1>3, <1>7

------------------------------------------------------------------------------
(* The steps that change neither.                                           *)

Quiet ==
  /\ book' = book /\ InRing' = InRing /\ PendingFrees' = PendingFrees /\ Kept' = Kept
  /\ \A a \in Kept : heap'[a].seq = heap[a].seq
  /\ lost_frees' = lost_frees /\ (refused' = 0 => refused = 0)

(* A step that changes neither the objects recorded, the frees under way     *)
(* nor the kept objects keeps the accounting.                                *)
LEMMA QuietKeeps ==
  ASSUME BookInv, Quiet
  PROVE  /\ FreesOlder' /\ KeptRecorded' /\ Accounted' /\ SiteTotalsBalance'
         /\ Ascending(book)' /\ Before(LiveOf(book), InRing)'
         /\ Recorded' = Recorded /\ PendingFrees' = PendingFrees
<1>1. LiveOf(book)' = LiveOf(book) /\ Recorded' = Recorded
  BY DEF Quiet, LiveOf, Recorded
<1>2. /\ Kept' = Kept /\ \A a \in Kept : heap'[a].seq = heap[a].seq
      /\ PendingFrees' = PendingFrees /\ InRing' = InRing
  BY DEF Quiet
<1>3. FreesOlder'
  BY <1>2 DEF BookInv, FreesOlder
<1>4. KeptRecorded'
  BY <1>1, <1>2 DEF BookInv, KeptRecorded
<1>5. Gone' = Gone
  BY <1>1, <1>2 DEF Gone, OfKept
<1>6. Accounted'
  BY <1>1, <1>2, <1>5 DEF BookInv, Accounted, Matched, Pairs, Quiet
<1>7. SiteTotalsBalance'
  BY Balances DEF BookInv, Quiet
<1>8. Ascending(book)'
  BY DEF BookInv, Order, Ascending, Quiet
<1>9. Before(LiveOf(book), InRing)'
  BY <1>1, <1>2 DEF BookInv, Order, Before
<1> QED BY <1>1, <1>2, <1>3, <1>4, <1>6, <1>7, <1>8, <1>9

Calm ==
  /\ Quiet /\ g_seq' = g_seq
  /\ \A a \in Addrs : heap'[a].seq = 0 \/ heap'[a].seq = heap[a].seq
  /\ \A s \in spoiled' : s \in spoiled \/ \E a \in Addrs : s = heap[a].seq

(* Entering a call is such a step.                                           *)
LEMMA CalmAllocs ==
  ASSUME BookInv, NEW t \in Callers, NEW a \in Addrs
  PROVE  /\ AllocUnsampled(t, a) => Calm
         /\ \A size \in SampleSizes, site \in Sites : AllocSampled(t, a, size, site) => Calm
         /\ \A o \in {"free", "realloc"} : CallFree(t, a, o) => Calm
<1>1. /\ Types /\ heap \in [Addrs -> Cells] /\ pc \in [Callers -> Lines] /\ arg \in [Callers -> Args]
  BY TypesAre DEF BookInv
<1>2. heap[a].st = "free" => heap[a].seq = 0
  BY ServingIs
<1>3. ASSUME AllocUnsampled(t, a) PROVE Calm
  <2>1. /\ heap'[a].seq = 0 /\ \A b \in Addrs : b # a => heap'[b] = heap[b]
        /\ heap[a].st = "free" /\ pc' = pc /\ arg' = arg /\ pc[t] = "idle"
    BY <1>1, <1>3, CellSet, CellsTyped DEF AllocUnsampled
  <2>2. \A b \in Addrs : heap'[b].seq = heap[b].seq
    BY <1>2, <2>1
  <2>3. Kept' = Kept /\ \A b \in Kept : heap'[b].seq = heap[b].seq
    BY <1>3, <2>1, <2>2, KeptThrough DEF AllocUnsampled, Queued
  <2> QED BY <1>3, <2>2, <2>3, RingSame, PendingSame DEF AllocUnsampled, Calm, Quiet, loss
<1>4. ASSUME NEW size \in SampleSizes, NEW site \in Sites, AllocSampled(t, a, size, site)
      PROVE  Calm
  <2>1. /\ heap'[a].seq = 0 /\ \A b \in Addrs : b # a => heap'[b] = heap[b]
        /\ heap[a].st = "free" /\ pc[t] = "idle"
    BY <1>1, <1>4, CellSet, CellsTyped DEF AllocSampled
  <2>2. \A b \in Addrs : heap'[b].seq = heap[b].seq
    BY <1>2, <2>1
  <2>3. pc'[t] = "reserve" /\ \A u \in Callers : u # t => pc'[u] = pc[u] /\ arg'[u] = arg[u]
    BY <1>1, <1>4 DEF AllocSampled, Goto
  <2>4. Kept' = Kept /\ \A b \in Kept : heap'[b].seq = heap[b].seq
    BY <1>4, <2>1, <2>2, <2>3, KeptThrough DEF AllocSampled, Queued
  <2> QED BY <1>4, <2>2, <2>4, RingSame, PendingSame DEF AllocSampled, Calm, Quiet, loss
<1>5. ASSUME NEW o \in {"free", "realloc"}, CallFree(t, a, o) PROVE Calm
  <2>1. \A b \in Addrs : heap'[b].seq = heap[b].seq
    BY <1>1, <1>5, StSet DEF CallFree
  <2>2. pc[t] = "idle" /\ pc'[t] = "queue" /\ \A u \in Callers : u # t => pc'[u] = pc[u] /\ arg'[u] = arg[u]
    BY <1>1, <1>5 DEF CallFree, Goto
  <2>3. Kept' = Kept /\ \A b \in Kept : heap'[b].seq = heap[b].seq
    BY <1>5, <2>1, <2>2, KeptThrough DEF CallFree, Queued
  <2> QED BY <1>5, <2>1, <2>3, RingSame, PendingSame DEF CallFree, Calm, Quiet, loss
<1> QED BY <1>3, <1>4, <1>5

(* So are reserving, dropping an allocation and publishing.                  *)
LEMMA CalmRecords ==
  ASSUME BookInv, NEW t \in Callers
  PROVE  /\ ReserveAlloc(t) => Calm
         /\ DropAlloc(t) => Calm
         /\ PublishAlloc(t) => Calm
         /\ ReserveFrees(t) => Calm
         /\ PublishFrees(t) => Calm
<1>1. /\ Types /\ Slots /\ pc \in [Callers -> Lines] /\ refused \in Nat
  BY TypesAre DEF BookInv
<1>2. ASSUME ReserveAlloc(t) PROVE Calm
  <2>1. pc[t] = "reserve" /\ pc'[t] = "stamp" /\ \A u \in Callers : u # t => pc'[u] = pc[u]
    BY <1>1, <1>2 DEF ReserveAlloc, Goto
  <2>2. Kept' = Kept /\ \A b \in Kept : heap'[b].seq = heap[b].seq
    BY <1>2, <2>1, KeptThrough DEF ReserveAlloc, Queued
  <2> QED BY <1>1, <1>2, <2>2, ReserveViews DEF ReserveAlloc, Calm, Quiet, loss
<1>3. ASSUME DropAlloc(t) PROVE Calm
  <2>1. \A b \in Addrs : heap'[b].seq = heap[b].seq
    BY <1>1, <1>3, StIs DEF DropAlloc
  <2>2. pc[t] = "reserve" /\ pc'[t] = "idle" /\ \A u \in Callers : u # t => pc'[u] = pc[u] /\ arg'[u] = arg[u]
    BY <1>1, <1>3, Returns DEF DropAlloc
  <2>3. Kept' = Kept /\ \A b \in Kept : heap'[b].seq = heap[b].seq
    BY <1>3, <2>1, <2>2, KeptThrough DEF DropAlloc, Queued
  <2>4. refused' # 0
    BY <1>1, <1>3 DEF DropAlloc
  <2> QED BY <1>3, <2>1, <2>3, <2>4, RingSame, PendingSame, SMTT(30) DEF DropAlloc, Calm, Quiet
<1>4. ASSUME PublishAlloc(t) PROVE Calm
  <2>1. \A b \in Addrs : heap'[b].seq = heap[b].seq
    BY <1>1, <1>4, StIs DEF PublishAlloc
  <2>2. pc[t] = "publish" /\ pc'[t] = "idle" /\ \A u \in Callers : u # t => pc'[u] = pc[u] /\ arg'[u] = arg[u]
    BY <1>1, <1>4, Returns DEF PublishAlloc
  <2>3. Kept' = Kept /\ \A b \in Kept : heap'[b].seq = heap[b].seq
    BY <1>4, <2>1, <2>2, KeptThrough DEF PublishAlloc, Queued
  <2> QED BY <1>1, <1>4, <2>1, <2>3, PublishViews DEF PublishAlloc, Calm, Quiet, loss
<1>5. ASSUME ReserveFrees(t) \/ PublishFrees(t) PROVE Calm
  <2>1. /\ pc[t] \in Queued /\ pc'[t] \in Queued /\ \A u \in Callers : u # t => pc'[u] = pc[u]
        /\ arg' = arg /\ heap' = heap /\ spoiled' = spoiled
    BY <1>1, <1>5 DEF ReserveFrees, PublishFrees, Goto, Queued
  <2>2. Kept' = Kept /\ \A b \in Kept : heap'[b].seq = heap[b].seq
    BY <2>1, KeptThrough
  <2>3. InRing' = InRing /\ PendingFrees' = PendingFrees
    BY <1>1, <1>5, ReserveViews, PublishViews
  <2> QED BY <1>5, <2>1, <2>2, <2>3 DEF ReserveFrees, PublishFrees, Calm, Quiet, loss
<1> QED BY <1>2, <1>3, <1>4, <1>5

(* So are the real free and realloc.                                         *)
LEMMA CalmFinish ==
  ASSUME BookInv, NEW t \in Callers
  PROVE  /\ RealFree(t) => Calm
         /\ FailedRealloc(t) => Calm
         /\ \A b \in Addrs, sampled \in BOOLEAN, size \in SampleSizes, site \in Sites :
              RealRealloc(t, b, sampled, size, site) => Calm
<1>1. /\ Types /\ heap \in [Addrs -> Cells] /\ pc \in [Callers -> Lines]
      /\ arg \in [Callers -> Args] /\ arg[t].addr \in Addrs
  BY TypesAre DEF BookInv
<1>2. ASSUME RealFree(t) PROVE Calm
  <2>1. PICK a : a = arg[t].addr
    OBVIOUS
  <2>2. heap' = [heap EXCEPT ![a] = [st |-> "free", seq |-> 0]] /\ a \in Addrs
    BY <1>1, <1>2, <2>1 DEF RealFree
  <2>3. heap'[a].seq = 0 /\ \A b \in Addrs : b # a => heap'[b] = heap[b]
    BY <1>1, <2>2
  <2>4. pc[t] = "finish" /\ pc'[t] = "idle" /\ \A u \in Callers : u # t => pc'[u] = pc[u] /\ arg'[u] = arg[u]
    BY <1>1, <1>2, Returns DEF RealFree
  <2>5. Kept' = Kept /\ \A b \in Kept : heap'[b].seq = heap[b].seq
    BY <1>2, <2>1, <2>3, <2>4, KeptAfter DEF RealFree, Queued
  <2> QED BY <1>2, <2>3, <2>5, RingSame, PendingSame DEF RealFree, Calm, Quiet, loss
<1>3. ASSUME FailedRealloc(t) PROVE Calm
  <2>1. \A b \in Addrs : heap'[b].seq = heap[b].seq
    BY <1>1, <1>3, StIs DEF FailedRealloc
  <2>2. pc[t] = "finish" /\ pc'[t] = "idle" /\ \A u \in Callers : u # t => pc'[u] = pc[u] /\ arg'[u] = arg[u]
    BY <1>1, <1>3, Returns DEF FailedRealloc
  <2>3. spoiled' = spoiled \cup {heap[arg[t].addr].seq}
    BY <1>3 DEF FailedRealloc
  <2>4. Kept' = Kept /\ \A b \in Kept : heap'[b].seq = heap[b].seq
    BY <1>1, <2>1, <2>2, <2>3, KeptAfter DEF Queued
  <2> QED BY <1>1, <1>3, <2>1, <2>3, <2>4, RingSame, PendingSame DEF FailedRealloc, Calm, Quiet, loss
<1>4. ASSUME NEW b \in Addrs, NEW sampled \in BOOLEAN, NEW size \in SampleSizes, NEW site \in Sites,
             RealRealloc(t, b, sampled, size, site)
      PROVE  Calm
  <2>1. PICK a : a = arg[t].addr
    OBVIOUS
  <2> DEFINE l == IF sampled THEN "coming" ELSE "held"
  <2>2. /\ heap' = [heap EXCEPT ![a] = [st |-> "free", seq |-> 0], ![b] = [st |-> l, seq |-> 0]]
        /\ a \in Addrs /\ pc[t] = "finish" /\ (b = a \/ heap[b].st = "free")
    BY <1>1, <1>4, <2>1 DEF RealRealloc
  <2> HIDE DEF l
  <2>3. /\ heap'[b].seq = 0 /\ heap'[a].seq = 0
        /\ \A c \in Addrs : c # a /\ c # b => heap'[c] = heap[c]
    BY <1>1, <2>2
  <2>4. \A c \in Addrs : c # a => heap'[c].seq = heap[c].seq
    BY <2>2, <2>3, ServingIs
  <2>5. /\ \A u \in Callers : u # t => pc'[u] = pc[u] /\ arg'[u] = arg[u]
        /\ pc'[t] \in {"reserve", "idle"}
    <3>1. CASE sampled
      BY <1>1, <1>4, <3>1 DEF RealRealloc, Goto
    <3>2. CASE ~sampled
      <4>1. Return(t)
        BY <1>4, <3>2 DEF RealRealloc
      <4> QED BY <1>1, <4>1, Returns
    <3> QED BY <3>1, <3>2
  <2>6. spoiled' = spoiled
    BY <1>4 DEF RealRealloc
  <2>7. Kept' = Kept /\ \A c \in Kept : heap'[c].seq = heap[c].seq
    BY <2>1, <2>2, <2>3, <2>4, <2>5, <2>6, KeptAfter DEF Queued
  <2>8. \A c \in Addrs : heap'[c].seq = 0 \/ heap'[c].seq = heap[c].seq
    BY <2>3, <2>4
  <2> QED BY <1>4, <2>6, <2>7, <2>8, RingSame, PendingSame DEF RealRealloc, Calm, Quiet, loss
<1> QED BY <1>2, <1>3, <1>4

(* Numbers and orders.                                                       *)
LEMMA NumbersBy ==
  ASSUME BookInv, g_seq' = g_seq,
         \A a \in Addrs : heap'[a].seq = 0 \/ heap'[a].seq = heap[a].seq,
         \A s \in spoiled' : s \in spoiled \/ \E a \in Addrs : s = heap[a].seq,
         Recorded' \subseteq Recorded, PendingFrees' \subseteq PendingFrees
  PROVE  Numbers'
<1>1. g_seq \in Nat /\ g_seq # 0
  BY TypesAre DEF BookInv
<1>2. /\ \A a \in Addrs : heap[a].seq < g_seq
      /\ \A a, b \in Addrs : heap[a].seq = heap[b].seq /\ heap[a].seq # 0 => a = b
      /\ \A s \in spoiled : s < g_seq
  BY DEF BookInv, Numbers
<1>3. \A a \in Addrs : heap'[a].seq < g_seq'
  BY <1>1, <1>2
<1>4. \A a, b \in Addrs : heap'[a].seq = heap'[b].seq /\ heap'[a].seq # 0 => a = b
  BY <1>2
<1>5. \A s \in spoiled' : s < g_seq'
  BY <1>2
<1>6. \A p \in Recorded' : p[2].seq # 0 /\ p[2].seq < g_seq'
  BY DEF BookInv, Numbers
<1>7. \A e \in PendingFrees' : e.seq < g_seq'
  BY DEF BookInv, Numbers
<1> QED BY <1>3, <1>4, <1>5, <1>6, <1>7 DEF Numbers

(* Such a step keeps the numbers.                                            *)
LEMMA CalmNumbers ==
  ASSUME BookInv, Calm
  PROVE  Numbers'
<1>1. Recorded' = Recorded /\ PendingFrees' = PendingFrees
  BY QuietKeeps DEF Calm
<1> QED BY <1>1, NumbersBy DEF Calm

(* RingOrder, with the shape of the ring.                                    *)
LEMMA RingOrderIs ==
  ASSUME BookInv
  PROVE  /\ RingOrder /\ Types /\ Slots /\ ring \in Seq(Records) /\ DOMAIN ring = 1..Len(ring) /\ Len(ring) \in Nat
BY TypesAre DEF BookInv, Order

(* A record reserved last follows every allocation of its address.           *)
LEMMA ReserveOrder ==
  ASSUME BookInv, NEW t \in Callers, ReserveAlloc(t) \/ ReserveFrees(t)
  PROVE  RingOrder'
<1>1. PICK n : n = Len(ring) + 1
  OBVIOUS
<1>2. /\ DOMAIN ring' = DOMAIN ring \cup {n} /\ n \notin DOMAIN ring
      /\ \A i \in DOMAIN ring : ring'[i] = ring[i] /\ i < n
      /\ ReserveAlloc(t) => ring'[n].kind = "alloc" /\ ring'[n].seq = 0 /\ ring'[n].addr = arg[t].addr
      /\ ReserveFrees(t) => ring'[n].kind = "frees"
  BY <1>1, RingOrderIs, ReserveEdits
<1>3. ReserveAlloc(t) => pc[t] = "reserve"
  BY DEF ReserveAlloc
<1>4. n \in Nat /\ \A i \in DOMAIN ring : i \in Nat
  BY <1>1, RingOrderIs
<1>5. ASSUME NEW i \in DOMAIN ring', NEW j \in DOMAIN ring', i < j, ring'[j].kind = "alloc"
      PROVE  /\ ring'[i].kind = "alloc" /\ ring'[i].addr = ring'[j].addr =>
                  ring'[i].seq # 0 /\ (ring'[j].seq # 0 => ring'[i].seq < ring'[j].seq)
             /\ ring'[i].kind = "frees" /\ ring'[j].seq # 0 =>
                  \A e \in ToSet(ring'[i].entries) : e.seq < ring'[j].seq
  <2>1. i \in DOMAIN ring
    BY <1>2, <1>4, <1>5
  <2>2. CASE j \in DOMAIN ring
    BY <1>2, <1>5, <2>1, <2>2, RingOrderIs DEF RingOrder
  <2>3. CASE j = n
    <3>1. ReserveAlloc(t) /\ pc[t] = "reserve" /\ ring'[j].seq = 0 /\ ring'[j].addr = arg[t].addr
      BY <1>2, <1>3, <1>5, <2>3
    <3>2. ASSUME ring[i].kind = "alloc", ring[i].addr = arg[t].addr, ring[i].seq = 0 PROVE FALSE
      <4>1. ~ring[i].pub /\ Reserved(i) /\ ring[i].owner \in Callers
        BY <2>1, <3>2, RingOrderIs, Kinds DEF Slots
      <4>2. pc[ring[i].owner] = "stamp" /\ arg[ring[i].owner].addr = arg[t].addr
        BY <3>2, <4>1 DEF Reserved
      <4> QED BY <3>1, <4>1, <4>2, ServingIs
    <3> QED BY <1>2, <2>1, <3>1, <3>2
  <2> QED BY <1>2, <2>2, <2>3
<1> QED BY <1>5 DEF RingOrder

(* The newest number is above all of the ring.                               *)
LEMMA StampOrder ==
  ASSUME BookInv, NEW t \in Callers, StampAlloc(t)
  PROVE  RingOrder'
<1>1. PICK k : k = SlotOf(t)
  OBVIOUS
<1> DEFINE u == [ring[k] EXCEPT !.seq = g_seq]
<1>2. /\ Edited(k, u) /\ ring[k] \in AllocRecords /\ ring[k].seq = 0 /\ ring[k].addr = arg[t].addr
      /\ u \in AllocRecords /\ u.seq = g_seq /\ u.addr = arg[t].addr
  BY <1>1, RingOrderIs, StampEdits
<1> HIDE DEF u
<1>3. /\ DOMAIN ring' = DOMAIN ring /\ k \in DOMAIN ring /\ ring'[k] = u
      /\ \A i \in DOMAIN ring : i # k => ring'[i] = ring[i]
  BY <1>2 DEF Edited
<1>4. ring[k].kind = "alloc" /\ u.kind = "alloc" /\ ring[k].addr = u.addr
  BY <1>2, AllocFields
<1>5. \A i \in DOMAIN ring : i \in Nat
  BY RingOrderIs
<1>6. \A i \in DOMAIN ring : ring[i].kind = "alloc" /\ ring[i].seq # 0 => ring[i].seq < g_seq
  <2> SUFFICES ASSUME NEW i \in DOMAIN ring, ring[i].kind = "alloc", ring[i].seq # 0
               PROVE  ring[i].seq < g_seq
    OBVIOUS
  <2>1. ring[i] \in AllocRecords /\ Numbered(ring[i])
    BY RingOrderIs, Kinds DEF Numbered
  <2>2. RecordOf(ring[i]) \in Recorded /\ RecordOf(ring[i])[2].seq = ring[i].seq
    BY <2>1, InRingIs, RecordIs DEF InRing, Recorded
  <2> QED BY <2>2 DEF BookInv, Numbers
<1>7. \A i \in DOMAIN ring : ring[i].kind = "frees" => \A e \in ToSet(ring[i].entries) : e.seq < g_seq
  <2> SUFFICES ASSUME NEW i \in DOMAIN ring, ring[i].kind = "frees", NEW e \in ToSet(ring[i].entries)
               PROVE  e.seq < g_seq
    OBVIOUS
  <2>1. ring[i].owner \in Callers
    BY RingOrderIs, Kinds
  <2>2. CASE ring[i].pub
    <3>1. IsFree(batch, ring, e)
      BY <2>2 DEF IsFree
    <3> QED BY <3>1, FreesInIs, PendingIs DEF BookInv, Numbers
  <2>3. CASE ~ring[i].pub
    <3>1. ring[i].entries = batch[ring[i].owner]
      BY <2>3, RingOrderIs DEF Slots, Reserved
    <3>2. IsFree(batch, ring, e)
      BY <2>1, <3>1 DEF IsFree
    <3> QED BY <3>2, FreesInIs, PendingIs DEF BookInv, Numbers
  <2> QED BY <2>2, <2>3
<1>8. ASSUME NEW i \in DOMAIN ring', NEW j \in DOMAIN ring', i < j, ring'[j].kind = "alloc"
      PROVE  /\ ring'[i].kind = "alloc" /\ ring'[i].addr = ring'[j].addr =>
                  ring'[i].seq # 0 /\ (ring'[j].seq # 0 => ring'[i].seq < ring'[j].seq)
             /\ ring'[i].kind = "frees" /\ ring'[j].seq # 0 =>
                  \A e \in ToSet(ring'[i].entries) : e.seq < ring'[j].seq
  <2>1. i # j
    BY <1>3, <1>5, <1>8
  <2>2. CASE i # k /\ j # k
    BY <1>3, <1>8, <2>2, RingOrderIs DEF RingOrder
  <2>3. CASE j = k
    <3>1. ring'[i] = ring[i] /\ i \in DOMAIN ring
      BY <1>3, <2>1, <2>3
    <3>2. ring[i].kind = "alloc" /\ ring[i].addr = ring[k].addr => ring[i].seq # 0
      BY <1>3, <1>4, <1>8, <2>3, <3>1, RingOrderIs DEF RingOrder
    <3> QED BY <1>2, <1>3, <1>4, <1>6, <1>7, <2>3, <3>1, <3>2
  <2>4. CASE i = k
    <3>1. ring'[j] = ring[j] /\ j \in DOMAIN ring
      BY <1>3, <2>1, <2>4
    <3>2. ~(ring[k].kind = "alloc" /\ ring[k].addr = ring[j].addr)
      BY <1>2, <1>3, <1>8, <2>4, <3>1, RingOrderIs DEF RingOrder
    <3> QED BY <1>3, <1>4, <2>4, <3>1, <3>2
  <2> QED BY <2>2, <2>3, <2>4
<1> QED BY <1>8 DEF RingOrder

(* Publishing changes no number.                                             *)
LEMMA PublishOrder ==
  ASSUME BookInv, NEW t \in Callers, PublishAlloc(t) \/ PublishFrees(t)
  PROVE  RingOrder'
<1>1. PICK k : k = SlotOf(t)
  OBVIOUS
<1> DEFINE u == [ring[k] EXCEPT !.pub = TRUE]
<1>2. Edited(k, u) /\ SameButPub(ring[k], u)
  BY <1>1, RingOrderIs, PublishEdits
<1> HIDE DEF u
<1>3. /\ DOMAIN ring' = DOMAIN ring /\ k \in DOMAIN ring /\ ring'[k] = u
      /\ \A i \in DOMAIN ring : i # k => ring'[i] = ring[i]
  BY <1>2 DEF Edited
<1>4. \A i \in DOMAIN ring : SameButPub(ring[i], ring'[i])
  BY <1>2, <1>3 DEF SameButPub
<1>5. \A i \in DOMAIN ring :
        /\ ring'[i].kind = ring[i].kind
        /\ ring[i].kind = "alloc" => ring'[i].seq = ring[i].seq /\ ring'[i].addr = ring[i].addr
        /\ ring[i].kind = "frees" => ring'[i].entries = ring[i].entries
  BY <1>4 DEF SameButPub
<1>6. ASSUME NEW i \in DOMAIN ring', NEW j \in DOMAIN ring', i < j, ring'[j].kind = "alloc"
      PROVE  /\ ring'[i].kind = "alloc" /\ ring'[i].addr = ring'[j].addr =>
                  ring'[i].seq # 0 /\ (ring'[j].seq # 0 => ring'[i].seq < ring'[j].seq)
             /\ ring'[i].kind = "frees" /\ ring'[j].seq # 0 =>
                  \A e \in ToSet(ring'[i].entries) : e.seq < ring'[j].seq
  BY <1>3, <1>5, <1>6, RingOrderIs DEF RingOrder
<1> QED BY <1>6 DEF RingOrder

(* The rest of the ring keeps its order.                                     *)
LEMMA DrainOrder ==
  ASSUME BookInv, Drain
  PROVE  RingOrder'
<1>1. ring # << >> /\ ring' = Tail(ring)
  BY DEF Drain
<1>2. \A i \in DOMAIN ring' : i \in Nat /\ i + 1 \in DOMAIN ring /\ ring'[i] = ring[i + 1]
  BY <1>1, RingOrderIs, RingTail
<1>3. ASSUME NEW i \in DOMAIN ring', NEW j \in DOMAIN ring', i < j, ring'[j].kind = "alloc"
      PROVE  /\ ring'[i].kind = "alloc" /\ ring'[i].addr = ring'[j].addr =>
                  ring'[i].seq # 0 /\ (ring'[j].seq # 0 => ring'[i].seq < ring'[j].seq)
             /\ ring'[i].kind = "frees" /\ ring'[j].seq # 0 =>
                  \A e \in ToSet(ring'[i].entries) : e.seq < ring'[j].seq
  <2>1. i + 1 < j + 1
    BY <1>2, <1>3
  <2> QED BY <1>2, <1>3, <2>1, RingOrderIs DEF RingOrder
<1> QED BY <1>3 DEF RingOrder

(* The order is the ring's alone.                                            *)
LEMMA SameOrder ==
  ASSUME BookInv, ring' = ring
  PROVE  RingOrder'
BY RingOrderIs DEF RingOrder

------------------------------------------------------------------------------
(* Frees queued and frees lost.                                             *)

(* A new object gone, with a free of its own.                                *)
LEMMA MatchedPlus ==
  ASSUME NEW G, NEW F, NEW n \in Nat, Matched(G, F, n),
         NEW x, NEW e, e \notin F, x[1] = e.addr, x[2].seq < e.seq
  PROVE  Matched(G \cup {x}, F \cup {e}, n)
<1>1. PICK D \in SUBSET G : /\ IsFiniteSet(G \ D) /\ Cardinality(G \ D) <= n
                            /\ \E m \in [D -> F] : Pairs(m, D, F)
  BY DEF Matched
<1>2. PICK m \in [D -> F] : Pairs(m, D, F)
  BY <1>1
<1> DEFINE B == D \cup {x}
           h == [p \in B |-> IF p = x THEN e ELSE m[p]]
           U == (G \cup {x}) \ B
<1>3. h \in [B -> F \cup {e}]
  BY <1>2
<1>4. \A p \in B : h[p].addr = p[1] /\ p[2].seq < h[p].seq
  BY <1>2 DEF Pairs
<1>5. \A p, q \in B : h[p] = h[q] => p = q
  BY <1>2 DEF Pairs
<1>6. B \in SUBSET (G \cup {x}) /\ U \in SUBSET (G \ D)
  OBVIOUS
<1>7. IsFiniteSet(U) /\ Cardinality(U) <= n
  <2> HIDE DEF U
  <2>1. IsFiniteSet(U) /\ Cardinality(U) <= Cardinality(G \ D) /\ Cardinality(U) \in Nat
        /\ Cardinality(G \ D) \in Nat
    BY <1>1, <1>6, FS_Subset, FS_CardinalityType
  <2>2. ASSUME G \ D = U PROVE Cardinality(U) <= n
    BY <1>1, <2>2
  <2>3. CASE x \in D
    <3>1. U = G \ D
      BY <2>3 DEF U
    <3> QED BY <2>1, <2>2, <3>1
  <2>4. CASE x \notin D /\ x \in G
    <3>1. U = (G \ D) \ {x}
      BY <2>4 DEF U
    <3>2. Cardinality(U) = Cardinality(G \ D) - 1
      BY <1>1, <2>4, <3>1, FS_RemoveElement
    <3> QED BY <1>1, <2>1, <3>2
  <2>5. CASE x \notin G
    <3>1. U = G \ D
      BY <2>5 DEF U
    <3> QED BY <2>1, <2>2, <3>1
  <2> QED BY <2>3, <2>4, <2>5
<1> HIDE DEF B, h, U
<1>8. Pairs(h, B, F \cup {e})
  BY <1>3, <1>4, <1>5 DEF Pairs
<1> QED BY <1>3, <1>6, <1>7, <1>8 DEF Matched, U

(* A lost free costs the object it was matched with, if any.                 *)
LEMMA MatchedLess ==
  ASSUME NEW G, NEW F, NEW n \in Nat, Matched(G, F, n),
         NEW E, NEW S, F \subseteq E \cup S, IsFiniteSet(S), NEW k \in Nat, Cardinality(S) <= k
  PROVE  Matched(G, E, n + k)
<1>1. PICK D \in SUBSET G : /\ IsFiniteSet(G \ D) /\ Cardinality(G \ D) <= n
                            /\ \E m \in [D -> F] : Pairs(m, D, F)
  BY DEF Matched
<1>2. PICK m \in [D -> F] : Pairs(m, D, F)
  BY <1>1
<1> DEFINE B == {p \in D : m[p] \in E}
           L == {p \in D : m[p] \notin E}
           h == [p \in B |-> m[p]]
           l == [p \in L |-> m[p]]
<1>3. h \in [B -> E] /\ Pairs(h, B, E)
  BY <1>2 DEF Pairs
<1>4. l \in [L -> S] /\ \A p, q \in L : l[p] = l[q] => p = q
  BY <1>2 DEF Pairs
<1>5. B \in SUBSET G /\ G \ B = (G \ D) \cup L
  OBVIOUS
<1> HIDE DEF B, L, h, l
<1>6. l \in Injection(L, S)
  BY <1>4, Fun_IsInj
<1>7. IsFiniteSet(L) /\ Cardinality(L) <= Cardinality(S)
  BY <1>6, FS_Injection
<1>8. /\ Cardinality(L) \in Nat /\ Cardinality(S) \in Nat /\ Cardinality(G \ D) \in Nat
      /\ Cardinality((G \ D) \cap L) \in Nat
  BY <1>1, <1>7, FS_CardinalityType, FS_Intersection
<1>9. IsFiniteSet(G \ B) /\ Cardinality(G \ B) = Cardinality(G \ D) + Cardinality(L) - Cardinality((G \ D) \cap L)
  BY <1>1, <1>5, <1>7, FS_Union
<1>10. Cardinality(G \ B) <= n + k
  BY <1>1, <1>7, <1>8, <1>9
<1> QED BY <1>3, <1>5, <1>9, <1>10 DEF Matched

(* A batch holds no more frees than its length.                              *)
LEMMA EntriesCount ==
  ASSUME NEW s \in Seq(Entries)
  PROVE  IsFiniteSet(ToSet(s)) /\ Cardinality(ToSet(s)) <= Len(s)
<1>1. Len(s) \in Nat /\ DOMAIN s = 1..Len(s)
  OBVIOUS
<1>2. IsFiniteSet(1..Len(s)) /\ Cardinality(1..Len(s)) = Len(s)
  <2>1. 1 \in Int /\ Len(s) \in Int
    BY <1>1
  <2>2. IsFiniteSet(1..Len(s)) /\ Cardinality(1..Len(s)) = IF 1 > Len(s) THEN 0 ELSE Len(s) - 1 + 1
    BY <2>1, FS_Interval
  <2> QED BY <1>1, <2>2
<1> DEFINE f == [i \in 1..Len(s) |-> s[i]]
<1>3. f \in [1..Len(s) -> ToSet(s)] /\ \A e \in ToSet(s) : \E i \in 1..Len(s) : f[i] = e
  BY <1>1 DEF ToSet
<1> HIDE DEF f
<1>4. f \in Surjection(1..Len(s), ToSet(s))
  BY <1>3, Fun_IsSurj
<1>5. IsFiniteSet(ToSet(s)) /\ Cardinality(ToSet(s)) <= Cardinality(1..Len(s))
  BY <1>2, <1>4, FS_Surjection
<1> QED BY <1>2, <1>5

(* One record of an object.                                                  *)
LEMMA OneRecord ==
  ASSUME BookInv, NEW p \in Recorded, NEW q \in Recorded, p[1] = q[1], p[2].seq = q[2].seq
  PROVE  p = q
<1>1. book \in Books /\ Ascending(book) /\ Before(LiveOf(book), InRing)
  BY TypesAre DEF BookInv, Order
<1>2. p[2].seq \in Nat /\ q[2].seq \in Nat
  BY SeqsAre
<1>3. CASE p \in LiveOf(book) /\ q \in LiveOf(book)
  BY <1>1, <1>3, OneEach
<1>4. ASSUME p \in InRing, q \in InRing PROVE p = q
  <2>1. PICK i \in DOMAIN ring : Numbered(ring[i]) /\ p = RecordOf(ring[i])
    BY <1>4, InRingIs DEF InRing
  <2>2. PICK j \in DOMAIN ring : Numbered(ring[j]) /\ q = RecordOf(ring[j])
    BY <1>4, InRingIs DEF InRing
  <2>3. ring[i] \in AllocRecords /\ ring[j] \in AllocRecords
    BY <2>1, <2>2, RingOrderIs, Kinds DEF Numbered
  <2>4. /\ ring[i].addr = ring[j].addr /\ ring[i].seq = ring[j].seq /\ ring[i].seq \in Nat
        /\ ring[i].kind = "alloc" /\ ring[j].kind = "alloc" /\ ring[i].seq # 0
    BY <2>1, <2>2, <2>3, RecordIs, AllocFields DEF Numbered
  <2>5. ~(i < j) /\ ~(j < i)
    BY <2>4, RingOrderIs DEF RingOrder
  <2>6. i \in Nat /\ j \in Nat
    BY RingOrderIs
  <2>7. i = j
    BY <2>5, <2>6
  <2> QED BY <2>1, <2>2, <2>7
<1>5. ASSUME p \in LiveOf(book), q \in InRing PROVE FALSE
  BY <1>1, <1>2, <1>5 DEF Before
<1>6. ASSUME q \in LiveOf(book), p \in InRing PROVE FALSE
  BY <1>1, <1>2, <1>6 DEF Before
<1> QED BY <1>3, <1>4, <1>5, <1>6 DEF Recorded

Rest ==
  /\ Numbers' /\ FreesOlder' /\ KeptRecorded' /\ Accounted' /\ SiteTotalsBalance'
  /\ Ascending(book)' /\ Before(LiveOf(book), InRing)'

(* A calm step keeps the parts of the invariant beyond the shape of ring     *)
(* and heap.                                                                 *)
LEMMA CalmRest ==
  ASSUME BookInv, Calm PROVE Rest
BY QuietKeeps, CalmNumbers DEF Calm, Rest

(* So does the worker's step.                                                *)
LEMMA DrainRest ==
  ASSUME BookInv, Drain PROVE Rest
<1>1. Drained
  BY DrainIs
<1>2. FreesOlder'
  BY <1>1 DEF Drained, Drain, BookInv, FreesOlder
<1>3. Numbers'
  BY <1>1, NumbersBy DEF Drained, Drain
<1> QED BY <1>1, <1>2, <1>3 DEF Drained, Rest

(* So does stamping: the object it makes known is kept, and the frees under  *)
(* way are older.                                                            *)
LEMMA StampRest ==
  ASSUME BookInv, NEW t \in Callers, StampAlloc(t)
  PROVE  Rest
<1>1. PICK a : a = arg[t].addr
  OBVIOUS
<1>2. /\ Types /\ Slots /\ a \in Addrs /\ g_seq \in Nat /\ g_seq # 0 /\ spoiled \subseteq Nat
      /\ \A b \in Addrs : heap[b].seq \in Nat
  BY <1>1, TypesAre DEF BookInv
<1>3. PendingFrees' = PendingFrees /\ \E x : InRing' = InRing \cup {x} /\ x[1] = a /\ x[2].seq = g_seq
  BY <1>1, <1>2, StampViews
<1>4. PICK x : InRing' = InRing \cup {x} /\ x[1] = a /\ x[2].seq = g_seq
  BY <1>3
<1>5. /\ a \notin Kept /\ Kept' = Kept \cup {a} /\ heap'[a].seq = g_seq
      /\ \A b \in Kept : heap'[b].seq = heap[b].seq
  BY <1>1, StampKept
<1>6. \A b \in Addrs : b # a => heap'[b] = heap[b]
  BY <1>1, <1>2, SeqIs DEF StampAlloc
<1>7. /\ g_seq' = g_seq + 1 /\ spoiled' = spoiled /\ book' = book
      /\ lost_frees' = lost_frees /\ refused' = refused
  BY DEF StampAlloc, loss
<1>8. LiveOf(book)' = LiveOf(book) /\ Recorded' = Recorded \cup {x}
  BY <1>4, <1>7 DEF LiveOf, Recorded
<1>9. /\ \A p \in Recorded : p[2].seq # 0 /\ p[2].seq < g_seq /\ p[2].seq \in Nat
      /\ \A e \in PendingFrees : e.seq < g_seq /\ e.seq \in Nat
      /\ \A b \in Addrs : heap[b].seq < g_seq
      /\ \A b, c \in Addrs : heap[b].seq = heap[c].seq /\ heap[b].seq # 0 => b = c
      /\ \A s \in spoiled : s < g_seq
  BY SeqsAre DEF BookInv, Numbers
<1>10. Numbers'
  <2>1. \A b \in Addrs : heap'[b].seq < g_seq'
    BY <1>2, <1>5, <1>6, <1>7, <1>9
  <2>2. \A b, c \in Addrs : heap'[b].seq = heap'[c].seq /\ heap'[b].seq # 0 => b = c
    BY <1>2, <1>5, <1>6, <1>9
  <2>3. \A s \in spoiled' : s < g_seq'
    BY <1>2, <1>7, <1>9
  <2>4. \A p \in Recorded' : p[2].seq # 0 /\ p[2].seq < g_seq'
    BY <1>2, <1>4, <1>7, <1>8, <1>9
  <2>5. \A e \in PendingFrees' : e.seq < g_seq'
    BY <1>2, <1>3, <1>7, <1>9
  <2> QED BY <2>1, <2>2, <2>3, <2>4, <2>5 DEF Numbers
<1>11. FreesOlder'
  <2>1. \A e \in PendingFrees : e.addr \in Kept' => e.seq < heap'[e.addr].seq
    BY <1>5, <1>9 DEF BookInv, FreesOlder
  <2> QED BY <1>3, <2>1 DEF FreesOlder
<1>12. KeptRecorded'
  <2>1. \A b \in Kept' : \E p \in Recorded' : p[1] = b /\ p[2].seq = heap'[b].seq
    BY <1>4, <1>5, <1>8 DEF BookInv, KeptRecorded
  <2> QED BY <2>1 DEF KeptRecorded
<1>13. Gone' = Gone
  <2>1. \A p \in Recorded : OfKept(p)' <=> OfKept(p)
    BY <1>5, <1>9 DEF OfKept
  <2>2. OfKept(x)'
    BY <1>4, <1>5 DEF OfKept
  <2> QED BY <1>8, <2>1, <2>2 DEF Gone
<1>14. Accounted'
  BY <1>3, <1>7, <1>8, <1>13 DEF BookInv, Accounted, Matched, Pairs
<1>15. SiteTotalsBalance'
  BY <1>7, Balances DEF BookInv
<1>16. Ascending(book)'
  BY <1>7 DEF BookInv, Order, Ascending
<1>17. Before(LiveOf(book), InRing)'
  <2>1. Before(LiveOf(book), InRing)
    BY DEF BookInv, Order
  <2>2. \A p \in LiveOf(book) : p[2].seq < x[2].seq
    BY <1>4, <1>9 DEF Recorded
  <2> QED BY <1>4, <1>8, <2>1, <2>2 DEF Before
<1> QED BY <1>10, <1>11, <1>12, <1>14, <1>15, <1>16, <1>17 DEF Rest

(* So does queueing: the object goes, with a free of its own.                *)
LEMMA QueueRest ==
  ASSUME BookInv, NEW t \in Callers, QueueFree(t)
  PROVE  Rest
<1>1. PICK a : a = arg[t].addr
  OBVIOUS
<1>2. /\ Types /\ Slots /\ a \in Addrs /\ g_seq \in Nat /\ g_seq # 0 /\ spoiled \subseteq Nat
      /\ lost_frees \in Nat /\ \A b \in Addrs : heap[b].seq \in Nat
  BY <1>1, TypesAre DEF BookInv
<1>3. InRing' = InRing /\ \E e : PendingFrees' = PendingFrees \cup {e} /\ e.seq = g_seq /\ e.addr = a
  BY <1>1, <1>2, QueueViews
<1>4. PICK e : PendingFrees' = PendingFrees \cup {e} /\ e.seq = g_seq /\ e.addr = a
  BY <1>3
<1>5. Kept' = Kept \ {a} /\ heap' = heap
  BY <1>1, QueueKept
<1>6. /\ g_seq' = g_seq + 1 /\ spoiled' = spoiled /\ book' = book
      /\ lost_frees' = lost_frees /\ refused' = refused
  BY DEF QueueFree, loss
<1>7. LiveOf(book)' = LiveOf(book) /\ Recorded' = Recorded
  BY <1>3, <1>6 DEF LiveOf, Recorded
<1>8. /\ \A p \in Recorded : p[2].seq # 0 /\ p[2].seq < g_seq /\ p[2].seq \in Nat
      /\ \A f \in PendingFrees : f.seq < g_seq /\ f.seq \in Nat
      /\ \A b \in Addrs : heap[b].seq < g_seq
      /\ \A b, c \in Addrs : heap[b].seq = heap[c].seq /\ heap[b].seq # 0 => b = c
      /\ \A s \in spoiled : s < g_seq
  BY SeqsAre DEF BookInv, Numbers
<1>9. Numbers'
  <2>1. \A b \in Addrs : heap'[b].seq < g_seq'
    BY <1>2, <1>5, <1>6, <1>8
  <2>2. \A b, c \in Addrs : heap'[b].seq = heap'[c].seq /\ heap'[b].seq # 0 => b = c
    BY <1>5, <1>8
  <2>3. \A s \in spoiled' : s < g_seq'
    <3>1. spoiled' = spoiled /\ g_seq' = g_seq + 1 /\ g_seq \in Nat /\ \A s \in spoiled : s \in Nat
      BY <1>2, <1>6
    <3>2. \A s \in spoiled : s < g_seq
      BY <1>8
    <3> SUFFICES ASSUME NEW s \in spoiled' PROVE s < g_seq'
      OBVIOUS
    <3>3. s \in Nat /\ s < g_seq
      BY <3>1, <3>2
    <3> QED BY <3>1, <3>3
  <2>4. \A p \in Recorded' : p[2].seq # 0 /\ p[2].seq < g_seq'
    BY <1>2, <1>6, <1>7, <1>8
  <2>5. \A f \in PendingFrees' : f.seq < g_seq'
    BY <1>2, <1>4, <1>6, <1>8
  <2> QED BY <2>1, <2>2, <2>3, <2>4, <2>5 DEF Numbers
<1>10. FreesOlder'
  <2>1. \A f \in PendingFrees' : f.addr \in Kept' => f.seq < heap'[f.addr].seq
    BY <1>4, <1>5 DEF BookInv, FreesOlder
  <2> QED BY <2>1 DEF FreesOlder
<1>11. KeptRecorded'
  BY <1>5, <1>7 DEF BookInv, KeptRecorded
<1>12. Matched(Gone, PendingFrees, lost_frees) /\ IsFiniteSet(PendingFrees)
  BY DEF BookInv, Accounted
<1>13. \A p \in Recorded : OfKept(p)' <=> OfKept(p) /\ p[1] # a
  BY <1>5 DEF OfKept
<1>14. Matched(Gone', PendingFrees', lost_frees)
  <2>1. CASE a \in Kept
    <3>1. PICK x \in Recorded : x[1] = a /\ x[2].seq = heap[a].seq
      BY <2>1 DEF BookInv, KeptRecorded
    <3>2. \A p \in Recorded : OfKept(p) /\ p[1] = a => p = x
      BY <3>1, OneRecord DEF OfKept
    <3>3. ~OfKept(x)'
      BY <1>13, <3>1
    <3>4. Gone' = Gone \cup {x}
      BY <1>7, <1>13, <3>2, <3>3, <3>1 DEF Gone
    <3>5. e \notin PendingFrees /\ x[2].seq < e.seq /\ x[1] = e.addr
      BY <1>2, <1>4, <1>8, <3>1
    <3>6. Matched(Gone \cup {x}, PendingFrees \cup {e}, lost_frees)
      BY <1>2, <1>12, <3>5, MatchedPlus
    <3> QED BY <1>4, <3>4, <3>6
  <2>2. CASE a \notin Kept
    <3>1. Gone' = Gone
      BY <1>7, <1>13, <2>2 DEF Gone, OfKept
    <3>2. PendingFrees \subseteq PendingFrees'
      BY <1>4
    <3> QED BY <1>12, <3>1, <3>2, MatchedMore
  <2> QED BY <2>1, <2>2
<1>15. IsFiniteSet(PendingFrees')
  BY <1>4, <1>12, FS_AddElement
<1>16. Accounted'
  BY <1>6, <1>7, <1>14, <1>15 DEF BookInv, Accounted, Matched, Pairs
<1>17. SiteTotalsBalance'
  BY <1>6, Balances DEF BookInv
<1>18. Ascending(book)'
  BY <1>6 DEF BookInv, Order, Ascending
<1>19. Before(LiveOf(book), InRing)'
  BY <1>3, <1>7 DEF BookInv, Order, Before
<1> QED BY <1>9, <1>10, <1>11, <1>16, <1>17, <1>18, <1>19 DEF Rest

(* So does dropping a batch: each lost free costs one object at most, and    *)
(* lost_frees counts it.                                                     *)
LEMMA DropRest ==
  ASSUME BookInv, NEW t \in Callers, DropFrees(t)
  PROVE  Rest
<1>1. /\ Types /\ batch[t] \in Seq(Entries) /\ Len(batch[t]) \in Nat /\ lost_frees \in Nat /\ refused \in Nat
      /\ pc \in [Callers -> Lines]
  BY TypesAre DEF BookInv
<1>2. /\ InRing' = InRing /\ PendingFrees' \subseteq PendingFrees
      /\ PendingFrees \subseteq PendingFrees' \cup ToSet(batch[t])
  BY <1>1, DropViews
<1>3. /\ pc[t] \in Queued /\ pc'[t] \in Queued /\ \A u \in Callers : u # t => pc'[u] = pc[u]
      /\ arg' = arg /\ heap' = heap /\ spoiled' = spoiled /\ g_seq' = g_seq /\ book' = book
      /\ refused' = refused + 1 /\ lost_frees' = lost_frees + Len(batch[t])
  BY <1>1 DEF DropFrees, Goto, Queued
<1>4. Kept' = Kept /\ \A b \in Kept : heap'[b].seq = heap[b].seq
  BY <1>3, KeptThrough
<1>5. LiveOf(book)' = LiveOf(book) /\ Recorded' = Recorded
  BY <1>2, <1>3 DEF LiveOf, Recorded
<1>6. Numbers'
  BY <1>2, <1>3, <1>5, NumbersBy
<1>7. FreesOlder'
  BY <1>2, <1>3, <1>4 DEF BookInv, FreesOlder
<1>8. KeptRecorded'
  BY <1>3, <1>4, <1>5 DEF BookInv, KeptRecorded
<1>9. Gone' = Gone
  BY <1>3, <1>4, <1>5 DEF Gone, OfKept
<1>10. Matched(Gone, PendingFrees, lost_frees) /\ IsFiniteSet(PendingFrees)
  BY DEF BookInv, Accounted
<1>11. Matched(Gone, PendingFrees', lost_frees + Len(batch[t]))
  BY <1>1, <1>2, <1>10, EntriesCount, MatchedLess
<1>12. IsFiniteSet(PendingFrees')
  BY <1>2, <1>10, FS_Subset
<1>13. refused' # 0
  BY <1>1, <1>3
<1>14. Accounted'
  BY <1>3, <1>5, <1>9, <1>11, <1>12, <1>13 DEF BookInv, Accounted, Matched, Pairs
<1>15. SiteTotalsBalance'
  BY <1>3, Balances DEF BookInv
<1>16. Ascending(book)'
  BY <1>3 DEF BookInv, Order, Ascending
<1>17. Before(LiveOf(book), InRing)'
  BY <1>2, <1>5 DEF BookInv, Order, Before
<1> QED BY <1>6, <1>7, <1>8, <1>14, <1>15, <1>16, <1>17 DEF Rest

------------------------------------------------------------------------------
(* The invariant.                                                           *)

(* The parts of the invariant, put together.                                 *)
LEMMA Together ==
  ASSUME Types', Serving', Slots', RingOrder', Rest
  PROVE  BookInv'
BY DEF Rest, BookInv, Order

(* Every step of a thread in the shim keeps the invariant.                   *)
LEMMA ThreadKeeps ==
  ASSUME BookInv, NEW t \in Callers, ThreadStep(t)
  PROVE  BookInv'
<1>1. ASSUME NEW a \in Addrs,
             \/ AllocUnsampled(t, a)
             \/ \E size \in SampleSizes, site \in Sites : AllocSampled(t, a, size, site)
             \/ \E o \in {"free", "realloc"} : CallFree(t, a, o)
      PROVE  BookInv'
  <2>1. ring' = ring
    BY <1>1 DEF AllocUnsampled, AllocSampled, CallFree
  <2>2. Rest
    BY <1>1, CalmAllocs, CalmRest
  <2>3. Types' /\ Serving' /\ Slots'
    BY <1>1, AllocTypes, AllocServing, RestSlots
  <2> QED BY <2>1, <2>2, <2>3, SameOrder, Together
<1>2. CASE ReserveAlloc(t)
  BY <1>2, RecordTypes, RecordServing, ReserveSlots, ReserveOrder, CalmRecords, CalmRest, Together
<1>3. CASE DropAlloc(t)
  <2>1. ring' = ring
    BY <1>3 DEF DropAlloc
  <2>2. Slots' /\ Types' /\ Serving'
    BY <1>3, TrackAssumption, RecordTypes, RecordServing, RestSlots
  <2> QED BY <1>3, <2>1, <2>2, SameOrder, CalmRecords, CalmRest, Together
<1>4. CASE StampAlloc(t)
  BY <1>4, RecordTypes, RecordServing, StampSlots, StampOrder, StampRest, Together
<1>5. CASE PublishAlloc(t)
  BY <1>5, RecordTypes, RecordServing, PublishSlots, PublishOrder, CalmRecords, CalmRest, Together
<1>6. CASE QueueFree(t)
  <2>1. ring' = ring
    BY <1>6 DEF QueueFree
  <2>2. Slots' /\ Types' /\ Serving'
    BY <1>6, TrackAssumption, FreeTypes, FreeServing, RestSlots
  <2> QED BY <1>6, <2>1, <2>2, SameOrder, QueueRest, Together
<1>7. CASE ReserveFrees(t)
  BY <1>7, FreeTypes, FreeServing, ReserveSlots, ReserveOrder, CalmRecords, CalmRest, Together
<1>8. CASE DropFrees(t)
  <2>1. ring' = ring
    BY <1>8 DEF DropFrees
  <2>2. Slots' /\ Types' /\ Serving'
    BY <1>8, TrackAssumption, FreeTypes, FreeServing, RestSlots
  <2> QED BY <1>8, <2>1, <2>2, SameOrder, DropRest, Together
<1>9. CASE PublishFrees(t)
  BY <1>9, FreeTypes, FreeServing, PublishSlots, PublishOrder, CalmRecords, CalmRest, Together
<1>10. CASE RealFree(t)
  <2>1. ring' = ring
    BY <1>10 DEF RealFree
  <2>2. Slots' /\ Types' /\ Serving'
    BY <1>10, TrackAssumption, FinishTypes, FinishServing, RestSlots
  <2> QED BY <1>10, <2>1, <2>2, SameOrder, CalmFinish, CalmRest, Together
<1>11. CASE FailedRealloc(t)
  <2>1. ring' = ring
    BY <1>11 DEF FailedRealloc
  <2>2. Slots' /\ Types' /\ Serving'
    BY <1>11, TrackAssumption, FinishTypes, FinishServing, RestSlots
  <2> QED BY <1>11, <2>1, <2>2, SameOrder, CalmFinish, CalmRest, Together
<1>12. ASSUME NEW b \in Addrs, NEW sampled \in BOOLEAN, NEW size \in SampleSizes, NEW site \in Sites,
              RealRealloc(t, b, sampled, size, site)
       PROVE  BookInv'
  <2>1. ring' = ring
    BY <1>12 DEF RealRealloc
  <2>2. Slots' /\ Types' /\ Serving'
    BY <1>12, FinishTypes, FinishServing, RestSlots
  <2> QED BY <1>12, <2>1, <2>2, SameOrder, CalmFinish, CalmRest, Together
<1> QED BY <1>1, <1>2, <1>3, <1>4, <1>5, <1>6, <1>7, <1>8, <1>9, <1>10, <1>11, <1>12 DEF ThreadStep

(* The worker does not touch the calls.                                      *)
LEMMA DrainServing ==
  ASSUME BookInv, UNCHANGED <<heap, pc, arg>>
  PROVE  Serving'
BY DEF BookInv, Serving

(* The worker's step keeps the invariant.                                    *)
LEMMA DrainKeeps ==
  ASSUME BookInv, Drain PROVE BookInv'
<1>1. Serving'
  BY DrainServing DEF Drain
<1> QED BY <1>1, DrainTypes, DrainSlots, DrainOrder, DrainRest, Together

(* A step that changes nothing keeps the invariant.                          *)
LEMMA StutterKeeps ==
  ASSUME BookInv, UNCHANGED trackVars PROVE BookInv'
<1>1. UNCHANGED <<heap, allocs, g_seq, pc, op, arg, batch, ring, refused, lost_frees, spoiled, book>>
  BY DEF trackVars, loss
<1>2. Types
  BY DEF BookInv
<1>3. \A u \in Callers :
         /\ Len(batch'[u]) <= FREE_BATCH_CAP
         /\ pc'[u] \notin {"flush", "publish_frees"} => Len(batch'[u]) < FREE_BATCH_CAP
         /\ pc'[u] \in Coming => arg'[u].size \in SampleSizes
  BY <1>1, <1>2, TypesAre DEF Types
<1>4. Types'
  BY <1>1, <1>2, <1>3, TypesAre, TypesFrom
<1>5. Serving'
  BY <1>1, DrainServing
<1>6. \A i \in DOMAIN ring : Reserved(i)' <=> Reserved(i)
  BY <1>1 DEF Reserved
<1>7. Slots'
  BY <1>1, <1>6 DEF BookInv, Slots
<1>8. RingOrder'
  BY <1>1, SameOrder
<1>9. Kept' = Kept
  BY <1>1, KeptSame
<1>10. Calm
  BY <1>1, <1>9, RingSame, PendingSame DEF Calm, Quiet
<1> QED BY <1>4, <1>5, <1>7, <1>8, <1>10, CalmRest, Together

(* The book HeapCapture starts with is typed, balanced and empty.            *)
LEMMA EmptyIs ==
  EmptyBook \in Books /\ LiveOf(EmptyBook) = {} /\ Balanced(EmptyBook) /\ Ascending(EmptyBook)
<1>1. EmptyBook \in Books
  <2>1. [allocated |-> 0, freed |-> 0, alloc_count |-> 0, free_count |-> 0] \in Totals
    BY DEF Totals
  <2>2. <<>> \in Seq(LiveEntries)
    OBVIOUS
  <2> QED BY <2>1, <2>2 DEF EmptyBook, Books
<1>2. \A a \in Addrs : EmptyBook.live[a] = <<>>
  BY DEF EmptyBook
<1>3. LiveOf(EmptyBook) = {}
  BY <1>2, NoneIn DEF LiveOf
<1>4. Ascending(EmptyBook)
  BY <1>2 DEF Ascending
<1>5. \A s \in Sites : OwnOf(EmptyBook, s) = {}
  BY <1>3 DEF OwnOf
<1>6. \A s \in Sites : EmptyBook.sites[s] = [allocated |-> 0, freed |-> 0, alloc_count |-> 0, free_count |-> 0]
  BY DEF EmptyBook
<1>7. Balanced(EmptyBook)
  BY <1>5, <1>6, SizeNone, FS_EmptySet DEF Balanced
<1> QED BY <1>1, <1>3, <1>4, <1>7

(* The session as it starts satisfies the invariant.                         *)
LEMMA StartsWell ==
  ASSUME TrackInit PROVE BookInv
<1>1. /\ ring = << >> /\ DOMAIN ring = {} /\ book = EmptyBook /\ lost_frees = 0 /\ refused = 0
      /\ g_seq = 1 /\ spoiled = {} /\ allocs = 0
      /\ \A t \in Callers : pc[t] = "idle" /\ arg[t] = NoArg /\ batch[t] = << >> /\ Len(batch[t]) = 0
      /\ \A a \in Addrs : heap[a].st = "free" /\ heap[a].seq = 0
  BY DEF TrackInit
<1>2. Types
  <2>1. book.live \in [Addrs -> Seq([seq : Nat, size : SampleSizes, site : Sites])] /\ book \in Books
    BY <1>1, EmptyIs DEF Books, LiveEntries
  <2>2. TypeOK
    <3>1. \A t \in Callers : Len(batch[t]) <= FREE_BATCH_CAP
      BY <1>1, TrackAssumption
    <3>2. Len(ring) <= RingCap
      BY <1>1, TrackAssumption
    <3>3. heap \in [Addrs -> [st : {"free", "coming", "held", "leaving"}, seq : Nat]]
      BY DEF TrackInit
    <3>4. /\ pc \in [Callers -> {"idle", "reserve", "stamp", "publish", "queue", "flush",
                                "publish_frees", "finish"}]
          /\ op \in [Callers -> {"none", "free", "realloc"}]
      BY DEF TrackInit
    <3>5. /\ allocs \in 0..MaxAllocs /\ g_seq \in Nat \ {0}
          /\ refused \in Nat /\ lost_frees \in Nat /\ spoiled \subseteq Nat
      BY <1>1, TrackAssumption
    <3> QED BY <2>1, <3>1, <3>2, <3>3, <3>4, <3>5 DEF TypeOK
  <2>3. arg \in [Callers -> Args] /\ batch \in [Callers -> Seq(Entries)] /\ ring \in Seq(Records)
    BY NoArgTyped DEF TrackInit
  <2>4. \A t \in Callers : Len(batch[t]) < FREE_BATCH_CAP /\ pc[t] \notin Coming
    BY <1>1, TrackAssumption DEF Coming
  <2> QED BY <2>1, <2>2, <2>3, <2>4 DEF Types
<1>3. Serving
  BY <1>1 DEF Serving, Coming, Leaving
<1>4. Slots
  BY <1>1 DEF Slots
<1>5. InRing = {} /\ LiveOf(book) = {} /\ Recorded = {}
  BY <1>1, EmptyIs DEF InRing, InRingOf, Recorded
<1>6. PendingFrees = {}
  <2>1. \A e : ~IsFree(batch, ring, e)
    BY <1>1, NoneIn DEF IsFree
  <2> QED BY <2>1, PendingIs, FreesInIs
<1>7. Numbers
  BY <1>1, <1>5, <1>6 DEF Numbers
<1>8. Order
  BY <1>1, <1>5, EmptyIs DEF Order, Before, RingOrder
<1>9. Kept = {}
  BY <1>1 DEF Kept
<1>10. FreesOlder /\ KeptRecorded
  BY <1>6, <1>9 DEF FreesOlder, KeptRecorded
<1>11. Gone = {}
  BY <1>5 DEF Gone
<1>12. Matched({}, {}, 0)
  <2> DEFINE m == [p \in {} |-> p]
  <2>1. m \in [{} -> {}] /\ Pairs(m, {}, {})
    BY DEF Pairs
  <2>2. IsFiniteSet({} \ {}) /\ Cardinality({} \ {}) <= 0
    BY FS_EmptySet
  <2> HIDE DEF m
  <2> QED BY <2>1, <2>2 DEF Matched
<1>13. Accounted
  BY <1>1, <1>5, <1>6, <1>11, <1>12, FS_EmptySet DEF Accounted
<1>14. SiteTotalsBalance
  BY <1>1, EmptyIs, Balances
<1> QED BY <1>2, <1>3, <1>4, <1>7, <1>8, <1>10, <1>13, <1>14 DEF BookInv

------------------------------------------------------------------------------
(* What the invariant says of the book.                                     *)

(* An object the program holds is kept, unless its number is spoiled.        *)
LEMMA HeldKept ==
  ASSUME BookInv, NEW a \in Addrs, heap[a].st = "held", heap[a].seq \notin {0} \cup spoiled
  PROVE  a \in Kept
<1>1. ~Giver(a)
  BY ServingIs DEF BookInv, Serving, Giver, Queued, Leaving
<1> QED BY <1>1, KeptIs

(* The numbers live at an address are those of its list.                     *)
LEMMA LiveSeqsAre ==
  \A a, n : n \in LiveSeqs(a) <=> \E i \in DOMAIN book.live[a] : n = book.live[a][i].seq
BY DEF LiveSeqs, SeqsIn

(* The invariant says that what the program holds is live in the book or on  *)
(* its way there.                                                            *)
LEMMA HeldIs == ASSUME BookInv PROVE HeldStaysLive
<1> SUFFICES ASSUME NEW a \in Addrs, heap[a].st = "held", heap[a].seq \notin {0} \cup spoiled
             PROVE  InBookOrRing(a)
  BY DEF HeldStaysLive
<1>1. PICK p \in Recorded : p[1] = a /\ p[2].seq = heap[a].seq
  BY HeldKept DEF BookInv, KeptRecorded
<1>2. CASE p \in LiveOf(book)
  <2>1. PICK b \in Addrs : \E i \in DOMAIN book.live[b] : p = <<b, book.live[b][i]>>
    BY <1>2, LiveIs
  <2>2. PICK i \in DOMAIN book.live[b] : p = <<b, book.live[b][i]>>
    BY <2>1
  <2>3. b = a /\ heap[a].seq = book.live[a][i].seq
    BY <1>1, <2>2
  <2> QED BY <2>2, <2>3, LiveSeqsAre DEF InBookOrRing
<1>3. CASE p \in InRing
  <2>1. PICK i \in DOMAIN ring : Numbered(ring[i]) /\ p = RecordOf(ring[i])
    BY <1>3, InRingIs DEF InRing
  <2>2. ring[i] \in AllocRecords /\ ring[i].kind = "alloc" /\ ring[i].seq # 0 /\ ring[i].owner \in Callers
    BY <2>1, RingOrderIs, Kinds DEF Numbered
  <2>3. ring[i].addr = a /\ ring[i].seq = heap[a].seq
    BY <1>1, <2>1, <2>2, RecordIs
  <2>4. ASSUME ~ring[i].pub PROVE FALSE
    <3>1. Reserved(i)
      BY <2>4 DEF BookInv, Slots
    <3>2. pc[ring[i].owner] = "publish" /\ arg[ring[i].owner].addr = a
      BY <2>2, <2>3, <3>1 DEF Reserved
    <3> QED BY <2>2, <3>2 DEF BookInv, Serving, Coming
  <2> QED BY <2>2, <2>3, <2>4 DEF InBookOrRing
<1> QED BY <1>2, <1>3 DEF Recorded

(* The invariant says that the drained book shows exactly what the program   *)
(* holds, while no record was refused.                                       *)
LEMMA ExactIs == ASSUME BookInv PROVE BookExact
<1> SUFFICES ASSUME Quiescent, refused = 0, NEW a \in Addrs
             PROVE  LiveSeqs(a) = IF heap[a].st = "held" THEN {heap[a].seq} \ ({0} \cup spoiled) ELSE {}
  BY DEF BookExact
<1>1. /\ ring = << >> /\ DOMAIN ring = {} /\ lost_frees = 0
      /\ \A t \in Callers : pc[t] = "idle" /\ batch[t] = << >>
  BY DEF Quiescent, BookInv, Accounted
<1>2. InRing = {} /\ Recorded = LiveOf(book)
  BY <1>1 DEF InRing, InRingOf, Recorded
<1>3. PendingFrees = {}
  <2>1. \A e : ~IsFree(batch, ring, e)
    BY <1>1, NoneIn DEF IsFree
  <2> QED BY <2>1, PendingIs, FreesInIs
<1>4. Gone = {}
  <2>1. PICK D \in SUBSET Gone : /\ IsFiniteSet(Gone \ D) /\ Cardinality(Gone \ D) <= 0
                                 /\ \E m \in [D -> {}] : Pairs(m, D, {})
    BY <1>1, <1>3 DEF BookInv, Accounted, Matched
  <2>2. D = {}
    BY <2>1
  <2>3. IsFiniteSet(Gone) /\ Cardinality(Gone) <= 0
    <3>1. Gone \ D = Gone
      BY <2>2
    <3> QED BY <2>1, <3>1
  <2>4. Cardinality(Gone) = 0
    BY <2>3, FS_CardinalityType
  <2> QED BY <2>3, <2>4, FS_EmptySet
<1>5. \A p \in LiveOf(book) : OfKept(p)
  BY <1>2, <1>4 DEF Gone
<1>6. ASSUME NEW n \in LiveSeqs(a)
      PROVE  a \in Kept /\ n = heap[a].seq
  <2>1. PICK i \in DOMAIN book.live[a] : n = book.live[a][i].seq
    BY LiveSeqsAre
  <2> DEFINE p == <<a, book.live[a][i]>>
  <2>2. p \in LiveOf(book)
    BY LiveIs
  <2>3. p[1] = a /\ p[2].seq = n
    BY <2>1
  <2> HIDE DEF p
  <2> QED BY <1>5, <2>2, <2>3 DEF OfKept
<1>7. a \in Kept => heap[a].st = "held" /\ heap[a].seq \notin {0} \cup spoiled
  <2>1. heap[a].st \in {"free", "coming", "held", "leaving"}
    BY TypesAre DEF BookInv
  <2>2. heap[a].st \notin {"coming", "leaving"}
    BY <1>1, ServingIs
  <2> QED BY <2>1, <2>2, ServingIs, KeptIs
<1>8. ASSUME heap[a].st = "held", heap[a].seq \notin {0} \cup spoiled
      PROVE  heap[a].seq \in LiveSeqs(a)
  <2>1. InBookOrRing(a)
    BY <1>8, HeldIs DEF HeldStaysLive
  <2> QED BY <1>1, <2>1 DEF InBookOrRing
<1> QED BY <1>6, <1>7, <1>8

(* The invariant bounds what the drained book shows in excess by the frees   *)
(* that were lost.                                                           *)
LEMMA OvercountIs == ASSUME BookInv PROVE OvercountBounded
<1>1. Overcounted \subseteq Gone /\ Overcounted \subseteq LiveOf(book)
  BY DEF Overcounted, Live, LiveOf, Gone, Recorded, OfKept
<1>2. /\ IsFiniteSet(LiveOf(book)) /\ IsFiniteSet(PendingFrees) /\ Matched(Gone, PendingFrees, lost_frees)
      /\ lost_frees \in Nat
  BY TypesAre DEF BookInv, Accounted
<1>3. PICK D \in SUBSET Gone : /\ IsFiniteSet(Gone \ D) /\ Cardinality(Gone \ D) <= lost_frees
                               /\ \E m \in [D -> PendingFrees] : Pairs(m, D, PendingFrees)
  BY <1>2 DEF Matched
<1>4. PICK m \in [D -> PendingFrees] : Pairs(m, D, PendingFrees)
  BY <1>3
<1> DEFINE A == Overcounted \cap D
           B == Overcounted \ D
           h == [p \in A |-> m[p]]
<1>5. h \in [A -> PendingFrees] /\ \A p, q \in A : h[p] = h[q] => p = q
  BY <1>4 DEF Pairs
<1>6. Overcounted = A \cup B /\ A \cap B = {} /\ B \in SUBSET (Gone \ D)
  BY <1>1
<1> HIDE DEF A, B, h
<1>7. h \in Injection(A, PendingFrees)
  BY <1>5, Fun_IsInj
<1>8. IsFiniteSet(A) /\ Cardinality(A) <= Cardinality(PendingFrees) /\ Cardinality(A) \in Nat
  BY <1>2, <1>7, FS_Injection, FS_CardinalityType
<1>9. IsFiniteSet(B) /\ Cardinality(B) <= Cardinality(Gone \ D) /\ Cardinality(B) \in Nat
  BY <1>3, <1>6, FS_Subset, FS_CardinalityType
<1>10. Cardinality(Overcounted) = Cardinality(A) + Cardinality(B)
  <2>1. Cardinality(A \cup B) = Cardinality(A) + Cardinality(B) - Cardinality(A \cap B)
    BY <1>8, <1>9, FS_Union
  <2>2. Cardinality(A \cap B) = 0
    BY <1>6, FS_EmptySet
  <2> QED BY <1>6, <1>8, <1>9, <2>1, <2>2
<1>11. Cardinality(PendingFrees) \in Nat /\ Cardinality(Gone \ D) \in Nat
  BY <1>2, <1>3, FS_CardinalityType
<1> QED BY <1>2, <1>3, <1>8, <1>9, <1>10, <1>11 DEF OvercountBounded

(* The invariant of a tracking session, for any addresses, threads, sites,   *)
(* sizes, batch capacity and ring capacity: every object the book shows or   *)
(* will show beyond the kept ones has a later free of its own under way,     *)
(* except as many as frees were lost with a full ring (shim.rs,              *)
(* flush_frees; macos_heap_capture.rs, process_record).                      *)
THEOREM BookInvariant == TrackSpec => []BookInv
<1>1. TrackInit => BookInv
  BY StartsWell
<1>2. BookInv /\ [TrackNext]_trackVars => BookInv'
  BY ThreadKeeps, DrainKeeps, StutterKeeps DEF TrackNext
<1> QED BY <1>1, <1>2, PTL DEF TrackSpec

(* Whatever the order in which the threads' records and batches reach the    *)
(* worker: an object the program holds is in the book or on its way, a book  *)
(* that has heard everything is exact while the ring refused nothing, it     *)
(* shows at no moment more objects too many than frees are under way or      *)
(* lost, and every site's totals balance (shim.rs, emit_alloc_record,        *)
(* queue_free and flush_frees; macos_heap_capture.rs, apply_alloc and        *)
(* apply_free).                                                              *)
THEOREM BookCorrect == TrackSpec => []BookFaithful
<1>1. ASSUME BookInv PROVE BookFaithful
  <2>1. TypeOK /\ ListsAscending /\ SiteTotalsBalance
    BY <1>1 DEF BookInv, Types, Order, Ascending, ListsAscending
  <2> QED BY <1>1, <2>1, HeldIs, ExactIs, OvercountIs DEF BookFaithful
<1> QED BY <1>1, BookInvariant, PTL
=============================================================================
