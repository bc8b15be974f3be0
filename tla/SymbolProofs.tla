---------------------------- MODULE SymbolProofs ----------------------------
(***************************************************************************)
(* Proofs about UnwindTables and Symbolize: no reload of the unwind tables  *)
(* is lost, however pings, loads and the target's changes interleave; and   *)
(* what the symbolization pass says of an address is of the binary that was *)
(* sampled there, whatever is rebuilt while it runs.                        *)
(***************************************************************************)
EXTENDS UnwindTables, Symbolize, FiniteSetTheorems, WellFoundedInduction, TLAPS

------------------------------------------------------------------------------
(* The invariant of the loader.                                             *)

Mapped(i) == at[i] # Unmapped
Stable(i) == Img[i].path \notin swapped

(* At a path whose file was never replaced only that file is mapped; what is *)
(* due is mapped.                                                            *)
TargetOK ==
  /\ at \in [Images -> Nat \cup {Unmapped}] /\ swapped \subseteq PathsOf /\ gone \in BOOLEAN
  /\ file \in [PathsOf -> Files]
  /\ \A i \in Files : Mapped(i) /\ Stable(i) => file[Img[i].path] = i
  /\ due \subseteq {i \in Files : Mapped(i)}
  /\ gone => due = {}

(* A load under way has tried what was due, or has it in hand - unless a     *)
(* ping is queued, which will bring another load.                            *)
InHand(i) == \E m \in ld.todo : m.base = at[i]
Tried(i) == at[i] \in tables.loaded
LoadCovers ==
  /\ pings \in [queued : Nat, sent : Nat, open : BOOLEAN]
  /\ DOMAIN ld = {"pc", "todo", "pages", "blocks"}
  /\ DOMAIN tables = {"rows", "pages", "lpm", "loaded"}
  /\ ld.pc \in {"idle", "parse", "load", "install", "exited"}
  /\ ld.pc = "exited" => ~pings.open
  /\ pings.queued = 0 /\ ld.pc \in {"load", "install"} =>
       \A i \in due : Tried(i) \/ InHand(i) \/ ~Stable(i)
LoadInv == TargetOK /\ LoadCovers /\ TablesArrive

------------------------------------------------------------------------------
(* Reading the target's mappings.                                           *)

(* The lines of a path that one image alone has are that image's, and the    *)
(* least of them starts at its base.                                         *)
LEMMA BaseFound ==
  ASSUME TargetOK, NEW i \in Files, Mapped(i), Stable(i)
  PROVE  \E m \in by_module(parse_text(Lines(at))) : m.base = at[i]
<1> DEFINE kept == {l \in Lines(at) : parse_line(l)}
           p == Img[i].path
           starts == {l.start : l \in {m \in kept : m.path = p}}
           code == [start |-> at[i] + Img[i].hdr, end |-> at[i] + Img[i].span, exec |-> TRUE,
                    img |-> i, path |-> p, kind |-> Img[i].kind]
<1>1. i \in Images /\ at[i] \in Nat /\ Img[i].hdr \in Nat /\ Img[i].span \in Nat
      /\ Img[i].kind \in {"dyn", "exec", "go"}
  BY UnwindAssumption DEF TargetOK, Files, Mapped
<1>2. \A l \in kept : l.path = p => l \in LinesOf(i, at[i])
  <2> TAKE l \in kept
  <2> HAVE l.path = p
  <2>1. PICK j \in Images : at[j] # Unmapped /\ l \in LinesOf(j, at[j])
    BY DEF Lines
  <2>2. l.path = Img[j].path /\ l.kind = Img[j].kind
    BY <2>1 DEF LinesOf
  <2>3. j \in Files
    BY <2>2 DEF Files, parse_line
  <2>4. j = i
    BY <2>1, <2>2, <2>3 DEF TargetOK, Mapped, Stable
  <2> QED BY <2>1, <2>4
<1>3. code \in LinesOf(i, at[i])
  BY DEF LinesOf
<1>4. code \in kept
  BY <1>1, <1>3 DEF Lines, Mapped, parse_line
<1>5. at[i] \in starts /\ \A s \in starts : at[i] <= s /\ s \in Nat
  <2>1. \A l \in LinesOf(i, at[i]) : l.start \in {at[i] + 0, at[i] + Img[i].hdr}
    BY DEF LinesOf
  <2>2. \A s \in starts : s \in {at[i] + 0, at[i] + Img[i].hdr}
    BY <1>2, <2>1
  <2>3. at[i] \in starts
    <3>1. CASE Img[i].hdr = 0
      <4>1. code.start = at[i] /\ code.path = p
        BY <1>1, <3>1
      <4> QED BY <1>4, <4>1
    <3>2. CASE Img[i].hdr > 0
      <4> DEFINE head == [start |-> at[i] + 0, end |-> at[i] + Img[i].hdr, exec |-> FALSE,
                          img |-> i, path |-> p, kind |-> Img[i].kind]
      <4>1. head \in LinesOf(i, at[i])
        BY <3>2 DEF LinesOf
      <4>2. head \in kept
        BY <1>1, <4>1 DEF Lines, Mapped, parse_line
      <4>3. head.start = at[i] /\ head.path = p
        BY <1>1
      <4> QED BY <4>2, <4>3
    <3> QED BY <1>1, <3>1, <3>2
  <2> QED BY <1>1, <2>2, <2>3
<1>6. base_of(kept, p) = at[i]
  <2> HIDE DEF kept, p, starts, code
  <2>1. base_of(kept, p) = CHOOSE s \in starts : \A t \in starts : s <= t
    BY DEF base_of, starts
  <2> DEFINE b == CHOOSE s \in starts : \A t \in starts : s <= t
  <2>2. b \in starts /\ \A t \in starts : b <= t
    BY <1>5
  <2> HIDE DEF b
  <2>3. b = at[i]
    BY <1>1, <1>5, <2>2
  <2> QED BY <2>1, <2>3 DEF b
<1>7. \E r \in parse_text(Lines(at)) : r.base = at[i]
  <2> DEFINE r == [start |-> code.start, end |-> code.end, path |-> code.path,
                   base |-> base_of(kept, code.path)]
  <2>1. code.exec /\ code.path = p
    OBVIOUS
  <2>2. r \in parse_text(Lines(at))
    BY <1>4, <2>1 DEF parse_text
  <2>3. r.base = at[i]
    BY <1>6, <2>1
  <2> QED BY <2>2, <2>3
<1> HIDE DEF kept, p, starts, code
<1> DEFINE maps == parse_text(Lines(at))
           m == [base |-> at[i], path |-> (CHOOSE r \in maps : r.base = at[i]).path,
                 segs |-> Ascending({r \in maps : r.base = at[i]})]
<1>8. at[i] \in {r.base : r \in maps}
  BY <1>7
<1>9. m \in by_module(maps)
  <2> HIDE DEF maps
  <2> QED BY <1>8, Zenon DEF by_module
<1>10. m.base = at[i]
  OBVIOUS
<1> HIDE DEF m
<1> QED BY <1>9, <1>10

------------------------------------------------------------------------------
(* Every step.                                                              *)

(* A set of numbers has a least one.                                         *)
LEMMA Least ==
  ASSUME NEW T, T \subseteq Nat, T # {}
  PROVE  \E x \in T : \A y \in T : x <= y
<1>1. PICK x \in T : \A y \in T : ~(<<y, x>> \in OpToRel(<, Nat))
  BY NatLessThanWellFounded, WFMin, Zenon
<1>2. \A y \in T : ~(y < x)
  BY <1>1, Zenon DEF OpToRel
<1>3. \A y \in T : x <= y
  BY <1>2
<1> QED BY <1>3

(* Of two numbers, neither less than the other.                              *)
LEMMA NotLess == \A a, b \in Nat : a <= b /\ ~(a < b) => a = b
OBVIOUS

(* The first load is made unasked.                                           *)
LEMMA LoadStart == UwInit => LoadInv
<1> SUFFICES ASSUME UwInit PROVE LoadInv
  OBVIOUS
<1> USE DEF UwInit
<1>1. at \in [Images -> Nat \cup {Unmapped}]
  BY UnwindAssumption
<1>2. \A p \in PathsOf : /\ file[p] \in Files /\ Img[file[p]].path = p
                         /\ \A j \in Files : Img[j].path = p => file[p] <= j
  <2> TAKE p \in PathsOf
  <2> DEFINE S == {i \in Files : Img[i].path = p}
  <2>1. S # {} /\ S \subseteq Nat
    BY UnwindAssumption DEF PathsOf, Files
  <2>2. \E i \in S : \A j \in S : i <= j
    <3> HIDE DEF S
    <3> QED BY <2>1, Least
  <2> DEFINE Q(i) == Img[i].path = p /\ \A j \in Files : Img[j].path = p => i <= j
             c == CHOOSE i \in Files : Q(i)
  <2>3. \E i \in Files : Q(i)
    BY <2>2
  <2>4. c \in Files /\ Q(c)
    BY <2>3
  <2>5. file[p] = c
    OBVIOUS
  <2> HIDE DEF c
  <2> QED BY <2>4, <2>5
<1>3. file \in [PathsOf -> Files]
  BY <1>2
<1>4. ASSUME NEW i \in Files, Mapped(i) PROVE file[Img[i].path] = i
  <2> DEFINE j == file[Img[i].path]
  <2>1. Img[i].path \in PathsOf
    BY DEF PathsOf
  <2>2. j \in Files /\ Img[j].path = Img[i].path /\ j <= i
    BY <1>2, <2>1
  <2>3. i \in Nat /\ j \in Nat
    BY <2>2, UnwindAssumption DEF Files
  <2> HIDE DEF j
  <2>4. ~(j < i)
    BY <1>4, <2>2 DEF Mapped
  <2>5. j = i
    BY <2>2, <2>3, <2>4, NotLess, Zenon
  <2> QED BY <2>5 DEF j
<1>5. TargetOK
  BY <1>1, <1>3, <1>4 DEF TargetOK, Mapped
<1>6. LoadCovers /\ TablesArrive
  BY DEF LoadCovers, TablesArrive, Idle, NoTables
<1> QED BY <1>5, <1>6 DEF LoadInv

(* What the target does makes nothing due that was not tried.                *)
LEMMA TargetStep ==
  ASSUME LoadInv, NEW i \in Images, NEW b, NEW p,
         Unmap(i) \/ (b \in Homes \cup {Img[i].home} /\ Map(i, b))
           \/ (p \in PathsOf /\ Replace(p, i))
  PROVE  LoadInv'
<1>0. TargetOK /\ LoadCovers /\ TablesArrive
  BY DEF LoadInv
<1>1. CASE b \in Homes \cup {Img[i].home} /\ Map(i, b)
  <2>1. b \in Nat
    BY <1>1, UnwindAssumption
  <2>2. at' \in [Images -> Nat \cup {Unmapped}]
    BY <1>0, <1>1, <2>1 DEF Map, TargetOK
  <2>3. \A j \in due : at'[j] = at[j] /\ j \in Images
    BY <1>0, <1>1 DEF Map, TargetOK, Mapped, Files
  <2>4. ASSUME NEW j \in Files, Mapped(j)', Stable(j)' PROVE file'[Img[j].path] = j
    BY <1>0, <1>1, <2>4 DEF Map, TargetOK, Mapped, Stable, Files
  <2>5. TargetOK'
    BY <1>0, <1>1, <2>1, <2>2, <2>3, <2>4 DEF Map, TargetOK, Mapped, Unmapped
  <2>6. LoadCovers' /\ TablesArrive'
    BY <1>0, <1>1, <2>3 DEF Map, LoadCovers, TablesArrive, Tried, InHand, Stable
  <2> QED BY <2>5, <2>6 DEF LoadInv
<1>2. CASE Unmap(i)
  <2>1. \A j \in due' : at'[j] = at[j] /\ j \in due
    BY <1>0, <1>2 DEF Unmap, TargetOK, Files
  <2>2. TargetOK'
    BY <1>0, <1>2, <2>1 DEF Unmap, TargetOK, Mapped, Stable, Files
  <2>3. LoadCovers' /\ TablesArrive'
    BY <1>0, <1>2, <2>1 DEF Unmap, LoadCovers, TablesArrive, Tried, InHand, Stable
  <2> QED BY <2>2, <2>3 DEF LoadInv
<1>3. CASE p \in PathsOf /\ Replace(p, i)
  <2>1. swapped' = swapped \cup {p} /\ i \in Files /\ Img[i].path = p
        /\ file' = [file EXCEPT ![p] = i] /\ UNCHANGED <<at, gone, pings, due, ld, tables>>
    BY <1>3 DEF Replace
  <2>2. TargetOK'
    BY <1>0, <1>3, <2>1 DEF TargetOK, Mapped, Stable
  <2>3. LoadCovers' /\ TablesArrive'
    BY <1>0, <2>1 DEF LoadCovers, TablesArrive, Tried, InHand, Stable
  <2> QED BY <2>2, <2>3 DEF LoadInv
<1> QED BY <1>1, <1>2, <1>3

(* Nothing is due once the target is gone.                                   *)
LEMMA ExitStep == ASSUME LoadInv, Exit PROVE LoadInv'
BY DEF Exit, LoadInv, TargetOK, LoadCovers, TablesArrive, Tried, InHand, Mapped, Stable

(* A ping may make more due, and is then itself queued.                      *)
LEMMA WorkerStep == ASSUME LoadInv, Ping \/ Join PROVE LoadInv'
<1>0. TargetOK /\ LoadCovers /\ TablesArrive
  BY DEF LoadInv
<1>1. CASE Ping
  <2>1. /\ pings' \in [queued : Nat, sent : Nat, open : BOOLEAN]
        /\ pings'.queued # 0 /\ pings'.open /\ UNCHANGED <<ld, tables>> /\ ld.pc # "exited"
    <3> DEFINE n == pings.queued + 1
               k == pings.sent + 1
    <3>1. n \in Nat /\ n # 0 /\ k \in Nat
      BY <1>0 DEF LoadCovers
    <3>2. pings' = [pings EXCEPT !.queued = n, !.sent = k] /\ pings.open
      BY <1>1 DEF Ping
    <3> HIDE DEF n, k
    <3> QED BY <1>0, <1>1, <3>1, <3>2 DEF LoadCovers, Ping
  <2>2. TargetOK'
    BY <1>0, <1>1 DEF Ping, target, TargetOK, Mapped, Stable
  <2>3. LoadCovers' /\ TablesArrive'
    BY <1>0, <2>1 DEF LoadCovers, TablesArrive
  <2> QED BY <2>2, <2>3 DEF LoadInv
<1>2. CASE Join
  BY <1>0, <1>2 DEF Join, target, LoadInv, TargetOK, LoadCovers, TablesArrive, Mapped, Stable,
                    Tried, InHand
<1> QED BY <1>1, <1>2

(* The loader's steps that leave what was loaded alone.                      *)
LEMMA ReadStep == ASSUME LoadInv, Recv \/ LoaderExit \/ ParseMaps \/ LoadDone PROVE LoadInv'
<1>0. TargetOK /\ LoadCovers /\ TablesArrive
  BY DEF LoadInv
<1>1. UNCHANGED <<target, due, tables>>
  BY DEF Recv, LoaderExit, ParseMaps, LoadDone
<1>2. TargetOK'
  BY <1>0, <1>1 DEF target, TargetOK, Mapped, Stable
<1>3. CASE Recv
  BY <1>0, <1>1, <1>2, <1>3 DEF Recv, LoadInv, LoadCovers, TablesArrive
<1>4. CASE LoaderExit
  BY <1>0, <1>1, <1>2, <1>4 DEF LoaderExit, LoadInv, LoadCovers, TablesArrive, target
<1>5. CASE ParseMaps
  <2>1. CASE gone
    <3>1. due = {} /\ ld' = Idle /\ UNCHANGED pings
      BY <1>0, <1>5, <2>1 DEF ParseMaps, TargetOK
    <3> QED BY <1>0, <1>1, <1>2, <3>1 DEF LoadInv, LoadCovers, TablesArrive, Idle
  <2>2. CASE ~gone
    <3>1. ld' = [ld EXCEPT !.pc = "load", !.todo = by_module(parse_text(Lines(at)))]
          /\ UNCHANGED pings
      BY <1>5, <2>2 DEF ParseMaps
    <3>2. ld'.pc = "load" /\ ld'.todo = by_module(parse_text(Lines(at)))
          /\ DOMAIN ld' = DOMAIN ld
      BY <1>0, <3>1 DEF LoadCovers
    <3>3. \A i \in due : InHand(i)' \/ ~Stable(i)'
      BY <1>0, <1>1, <3>2, BaseFound DEF TargetOK, InHand, Stable, Mapped, target
    <3> QED BY <1>0, <1>1, <1>2, <3>1, <3>2, <3>3 DEF LoadInv, LoadCovers, TablesArrive
  <2> QED BY <2>1, <2>2
<1>6. CASE LoadDone
  <2>1. ld.pc = "load" /\ ld' = Idle /\ UNCHANGED pings
        /\ \A m \in ld.todo : m.base \in tables.loaded
    BY <1>6 DEF LoadDone
  <2>2. pings.queued = 0 => \A i \in due : Tried(i) \/ ~Stable(i)
    BY <1>0, <2>1 DEF LoadCovers, Tried, InHand
  <2> QED BY <1>0, <1>1, <1>2, <2>1, <2>2
          DEF LoadInv, LoadCovers, TablesArrive, Idle, Tried, Stable, target
<1> QED BY <1>3, <1>4, <1>5, <1>6

(* What is loaded stays so, and the work in hand with it.                    *)
LEMMA TablesStep ==
  ASSUME LoadInv, NEW m,
         load_vdso \/ (m \in ld.todo /\ load_module(m)) \/ InsertPage \/ InsertMapping
  PROVE  LoadInv'
<1>0. TargetOK /\ LoadCovers /\ TablesArrive
  BY DEF LoadInv
<1>1. UNCHANGED <<target, due, pings>> /\ ld.pc \in {"load", "install"}
  BY DEF load_vdso, load_module, InsertPage, InsertMapping
<1>2. TargetOK'
  BY <1>0, <1>1 DEF target, TargetOK, Mapped, Stable
<1>3. tables.loaded \subseteq tables'.loaded /\ DOMAIN tables' = DOMAIN tables
  <2>1. CASE load_vdso
    BY <1>0, <2>1, ZenonT(60) DEF LoadCovers, load_vdso, install_rows, AppendRows
  <2>2. CASE load_module(m)
    <3> DEFINE t == [tables EXCEPT !.loaded = @ \cup {m.base}]
    <3>1. DOMAIN t = DOMAIN tables /\ t.loaded = tables.loaded \cup {m.base}
      BY <1>0 DEF LoadCovers
    <3>2. tables' = t \/ \E rows : tables' = AppendRows(t, rows)
      BY <2>2 DEF load_module, install_rows
    <3> HIDE DEF t
    <3>3. tables'.loaded = t.loaded /\ DOMAIN tables' = DOMAIN t
      BY <1>0, <3>1, <3>2 DEF AppendRows, LoadCovers
    <3> QED BY <3>1, <3>3
  <2>3. CASE InsertPage \/ InsertMapping
    BY <1>0, <2>3 DEF LoadCovers, InsertPage, InsertMapping
  <2> QED BY <2>1, <2>2, <2>3, SMTT(30)
<1>4. ld'.todo = ld.todo /\ ld'.pc \in {"load", "install"} /\ DOMAIN ld' = DOMAIN ld
  BY <1>0 DEF LoadCovers, load_vdso, load_module, install_rows, InsertPage, InsertMapping,
              Abandoned
<1>5. LoadCovers' /\ TablesArrive'
  BY <1>0, <1>1, <1>3, <1>4 DEF LoadCovers, TablesArrive, Tried, InHand, Stable, target
<1> QED BY <1>2, <1>5 DEF LoadInv

(* The inductive invariant of the loader, for any images, moves of the       *)
(* target's mappings and pings.                                              *)
THEOREM LoadInvariant == UwSpec => []LoadInv
<1>1. LoadInv /\ [UwNext]_uwVars => LoadInv'
  <2> SUFFICES ASSUME LoadInv, [UwNext]_uwVars PROVE LoadInv'
    OBVIOUS
  <2>1. ASSUME NEW i \in Images, Unmap(i) PROVE LoadInv'
    BY <2>1, TargetStep
  <2>2. ASSUME NEW i \in Images, NEW b \in Homes \cup {Img[i].home}, Map(i, b) PROVE LoadInv'
    BY <2>2, TargetStep
  <2>3. ASSUME NEW p \in PathsOf, NEW i \in Images, Replace(p, i) PROVE LoadInv'
    BY <2>3, TargetStep
  <2>4. CASE Exit
    BY <2>4, ExitStep
  <2>5. CASE Ping \/ Join
    BY <2>5, WorkerStep
  <2>6. CASE Recv \/ LoaderExit \/ ParseMaps \/ LoadDone
    BY <2>6, ReadStep
  <2>7. ASSUME NEW m \in ld.todo, load_module(m) PROVE LoadInv'
    BY <2>7, TablesStep
  <2>8. CASE load_vdso \/ InsertPage \/ InsertMapping
    BY <2>8, TablesStep
  <2>9. CASE UNCHANGED uwVars
    BY <2>9 DEF uwVars, LoadInv, TargetOK, LoadCovers, TablesArrive, Mapped, Stable, Tried, InHand
  <2> QED BY <2>1, <2>2, <2>3, <2>4, <2>5, <2>6, <2>7, <2>8, <2>9 DEF UwNext, Loader
<1> QED BY <1>1, LoadStart, PTL DEF UwSpec

(* A module that was mapped when the worker asked for a reload has been      *)
(* tried by the time the loader waits: pings merge, none is lost.            *)
THEOREM ReloadsArrive == UwSpec => []TablesArrive
<1>1. LoadInv => TablesArrive
  BY DEF LoadInv
<1> QED BY <1>1, LoadInvariant, PTL

------------------------------------------------------------------------------
(* The invariant of the symbolization pass.                                 *)

RowOK(r) ==
  /\ r.id \in Ids
  /\ Verifiable(r.id) => Bin[r.bin].id = r.id
  /\ r.path = "kernel" => r.kind = "va"
RowSet == {r \in Rows : RowOK(r)}
Modules == [path : ModulePaths \cup {"kernel"}, id : Nat, bias : Nat, kind : {"va", "off"},
            bin : Bins, pcs : Seq(Nat)]
ModSet == {m \in Modules : RowOK(m) /\ m.pcs # <<>>}
InModule == {"pick", "translate", "load", "resolve", "asm"}
Jobs == [pc : InModule \cup {"query", "next", "append", "sidecar", "report", "done"}, k : Nat,
         src : {"none", "recorded", "held", "exe"}, pcs : Seq(Int), base : Int,
         raced : BOOLEAN, counted : BOOLEAN]
PassTypes ==
  /\ query \in Seq(RowSet) /\ mods \in Seq(ModSet) /\ job \in Jobs
  /\ disk \in [ModulePaths -> Bins \cup {NoBin}]
  /\ keep.exe \in [Ids -> Bins \cup {NoBin}]
  /\ job.k <= Len(mods) /\ (job.pc \in InModule => job.k # 0)
  /\ job.pc = "query" => job.k = 0 /\ pending = <<>> /\ asm = <<>>

(* The pass can be held to the binary that was sampled if it can answer for  *)
(* the module at all and nobody has replaced the file in hand.               *)
Exact == Covered(M) /\ ~job.raced
AtHand == disk[M.path] = M.bin \/ M.id \in keep.held \/ keep.exe[M.id] = M.bin

(* The bytes chosen are the sampled ones, or there are none.                 *)
BytesTrue ==
  job.pc \in {"translate", "load"} =>
    /\ M.path # "kernel" /\ ranges = <<>> /\ job.src # "none"
    /\ job.pc = "translate" => M.kind = "off"
    /\ Exact => Chosen \in {NoBin, M.bin} /\ (AtHand => Chosen = M.bin)

(* What is looked up are the link addresses of what was sampled, from a base.*)
Base(m) == IF m.kind = "off" THEN 0 ELSE m.bias
Link(m, pc) == IF m.kind = "off" THEN file_offset_to_vaddr(m.bin, pc) ELSE pc
PcsTrue ==
  job.pc \in {"load", "resolve"} =>
    /\ Len(job.pcs) = Len(M.pcs)
    /\ Exact => /\ job.base = Base(M)
                /\ \A n \in 1 .. Len(M.pcs) : job.pcs[n] = Link(M, M.pcs[n])

(* The one range that is registered answers for the sampled binary alone,    *)
(* and with all it has if its bytes are at hand.                             *)
Own(r, m) ==
  /\ r.base = Base(m) /\ r.map.bin \in {NoBin, m.bin}
  /\ r.falls # <<>> => r.bin = m.bin
Full(r, m) ==
  /\ r.map.bin = m.bin /\ r.bin = m.bin
  /\ r.falls = load_fallbacks(m.bin, SymbolCount(r.map))
RangeTrue ==
  /\ job.pc \in {"resolve", "asm"} =>
       /\ ranges = <<>> \/ \E r : ranges = <<r>>
       /\ Exact /\ ranges # <<>> => Own(ranges[1], M)
  /\ job.pc = "resolve" =>
       /\ ranges # <<>> /\ ranges[1].end = MaxPc(job.pcs) + 1
       /\ Exact /\ M.path # "kernel" /\ AtHand /\ M.id \notin keep.broken => Full(ranges[1], M)

(* Symbols and listings are of modules that were in hand.                    *)
PendingOf ==
  /\ \E S : pending \in Seq(S)
  /\ job.pc \in InModule \cup {"next"} =>
       \A n \in 1 .. Len(pending) :
         pending[n].k \in Nat /\ (IF job.pc \in {"next", "asm"} THEN pending[n].k <= job.k
                                                               ELSE pending[n].k < job.k)
ListingsOf ==
  /\ \E S : asm \in Seq(S)
  /\ \A i \in 1 .. Len(asm) : asm[i].k \in 1 .. Len(mods)

PassInv ==
  /\ PassTypes /\ BytesTrue /\ PcsTrue /\ RangeTrue /\ PendingOf /\ ListingsOf
  /\ NamesExact /\ NamesServed

------------------------------------------------------------------------------
(* Facts about the operators.                                               *)

(* A binary with a real id is the only one that matches it.                  *)
LEMMA MatchIs ==
  ASSUME NEW b \in Bins, NEW r, RowOK(r), r.bin \in Bins, Verifiable(r.id)
  PROVE  matches(b, r.id) <=> b = r.bin
BY SymbolizeAssumption DEF matches, RowOK, Verifiable

(* Lookup in the one range there is.                                         *)
LEMMA ResolveIs ==
  ASSUME NEW r, NEW avma
  PROVE  resolve(<<r>>, avma) =
           LET rel == avma - r.base
               b == r.map.bin
               asked == b # NoBin /\ rel <= MaxRel
           IN IF ~(avma >= r.base /\ avma < r.end) THEN NoName
              ELSE IF asked /\ (r.map.full \/ rel \in Bin[b].syms) THEN Named(b, rel, r.map.full)
              ELSE IF \E k \in 1 .. Len(r.falls) : rel \in r.falls[k] THEN Named(r.bin, rel, FALSE)
              ELSE IF asked /\ rel \in Bin[b].stubs THEN Placeholder(b, rel)
              ELSE NoName
<1> DEFINE rs == <<r>>
           hits == {k \in 1 .. Len(rs) : avma >= rs[k].base /\ avma < rs[k].end}
           first == CHOOSE k \in hits : \A j \in hits : k <= j
           Found(x) ==
             LET rel == avma - x.base
                 b == x.map.bin
                 asked == b # NoBin /\ rel <= MaxRel
             IN IF asked /\ (x.map.full \/ rel \in Bin[b].syms) THEN Named(b, rel, x.map.full)
                ELSE IF \E k \in 1 .. Len(x.falls) : rel \in x.falls[k]
                     THEN Named(x.bin, rel, FALSE)
                ELSE IF asked /\ rel \in Bin[b].stubs THEN Placeholder(b, rel)
                ELSE NoName
<1>1. Len(rs) = 1 /\ rs[1] = r
  OBVIOUS
<1> HIDE DEF rs
<1>2. hits = IF avma >= r.base /\ avma < r.end THEN {1} ELSE {}
  BY <1>1
<1>3. CASE ~(avma >= r.base /\ avma < r.end)
  <2>1. hits = {}
    BY <1>2, <1>3, SMTT(30)
  <2>2. resolve(rs, avma) = NoName
    BY <2>1 DEF resolve
  <2> QED BY <1>3, <2>2 DEF rs
<1>4. CASE avma >= r.base /\ avma < r.end
  <2>1. hits = {1}
    BY <1>2, <1>4
  <2>2. first = 1
    BY <2>1
  <2>3. rs[first] = r /\ hits # {}
    BY <1>1, <2>1, <2>2
  <2>4. resolve(rs, avma) = IF hits = {} THEN NoName ELSE Found(rs[first])
    BY DEF resolve
  <2> HIDE DEF Found, first, hits
  <2>5. resolve(rs, avma) = Found(r)
    BY <2>3, <2>4
  <2> QED BY <1>4, <2>5 DEF rs, Found
<1> QED BY <1>3, <1>4

(* No range, no name.                                                        *)
LEMMA ResolveNone == ASSUME NEW avma PROVE resolve(<<>>, avma) = NoName
BY DEF resolve

(* A name is of the range's binary, at the address asked for.                *)
LEMMA ResolveOwn ==
  ASSUME NEW m, m.bin \in Bins, NEW r, Own(r, m), NEW avma \in Int,
         resolve(<<r>>, avma) # NoName
  PROVE  /\ resolve(<<r>>, avma).bin = m.bin
         /\ resolve(<<r>>, avma).at = avma - Base(m)
<1> DEFINE rel == avma - Base(m)
           b == r.map.bin
           name == resolve(<<r>>, avma)
<1>1. r.base = Base(m) /\ b \in {NoBin, m.bin} /\ (r.falls # <<>> => r.bin = m.bin)
  BY DEF Own
<1>2. \/ name \in {Named(b, rel, r.map.full), Placeholder(b, rel)} /\ b # NoBin
      \/ name = Named(r.bin, rel, FALSE) /\ \E k \in 1 .. Len(r.falls) : rel \in r.falls[k]
  BY <1>1, ResolveIs
<1>3. name = Named(r.bin, rel, FALSE) /\ (\E k \in 1 .. Len(r.falls) : rel \in r.falls[k])
        => r.bin = m.bin
  BY <1>1
<1> HIDE DEF name, rel, b
<1> QED BY <1>1, <1>2, <1>3 DEF Named, Placeholder, name, rel

(* The elements of a sequence.                                               *)
LEMMA ToSetIs ==
  ASSUME NEW S, NEW s \in Seq(S)
  PROVE  /\ \A i \in 1 .. Len(s) : s[i] \in ToSet(s)
         /\ \A y \in ToSet(s) : \E i \in 1 .. Len(s) : y = s[i]
<1>1. DOMAIN s = 1 .. Len(s)
  OBVIOUS
<1> QED BY <1>1, Zenon DEF ToSet

(* The greatest of some integers.                                            *)
LEMMA MaxIs ==
  ASSUME NEW pcs \in Seq(Int), pcs # <<>>
  PROVE  MaxPc(pcs) \in Int /\ \A n \in 1 .. Len(pcs) : pcs[n] <= MaxPc(pcs)
<1> DEFINE Has(s) == \E x \in ToSet(s) : \A y \in ToSet(s) : y <= x
           P(n) == \A s \in Seq(Int) : Len(s) = n => Has(s)
           T == {n \in Nat \ {0} : ~P(n)}
<1>1. T = {}
  <2> SUFFICES ASSUME T # {} PROVE FALSE
    OBVIOUS
  <2>1. T \subseteq Nat
    OBVIOUS
  <2>2. PICK n \in T : \A k \in T : n <= k
    <3> HIDE DEF T
    <3> QED BY <2>1, Least
  <2>3. n \in Nat \ {0}
    OBVIOUS
  <2>4. PICK s \in Seq(Int) : Len(s) = n /\ ~Has(s)
    BY <2>2
  <2>5. \A i \in 1 .. n : s[i] \in Int
    BY <2>4
  <2>6. \A y \in ToSet(s) : \E i \in 1 .. n : y = s[i]
    BY <2>4, ToSetIs
  <2>7. \A i \in 1 .. n : s[i] \in ToSet(s)
    BY <2>4, ToSetIs
  <2>8. CASE n = 1
    <3>1. \A y \in ToSet(s) : y <= s[1]
      BY <2>5, <2>6, <2>8
    <3>2. s[1] \in ToSet(s)
      BY <2>7, <2>8
    <3> QED BY <2>4, <3>1, <3>2
  <2>9. CASE n # 1
    <3> DEFINE l == n - 1
               t == SubSeq(s, 1, l)
    <3>1. l \in Nat \ {0} /\ l < n /\ ~(n <= l)
      BY <2>3, <2>9
    <3>2. l \notin T
      BY <2>2, <3>1
    <3>3. t \in Seq(Int) /\ Len(t) = l /\ \A i \in 1 .. l : t[i] = s[i]
      BY <2>3, <2>4, <3>1
    <3>4. Has(t)
      <4> HIDE DEF t, l, Has
      <4> QED BY <3>1, <3>2, <3>3
    <3> HIDE DEF t
    <3>5. PICK x \in ToSet(t) : \A y \in ToSet(t) : y <= x
      BY <3>4
    <3>6. PICK j \in 1 .. l : x = s[j]
      <4>1. PICK j \in 1 .. Len(t) : x = t[j]
        BY <3>3, ToSetIs
      <4> QED BY <3>3, <4>1
    <3>7. \A i \in 1 .. l : s[i] <= x
      <4>1. \A i \in 1 .. l : s[i] \in ToSet(t)
        BY <3>3, ToSetIs
      <4> QED BY <3>5, <4>1
    <3>8. \A i \in 1 .. n : i \in 1 .. l \/ i = n
      BY <2>3
    <3>9. x \in Int /\ s[n] \in Int /\ x \in ToSet(s) /\ s[n] \in ToSet(s)
      BY <2>3, <2>5, <2>7, <3>6
    <3>10. CASE s[n] <= x
      <4>1. \A i \in 1 .. n : s[i] <= x
        BY <3>7, <3>8, <3>10
      <4>2. \A y \in ToSet(s) : y <= x
        BY <2>6, <4>1
      <4> QED BY <2>4, <3>9, <4>2
    <3>11. CASE x <= s[n]
      <4>1. \A i \in 1 .. n : s[i] <= s[n]
        <5> TAKE i \in 1 .. n
        <5>1. CASE i = n
          BY <3>9, <5>1
        <5>2. CASE i \in 1 .. l
          BY <2>5, <3>7, <3>9, <3>11, <5>2, SMTT(30)
        <5> QED BY <3>8, <5>1, <5>2
      <4>2. \A y \in ToSet(s) : y <= s[n]
        BY <2>6, <4>1
      <4> QED BY <2>4, <3>9, <4>2
    <3> QED BY <3>9, <3>10, <3>11
  <2> QED BY <2>8, <2>9
<1>2. Len(pcs) \in Nat \ {0}
  OBVIOUS
<1>3. Has(pcs)
  <2> HIDE DEF Has
  <2> QED BY <1>1, <1>2
<1> DEFINE max == CHOOSE x \in ToSet(pcs) : \A y \in ToSet(pcs) : y <= x
<1>4. max \in ToSet(pcs) /\ \A y \in ToSet(pcs) : y <= max
  BY <1>3
<1>5. MaxPc(pcs) = max
  BY DEF MaxPc
<1> HIDE DEF max
<1>6. max \in Int /\ \A n \in 1 .. Len(pcs) : pcs[n] \in ToSet(pcs)
  BY <1>4, ToSetIs
<1> QED BY <1>4, <1>5, <1>6

(* A finite set as a sequence.                                               *)
LEMMA SetToSeqIs == ASSUME NEW S, IsFiniteSet(S) PROVE SetToSeq(S) \in Seq(S)
<1> DEFINE n == Cardinality(S)
<1>1. n \in Nat /\ ExistsBijection(1 .. n, S)
  BY FS_CardinalityType
<1>2. PICK g \in [1 .. n -> S] : IsInjective(g)
  BY <1>1 DEF ExistsBijection, Bijection, Injection
<1>3. SetToSeq(S) \in [1 .. n -> S]
  BY <1>2 DEF SetToSeq
<1> HIDE DEF n
<1> QED BY <1>1, <1>3

(* What a range with all the binary has names, it names for real.            *)
LEMMA ResolveFull ==
  ASSUME NEW m, m.bin \in Bins, NEW r, Own(r, m), Full(r, m), NEW avma \in Int, avma < r.end,
         m.kind = "off" \/ m.bias \in Nat,
         avma - Base(m) \in Nameable(m.bin)
  PROVE  resolve(<<r>>, avma) # NoName /\ resolve(<<r>>, avma).real
<1> DEFINE rel == avma - Base(m)
           b == m.bin
           name == resolve(<<r>>, avma)
           dyn == IF Bin[b].syms \cup Bin[b].stubs = {} THEN Bin[b].dyn ELSE {}
<1>1. b # NoBin /\ Base(m) \in Nat /\ rel \in Nat
  <2>1. Nameable(b) \subseteq Nat /\ b # NoBin
    <3>1. Bin[b].syms \subseteq Nat /\ Bin[b].go \subseteq Nat /\ Bin[b].dyn \subseteq Nat
          /\ b # NoBin
      BY SymbolizeAssumption, SMTT(30)
    <3> HIDE DEF b
    <3> QED BY <3>1 DEF Nameable
  <2>2. rel \in Nameable(b)
    OBVIOUS
  <2>3. Base(m) \in Nat
    BY DEF Base
  <2> HIDE DEF b, rel
  <2> QED BY <2>1, <2>2, <2>3
<1>2. avma >= r.base /\ r.base = Base(m) /\ r.map.bin = b /\ r.bin = b
  BY <1>1 DEF Own, Full
<1>3. rel \in Bin[b].go \/ ((rel \in Bin[b].syms \/ rel \in dyn) /\ rel <= MaxRel)
  <2>1. rel \in Nameable(b)
    OBVIOUS
  <2> HIDE DEF rel, b
  <2> QED BY <2>1 DEF Nameable
<1>4. ASSUME ~(rel <= MaxRel /\ (r.map.full \/ rel \in Bin[b].syms))
      PROVE  \E k \in 1 .. Len(r.falls) : rel \in r.falls[k]
  <2> DEFINE go == IF Bin[b].go # {} THEN <<Bin[b].go>> ELSE <<>>
             dn == IF SymbolCount(r.map) = 0 /\ Bin[b].dyn # {} THEN <<Bin[b].dyn>> ELSE <<>>
  <2>1. r.falls = go \o dn
    BY <1>1 DEF Full, load_fallbacks
  <2>2. ~r.map.full => SymbolCount(r.map) = Cardinality(Bin[b].syms \cup Bin[b].stubs)
    BY <1>1, <1>2 DEF SymbolCount
  <2>3. CASE rel \in Bin[b].go
    <3>1. go = <<Bin[b].go>>
      BY <2>3
    <3>2. Len(go \o dn) >= 1 /\ (go \o dn)[1] = Bin[b].go
      <4>1. dn \in {<<>>, <<Bin[b].dyn>>}
        OBVIOUS
      <4> HIDE DEF dn
      <4> QED BY <3>1, <4>1
    <3> HIDE DEF go, dn
    <3> QED BY <2>1, <2>3, <3>2
  <2>4. CASE rel \in dyn /\ rel \notin Bin[b].go /\ ~r.map.full
    <3>1. Bin[b].syms \cup Bin[b].stubs = {} /\ rel \in Bin[b].dyn
      BY <2>4
    <3>2. dn = <<Bin[b].dyn>>
      BY <2>2, <2>4, <3>1, FS_EmptySet
    <3>3. Len(go \o dn) >= 1 /\ (go \o dn)[Len(go \o dn)] = Bin[b].dyn
      <4>1. go \in {<<>>, <<Bin[b].go>>}
        OBVIOUS
      <4> HIDE DEF go
      <4>2. CASE go = <<>>
        BY <3>2, <4>2
      <4>3. CASE go = <<Bin[b].go>>
        BY <3>2, <4>3
      <4> QED BY <4>1, <4>2, <4>3
    <3>4. Len(go \o dn) \in Nat
      BY <3>2
    <3> HIDE DEF go, dn
    <3> QED BY <2>1, <3>1, <3>3, <3>4
  <2> HIDE DEF rel, dyn, b, go, dn
  <2> QED BY <1>3, <1>4, <2>3, <2>4
<1>5. name \in {Named(b, rel, r.map.full), Named(b, rel, FALSE)}
  <2> HIDE DEF rel
  <2> QED BY <1>1, <1>2, <1>4, ResolveIs DEF rel
<1>6. b # 0
  BY <1>1 DEF NoBin
<1> HIDE DEF name, rel, b
<1> QED BY <1>5, <1>6 DEF Named, NoName, NoBin, name

------------------------------------------------------------------------------
(* Every step.                                                              *)

(* Nothing is in hand yet, or any more.                                      *)
LEMMA OutsideModules ==
  ASSUME PassTypes', PendingOf, ListingsOf, AsmExact, PassTypes,
         job'.pc \notin InModule \cup {"next"}, UNCHANGED <<keep, pending, asm>>,
         mods' = mods \/ asm = <<>>
  PROVE  PassInv'
<1>1. BytesTrue' /\ PcsTrue' /\ RangeTrue' /\ NamesServed'
  BY DEF BytesTrue, PcsTrue, RangeTrue, NamesServed, Covered, Genuine, InModule
<1>2. PendingOf' /\ ListingsOf'
  BY DEF PendingOf, ListingsOf
<1>3. NamesOwn' /\ AsmExact'
  BY DEF NamesOwn, JustNamed, NamesRight, Covered, Genuine, AsmExact, InModule
<1> QED BY <1>1, <1>2, <1>3 DEF PassInv, NamesExact

(* The query answers rows that tell the truth.                               *)
LEMMA PassStart == SymInit => PassInv
<1> SUFFICES ASSUME SymInit PROVE PassInv
  OBVIOUS
<1>1. query \in Seq(RowSet)
  <2>1. query \in Seq(Rows) /\ \A n \in 1 .. Len(query) : RowOK(query[n])
    <3>1. \A n \in 1 .. Len(query) : query[n].id \in Ids
      BY DEF SymInit, Ids
    <3> QED BY <3>1, SymbolizeAssumption DEF SymInit, RowOK
  <2>2. \A n \in 1 .. Len(query) : query[n] \in RowSet
    BY <2>1 DEF RowSet
  <2> QED BY <2>1, <2>2
<1>2. job = NoJob /\ mods = <<>> /\ pending = <<>> /\ asm = <<>>
      /\ disk \in [ModulePaths -> Bins \cup {NoBin}] /\ keep.exe \in [Ids -> Bins \cup {NoBin}]
  BY DEF SymInit
<1>3. job.pc = "query" /\ job.k = 0 /\ job \in Jobs
  <2>1. <<>> \in Seq(Int)
    OBVIOUS
  <2> QED BY <1>2, <2>1 DEF NoJob, Jobs
<1>4. PassTypes
  BY <1>1, <1>2, <1>3 DEF PassTypes, InModule
<1>5. BytesTrue /\ PcsTrue /\ RangeTrue /\ NamesServed /\ NamesOwn
  BY <1>3 DEF BytesTrue, PcsTrue, RangeTrue, NamesServed, Covered, Genuine, NamesOwn,
              JustNamed, NamesRight
<1>6. PendingOf /\ ListingsOf /\ AsmExact
  <2>1. pending \in Seq({}) /\ asm \in Seq({}) /\ Len(pending) = 0 /\ Len(asm) = 0
    BY <1>2
  <2> QED BY <2>1 DEF PendingOf, ListingsOf, AsmExact, Covered, Genuine
<1> QED BY <1>4, <1>5, <1>6 DEF PassInv, NamesExact

(* A row is of the trailing module or starts one.                            *)
LEMMA RowTaken ==
  ASSUME NEW ms \in Seq(ModSet), NEW r \in RowSet
  PROVE  on_row(ms, r) \in Seq(ModSet)
<1> DEFINE n == Len(ms)
           last == ms[n]
           fresh == [path |-> r.path, id |-> r.id, bias |-> r.bias, kind |-> r.kind,
                     bin |-> r.bin, pcs |-> <<r.pc>>]
           more == Append(last.pcs, r.pc)
           longer == [last EXCEPT !.pcs = more]
<1>1. r \in Rows /\ RowOK(r)
  BY DEF RowSet
<1>2. fresh \in ModSet
  <2>1. <<r.pc>> \in Seq(Nat) /\ <<r.pc>> # <<>>
    BY <1>1 DEF Rows
  <2>2. fresh \in Modules
    BY <1>1, <2>1 DEF Rows, Modules
  <2>3. RowOK(fresh)
    BY <1>1 DEF RowOK
  <2> QED BY <2>1, <2>2, <2>3 DEF ModSet
<1>3. CASE ms = <<>> \/ ~SameModule(last, r)
  <2>1. on_row(ms, r) = Append(ms, fresh)
    BY <1>3 DEF on_row
  <2> HIDE DEF fresh
  <2> QED BY <1>2, <2>1
<1>4. CASE ms # <<>> /\ SameModule(last, r)
  <2>1. n \in 1 .. Len(ms) /\ last \in ModSet
    BY <1>4
  <2>2. more \in Seq(Nat) /\ more # <<>>
    <3>1. last.pcs \in Seq(Nat) /\ r.pc \in Nat
      BY <1>1, <2>1 DEF ModSet, Modules, Rows
    <3> HIDE DEF last
    <3> QED BY <3>1
  <2>3. longer \in ModSet
    <3> HIDE DEF last, more
    <3>1. longer \in Modules
      BY <2>1, <2>2 DEF ModSet, Modules
    <3>2. longer.id = last.id /\ longer.bin = last.bin /\ longer.path = last.path
          /\ longer.kind = last.kind /\ longer.pcs = more
      BY <2>1 DEF ModSet, Modules
    <3> HIDE DEF longer
    <3> QED BY <2>1, <2>2, <3>1, <3>2 DEF ModSet, RowOK
  <2>4. on_row(ms, r) = ms \/ on_row(ms, r) = [ms EXCEPT ![n] = longer]
    BY <1>4 DEF on_row
  <2> HIDE DEF n, longer
  <2> QED BY <2>1, <2>3, <2>4
<1> QED BY <1>3, <1>4

(* Rows are taken one by one, then the pass begins or is given up.           *)
LEMMA QueryStep == ASSUME PassInv, QueryRow \/ QueryEnds PROVE PassInv'
<1>0. PassTypes /\ PendingOf /\ ListingsOf /\ AsmExact
  BY DEF PassInv, NamesExact
<1>1. CASE QueryRow
  <2> DEFINE r == Head(query)
  <2>1. r \in RowSet /\ query' \in Seq(RowSet)
    BY <1>0, <1>1 DEF PassTypes, QueryRow
  <2>2. mods' \in Seq(ModSet)
    BY <1>0, <1>1, <2>1, RowTaken DEF PassTypes, QueryRow
  <2>3. UNCHANGED <<job, disk, keep, pending, asm>> /\ job.pc = "query" /\ asm = <<>>
    BY <1>0, <1>1 DEF PassTypes, QueryRow
  <2>4. PassTypes'
    <3>1. Len(mods') \in Nat
      BY <2>2
    <3> QED BY <1>0, <2>1, <2>2, <2>3, <3>1 DEF PassTypes, InModule
  <2> QED BY <1>0, <2>3, <2>4, OutsideModules DEF InModule
<1>2. CASE QueryEnds
  <2>1. UNCHANGED <<query, mods, disk, keep, pending, asm>> /\ job.pc = "query"
        /\ (job' = [job EXCEPT !.pc = "next"] \/ job' = [job EXCEPT !.pc = "done"])
    BY <1>2 DEF QueryEnds, files
  <2>2. job' \in Jobs /\ job'.pc \in {"next", "done"} /\ job'.k = job.k
    BY <1>0, <2>1 DEF PassTypes, Jobs
  <2>3. PassTypes'
    BY <1>0, <2>1, <2>2 DEF PassTypes, InModule
  <2>4. CASE job'.pc = "done"
    BY <1>0, <2>1, <2>3, <2>4, OutsideModules DEF InModule
  <2>5. CASE job'.pc = "next"
    <3>1. BytesTrue' /\ PcsTrue' /\ RangeTrue' /\ NamesServed' /\ NamesOwn'
      BY <2>5 DEF BytesTrue, PcsTrue, RangeTrue, NamesServed, Covered, Genuine, NamesOwn,
                  JustNamed, NamesRight
    <3>2. PendingOf' /\ ListingsOf' /\ AsmExact'
      BY <1>0, <2>1 DEF PassTypes, PendingOf, ListingsOf, AsmExact, Covered, Genuine
    <3> QED BY <2>3, <3>1, <3>2 DEF PassInv, NamesExact
  <2> QED BY <2>2, <2>4, <2>5
<1> QED BY <1>1, <1>2

(* The module in hand is one of the trace's.                                 *)
LEMMA InHandIs ==
  ASSUME PassTypes, job.pc \in InModule
  PROVE  M \in ModSet /\ M \in Modules /\ RowOK(M) /\ M.pcs # <<>> /\ job.k \in 1 .. Len(mods)
<1>1. job.k \in 1 .. Len(mods)
  BY DEF PassTypes, Jobs
<1>2. M \in ModSet
  BY <1>1 DEF PassTypes, M
<1> QED BY <1>1, <1>2 DEF ModSet

(* The next module has no symbols yet.                                       *)
LEMMA NextStep == ASSUME PassInv, NextModule PROVE PassInv'
<1>0. PassTypes /\ PendingOf /\ ListingsOf /\ AsmExact
  BY DEF PassInv, NamesExact
<1>1. UNCHANGED <<query, mods, disk, keep, pending, asm>> /\ job.pc = "next"
  BY DEF NextModule, files
<1>2. NoJob \in Jobs /\ NoJob.k = 0
  <2>1. <<>> \in Seq(Int)
    OBVIOUS
  <2> QED BY <2>1 DEF NoJob, Jobs
<1>3. CASE job.k = Len(mods)
  <2>1. job' = [NoJob EXCEPT !.pc = "append"]
    BY <1>3 DEF NextModule
  <2>2. job' \in Jobs /\ job'.pc = "append" /\ job'.k = 0
    BY <1>2, <2>1 DEF Jobs
  <2>3. Len(mods) \in Nat
    BY <1>0 DEF PassTypes
  <2>4. PassTypes'
    BY <1>0, <1>1, <2>2, <2>3 DEF PassTypes, InModule
  <2> QED BY <1>0, <1>1, <2>2, <2>4, OutsideModules DEF InModule
<1>4. CASE job.k # Len(mods)
  <2> DEFINE n == job.k + 1
  <2>1. n \in Nat /\ n <= Len(mods) /\ n # 0 /\ job.k \in Nat
    BY <1>0, <1>4 DEF PassTypes, Jobs
  <2>2. job' = [NoJob EXCEPT !.pc = "pick", !.k = n]
    BY <1>4 DEF NextModule
  <2>3. \A i \in Nat : i <= job.k => i < n
    BY <2>1
  <2> HIDE DEF n
  <2>4. job' \in Jobs /\ job'.pc = "pick" /\ job'.k = n
    <3> DEFINE j == [NoJob EXCEPT !.pc = "pick"]
    <3>1. j \in Jobs
      BY <1>2 DEF Jobs, InModule
    <3>2. job' = [j EXCEPT !.k = n] /\ j.pc = "pick"
      BY <1>2, <2>2 DEF Jobs
    <3> HIDE DEF j
    <3> QED BY <2>1, <3>1, <3>2 DEF Jobs
  <2>5. PassTypes'
    BY <1>0, <1>1, <2>1, <2>4 DEF PassTypes, InModule
  <2>6. BytesTrue' /\ PcsTrue' /\ RangeTrue' /\ NamesServed' /\ NamesOwn'
    BY <2>4 DEF BytesTrue, PcsTrue, RangeTrue, NamesServed, Covered, Genuine, NamesOwn,
                JustNamed, NamesRight
  <2>7. PendingOf'
    BY <1>0, <1>1, <2>3, <2>4 DEF PendingOf
  <2>8. ListingsOf' /\ AsmExact'
    BY <1>0, <1>1 DEF ListingsOf, AsmExact, Covered, Genuine
  <2> QED BY <2>5, <2>6, <2>7, <2>8 DEF PassInv, NamesExact
<1> QED BY <1>3, <1>4

(* The bytes are taken from where the sampled ones are known to be.          *)
LEMMA PickStep == ASSUME PassInv, PickBytes PROVE PassInv'
<1>0. PassTypes /\ PendingOf /\ ListingsOf /\ AsmExact
  BY DEF PassInv, NamesExact
<1>1. UNCHANGED <<disk, keep, query, mods, pending, asm>> /\ ranges' = <<>>
      /\ job.pc = "pick" /\ M.path # "kernel"
  BY DEF PickBytes, files, clear_modules
<1>2. M \in Modules /\ RowOK(M) /\ job.k # 0 /\ job \in Jobs
  BY <1>0, <1>1, InHandIs DEF InModule, PassTypes
<1>3. M.path \in ModulePaths /\ M.bin \in Bins /\ M.pcs \in Seq(Int) /\ M.bias \in Int
      /\ disk[M.path] \in Bins \cup {NoBin} /\ NoBin \notin Bins
  <2>1. M.pcs \in Seq(Nat)
    BY <1>2 DEF Modules
  <2>2. M.pcs \in Seq(Int)
    BY <2>1
  <2> QED BY <1>0, <1>1, <1>2, <2>2, SymbolizeAssumption DEF Modules, PassTypes
<1>4. Verifiable(M.id) => (recorded_path_matches(M) <=> disk[M.path] = M.bin)
  BY <1>2, <1>3, MatchIs DEF recorded_path_matches
<1> DEFINE next == IF M.kind = "off" THEN "translate" ELSE "load"
           Use(src) == job' = [job EXCEPT !.pc = next, !.src = src, !.pcs = M.pcs, !.base = M.bias]
           Fits(src) ==
             /\ src = "exe" => keep.exe[M.id] # NoBin
             /\ src = "recorded" =>
                  \/ recorded_path_matches(M)
                  \/ disk[M.path] = NoBin /\ M.id \notin keep.held /\ keep.exe[M.id] = NoBin
<1>5. \/ recorded_path_matches(M) /\ Use("recorded")
      \/ M.id \in keep.held /\ Use("held")
      \/ keep.exe[M.id] # NoBin /\ Use("exe")
      \/ /\ ~recorded_path_matches(M) /\ M.id \notin keep.held /\ keep.exe[M.id] = NoBin
         /\ \/ disk[M.path] = NoBin /\ Use("recorded")
            \/ disk[M.path] # NoBin /\ job' = [job EXCEPT !.pc = "asm"]
  BY DEF PickBytes
<1>6. ASSUME job' \in Jobs, job'.pc \in InModule, job'.k = job.k PROVE PassTypes' /\ M' = M
  BY <1>0, <1>1, <1>2, <1>6 DEF PassTypes, InModule, M
<1>7. ListingsOf' /\ AsmExact'
  BY <1>0, <1>1 DEF ListingsOf, AsmExact, Covered, Genuine
<1>8. ASSUME NEW src \in {"recorded", "held", "exe"}, Use(src), Fits(src)
      PROVE  PassInv'
  <2>1. job' \in Jobs /\ job'.pc = next /\ job'.k = job.k /\ job'.src = src /\ job'.pcs = M.pcs
        /\ job'.base = M.bias /\ job'.raced = job.raced /\ next \in {"translate", "load"}
    BY <1>2, <1>3, <1>8 DEF Jobs, InModule
  <2>2. PassTypes' /\ M' = M
    BY <1>6, <2>1 DEF InModule
  <2>3. BytesTrue'
    BY <1>1, <1>3, <1>4, <1>8, <2>1, <2>2 DEF BytesTrue, Exact, Covered, Genuine, AtHand, Chosen
  <2>4. PcsTrue'
    <3>1. job'.pc = "load" => M.kind # "off"
      BY <2>1
    <3> HIDE DEF next, Use
    <3> QED BY <1>3, <2>1, <2>2, <3>1 DEF PcsTrue, Base, Link
  <2>5. RangeTrue' /\ NamesOwn' /\ NamesServed'
    BY <2>1 DEF RangeTrue, NamesOwn, JustNamed, NamesRight, Covered, Genuine, NamesServed
  <2>6. PendingOf'
    <3> HIDE DEF next, Use
    <3> QED BY <1>0, <1>1, <2>1 DEF PendingOf, InModule
  <2> QED BY <1>7, <2>2, <2>3, <2>4, <2>5, <2>6 DEF PassInv, NamesExact
<1>9. ASSUME ~recorded_path_matches(M), M.id \notin keep.held, keep.exe[M.id] = NoBin,
             job' = [job EXCEPT !.pc = "asm"]
      PROVE  PassInv'
  <2>1. job' \in Jobs /\ job'.pc = "asm" /\ job'.k = job.k /\ job'.raced = job.raced
    BY <1>2, <1>9 DEF Jobs, InModule
  <2>2. PassTypes' /\ M' = M
    BY <1>6, <2>1 DEF InModule
  <2>3. BytesTrue' /\ PcsTrue' /\ RangeTrue'
    BY <1>1, <2>1 DEF BytesTrue, PcsTrue, RangeTrue
  <2>4. \A n \in 1 .. Len(pending) : pending[n].k \in Nat /\ pending[n].k < job.k
    BY <1>0, <1>1 DEF PendingOf, InModule
  <2>5. PendingOf'
    BY <1>0, <1>1, <1>2, <2>1, <2>4 DEF PendingOf, InModule, Jobs
  <2>6. NamesOwn'
    <3>1. pending # <<>> => Len(pending) \in 1 .. Len(pending)
      BY <1>0 DEF PendingOf
    <3>2. pending # <<>> => pending[Len(pending)].k # job.k
      BY <1>2, <2>4, <3>1 DEF Jobs
    <3> QED BY <1>1, <2>1, <3>2 DEF NamesOwn, JustNamed, NamesRight, Covered, Genuine
  <2>7. NamesServed'
    <3>1. Verifiable(M.id) => disk[M.path] # M.bin /\ keep.exe[M.id] # M.bin
      BY <1>3, <1>4, <1>9
    <3> QED BY <1>1, <1>9, <2>2, <3>1 DEF NamesServed, Covered
  <2> QED BY <1>7, <2>2, <2>3, <2>5, <2>6, <2>7 DEF PassInv, NamesExact
<1>10. CASE \E src \in {"recorded", "held", "exe"} : Use(src) /\ Fits(src)
  <2> HIDE DEF Use, Fits
  <2> QED BY <1>8, <1>10
<1>11. \/ \E src \in {"recorded", "held", "exe"} : Use(src) /\ Fits(src)
       \/ /\ ~recorded_path_matches(M) /\ M.id \notin keep.held /\ keep.exe[M.id] = NoBin
          /\ job' = [job EXCEPT !.pc = "asm"]
  <2> HIDE DEF Use
  <2> QED BY <1>5
<1> HIDE DEF Use, Fits
<1> QED BY <1>9, <1>10, <1>11

(* Kernel addresses are looked up where they were sampled.                   *)
LEMMA KernelStep == ASSUME PassInv, add_kernel_module PROVE PassInv'
<1>0. PassTypes /\ PendingOf /\ ListingsOf /\ AsmExact
  BY DEF PassInv, NamesExact
<1>1. UNCHANGED <<disk, keep, query, mods, pending, asm>> /\ job.pc = "pick" /\ M.path = "kernel"
      /\ job' = [job EXCEPT !.pc = "resolve", !.pcs = M.pcs, !.base = M.bias]
  BY DEF add_kernel_module, files
<1>2. M \in Modules /\ RowOK(M) /\ job.k # 0 /\ job \in Jobs
  BY <1>0, <1>1, InHandIs DEF InModule, PassTypes
<1>3. M.pcs \in Seq(Int) /\ M.bias \in Int /\ M.kind = "va"
  <2>1. M.pcs \in Seq(Nat)
    BY <1>2 DEF Modules
  <2>2. M.pcs \in Seq(Int)
    BY <2>1
  <2> QED BY <1>1, <1>2, <2>2 DEF Modules, RowOK
<1>4. job' \in Jobs /\ job'.pc = "resolve" /\ job'.k = job.k /\ job'.pcs = M.pcs
      /\ job'.base = M.bias
  BY <1>1, <1>2, <1>3 DEF Jobs, InModule
<1>5. PassTypes' /\ M' = M
  BY <1>0, <1>1, <1>2, <1>4 DEF PassTypes, InModule, M
<1>6. PcsTrue'
  BY <1>3, <1>4, <1>5 DEF PcsTrue, Base, Link
<1>7. RangeTrue'
  <2>1. PICK map, falls : /\ ranges' = <<SymRange(M.bias, MaxPc(M.pcs) + 1, map, falls, M.bin)>>
                          /\ map \in {[bin |-> M.bin, full |-> TRUE], NoMap}
    BY DEF add_kernel_module
  <2> DEFINE r == SymRange(M.bias, MaxPc(M.pcs) + 1, map, falls, M.bin)
  <2>2. r.base = Base(M) /\ r.map.bin \in {NoBin, M.bin} /\ r.bin = M.bin
        /\ r.end = MaxPc(M.pcs) + 1
    BY <1>3, <2>1 DEF SymRange, NoMap, Base
  <2>3. ranges' = <<r>>
    BY <2>1
  <2> HIDE DEF r
  <2>4. ranges'[1] = r /\ ranges' # <<>>
    BY <2>3
  <2> QED BY <1>1, <1>4, <1>5, <2>2, <2>3, <2>4 DEF RangeTrue, Own
<1>8. BytesTrue' /\ NamesOwn' /\ NamesServed'
  BY <1>4 DEF BytesTrue, NamesOwn, JustNamed, NamesRight, Covered, Genuine, NamesServed
<1>9. PendingOf' /\ ListingsOf' /\ AsmExact'
  BY <1>0, <1>1, <1>4 DEF PendingOf, ListingsOf, AsmExact, Covered, Genuine, InModule
<1> QED BY <1>5, <1>6, <1>7, <1>8, <1>9 DEF PassInv, NamesExact

(* Offsets are translated by the binary they were sampled in.                *)
LEMMA TranslateStep == ASSUME PassInv, Translate PROVE PassInv'
<1>0. PassTypes /\ PendingOf /\ ListingsOf /\ AsmExact /\ BytesTrue
  BY DEF PassInv, NamesExact
<1>1. UNCHANGED <<disk, keep, query, mods, ranges, pending, asm>> /\ job.pc = "translate"
      /\ M.path # "kernel" /\ M.kind = "off" /\ ranges = <<>>
  BY <1>0 DEF Translate, files, BytesTrue
<1>2. M \in Modules /\ RowOK(M) /\ job.k # 0 /\ job \in Jobs
  BY <1>0, <1>1, InHandIs DEF InModule, PassTypes
<1>3. M.path \in ModulePaths /\ M.bin \in Bins /\ M.pcs \in Seq(Nat)
      /\ Chosen \in Bins \cup {NoBin} /\ NoBin \notin Bins
  BY <1>0, <1>1, <1>2, SymbolizeAssumption DEF Modules, PassTypes, Chosen, RowOK
<1>4. Exact => Chosen \in {NoBin, M.bin} /\ (AtHand => Chosen = M.bin)
  BY <1>0, <1>1 DEF BytesTrue
<1> DEFINE pcs == [n \in 1 .. Len(M.pcs) |-> file_offset_to_vaddr(Chosen, M.pcs[n])]
<1>5. ASSUME job' \in Jobs, job'.pc \in InModule, job'.k = job.k, job'.raced = job.raced,
             job'.src = job.src
      PROVE  PassTypes' /\ M' = M /\ Chosen' = Chosen /\ (Exact' <=> Exact) /\ (AtHand' <=> AtHand)
  <2>1. PassTypes' /\ M' = M
    BY <1>0, <1>1, <1>2, <1>5 DEF PassTypes, InModule, M
  <2> QED BY <1>1, <1>5, <2>1 DEF Exact, Covered, Genuine, AtHand, Chosen
<1>6. ListingsOf' /\ AsmExact'
  BY <1>0, <1>1 DEF ListingsOf, AsmExact, Covered, Genuine
<1>7. \A n \in 1 .. Len(M.pcs) : M.pcs[n] \in Nat
  BY <1>3
<1>8. CASE /\ Chosen # NoBin
           /\ job' = [job EXCEPT !.pc = "load", !.pcs = pcs, !.base = 0]
  <2>1. Bin[Chosen].shift \in Nat
    BY <1>3, <1>8, SymbolizeAssumption
  <2>2. pcs \in Seq(Int) /\ Len(pcs) = Len(M.pcs)
    <3>1. \A n \in 1 .. Len(M.pcs) : pcs[n] \in Int
      BY <1>7, <2>1 DEF file_offset_to_vaddr
    <3> HIDE DEF pcs
    <3>2. pcs \in [1 .. Len(M.pcs) -> Int]
      BY <3>1, Zenon DEF pcs
    <3> QED BY <1>3, <3>2
  <2>3. \A n \in 1 .. Len(M.pcs) : pcs[n] = file_offset_to_vaddr(Chosen, M.pcs[n])
    OBVIOUS
  <2> HIDE DEF pcs
  <2>4. job' \in Jobs /\ job'.pc = "load" /\ job'.k = job.k /\ job'.raced = job.raced
        /\ job'.src = job.src /\ job'.pcs = pcs /\ job'.base = 0
    <3> DEFINE j == [job EXCEPT !.pc = "load", !.pcs = pcs]
               zero == 0
    <3>0. zero \in Int /\ zero = 0
      OBVIOUS
    <3>1. j \in Jobs /\ j.pc = "load" /\ j.k = job.k /\ j.raced = job.raced
          /\ j.src = job.src /\ j.pcs = pcs
      BY <1>2, <2>2 DEF Jobs, InModule
    <3>2. job' = [j EXCEPT !.base = zero]
      BY <1>8, <2>3 DEF pcs
    <3> HIDE DEF j, zero
    <3> QED BY <3>0, <3>1, <3>2 DEF Jobs
  <2>5. PassTypes' /\ M' = M /\ Chosen' = Chosen /\ (Exact' <=> Exact) /\ (AtHand' <=> AtHand)
    BY <1>5, <2>4 DEF InModule
  <2>6. BytesTrue'
    BY <1>0, <1>1, <2>4, <2>5 DEF BytesTrue
  <2>7. PcsTrue'
    BY <1>1, <1>4, <1>8, <2>2, <2>3, <2>4, <2>5 DEF PcsTrue, Base, Link
  <2>8. RangeTrue' /\ NamesOwn' /\ NamesServed'
    BY <2>4 DEF RangeTrue, NamesOwn, JustNamed, NamesRight, Covered, Genuine, NamesServed
  <2>9. PendingOf'
    BY <1>0, <1>1, <2>4 DEF PendingOf, InModule
  <2> QED BY <1>6, <2>5, <2>6, <2>7, <2>8, <2>9 DEF PassInv, NamesExact
<1>9. CASE /\ Chosen = NoBin \/ \A n \in 1 .. Len(M.pcs) : pcs[n] = -1
           /\ job' = [job EXCEPT !.pc = "asm"]
  <2>1. job' \in Jobs /\ job'.pc = "asm" /\ job'.k = job.k /\ job'.raced = job.raced
        /\ job'.src = job.src
    BY <1>2, <1>9 DEF Jobs, InModule
  <2>2. PassTypes' /\ M' = M /\ Chosen' = Chosen /\ (Exact' <=> Exact) /\ (AtHand' <=> AtHand)
    BY <1>5, <2>1 DEF InModule
  <2>3. BytesTrue' /\ PcsTrue' /\ RangeTrue'
    BY <1>1, <2>1 DEF BytesTrue, PcsTrue, RangeTrue
  <2>4. \A n \in 1 .. Len(pending) : pending[n].k \in Nat /\ pending[n].k < job.k
    BY <1>0, <1>1 DEF PendingOf, InModule
  <2>5. PendingOf'
    BY <1>0, <1>1, <1>2, <2>1, <2>4 DEF PendingOf, InModule, Jobs
  <2>6. NamesOwn'
    <3>1. pending # <<>> => Len(pending) \in 1 .. Len(pending)
      BY <1>0 DEF PendingOf
    <3>2. pending # <<>> => pending[Len(pending)].k # job.k
      BY <1>2, <2>4, <3>1 DEF Jobs
    <3> QED BY <1>1, <2>1, <3>2 DEF NamesOwn, JustNamed, NamesRight, Covered, Genuine
  <2>7. Exact /\ AtHand => \A pc \in ToSet(M.pcs) : pc \notin Bin[M.bin].text
    <3> SUFFICES ASSUME Exact, AtHand, NEW pc \in ToSet(M.pcs), pc \in Bin[M.bin].text
                 PROVE  FALSE
      OBVIOUS
    <3>1. Chosen = M.bin /\ Bin[M.bin].shift \in Nat
      BY <1>3, <1>4, SymbolizeAssumption
    <3>2. PICK n \in 1 .. Len(M.pcs) : pc = M.pcs[n]
      BY <1>3, ToSetIs
    <3>3. pcs[n] = pc + Bin[M.bin].shift /\ pcs[n] = -1
      BY <1>3, <1>9, <3>1, <3>2 DEF file_offset_to_vaddr
    <3> QED BY <1>7, <3>1, <3>2, <3>3
  <2>8. NamesServed'
    BY <1>1, <2>1, <2>2, <2>7 DEF NamesServed, Covered, Genuine, Exact, AtHand
  <2> QED BY <1>6, <2>2, <2>3, <2>5, <2>6, <2>8 DEF PassInv, NamesExact
<1> QED BY <1>8, <1>9 DEF Translate

(* One range is registered, of the bytes chosen and the names found for them.*)
LEMMA LoadStep == ASSUME PassInv, add_module_with_symbol_path PROVE PassInv'
<1>0. PassTypes /\ PendingOf /\ ListingsOf /\ AsmExact /\ BytesTrue /\ PcsTrue
  BY DEF PassInv, NamesExact
<1>1. UNCHANGED <<disk, keep, query, mods, pending, asm>> /\ job.pc = "load"
      /\ M.path # "kernel" /\ ranges = <<>> /\ job' = [job EXCEPT !.pc = "resolve"]
  BY <1>0 DEF add_module_with_symbol_path, files, BytesTrue
<1>2. job.k # 0 /\ job \in Jobs /\ M.bin \in Bins /\ NoBin \notin Bins
  BY <1>0, <1>1, InHandIs, SymbolizeAssumption DEF InModule, PassTypes, Modules
<1>3. job' \in Jobs /\ job'.pc = "resolve" /\ job'.k = job.k /\ job'.pcs = job.pcs
      /\ job'.base = job.base /\ job'.raced = job.raced
  BY <1>1, <1>2 DEF Jobs, InModule
<1>4. PassTypes' /\ M' = M
  BY <1>0, <1>1, <1>2, <1>3 DEF PassTypes, InModule, M
<1>5. (Exact' <=> Exact) /\ (AtHand' <=> AtHand)
  BY <1>1, <1>3, <1>4 DEF Exact, Covered, Genuine, AtHand
<1>6. PcsTrue'
  BY <1>0, <1>1, <1>3, <1>4, <1>5 DEF PcsTrue
<1>7. Exact => /\ job.base = Base(M)
               /\ Chosen \in {NoBin, M.bin} /\ (AtHand => Chosen = M.bin)
  BY <1>0, <1>1 DEF BytesTrue, PcsTrue
<1>8. RangeTrue'
  <2> DEFINE debug == keep.debug[M.id]
             map == CASE debug # NoBin /\ M.id \notin keep.broken -> [bin |-> debug, full |-> TRUE]
                      [] M.id \in keep.broken -> NoMap
                      [] OTHER -> [bin |-> Chosen, full |-> FALSE]
             falls == load_fallbacks(Chosen, SymbolCount(map))
             r == SymRange(job.base, MaxPc(job.pcs) + 1, map, falls, Chosen)
  <2>1. ranges' = <<r>>
    BY <1>1 DEF add_module_with_symbol_path
  <2>2. r.base = job.base /\ r.end = MaxPc(job.pcs) + 1 /\ r.map = map /\ r.falls = falls
        /\ r.bin = Chosen
    BY DEF SymRange
  <2>3. Exact => /\ map.bin \in {M.bin, NoBin, Chosen}
                 /\ M.id \notin keep.broken => map.bin \in {M.bin, Chosen}
    BY DEF NoMap, Exact, Covered, Genuine
  <2>4. falls # <<>> => Chosen # NoBin
    BY DEF load_fallbacks
  <2>5. falls = load_fallbacks(Chosen, SymbolCount(map))
    OBVIOUS
  <2> HIDE DEF map, falls
  <2>6. Exact => Own(r, M)
    BY <1>7, <2>2, <2>3, <2>4 DEF Own
  <2>7. Exact /\ AtHand /\ M.id \notin keep.broken => Full(r, M)
    BY <1>7, <2>2, <2>3, <2>5 DEF Full
  <2> HIDE DEF r
  <2>8. ranges'[1] = r /\ ranges' # <<>>
    BY <2>1
  <2> QED BY <1>1, <1>3, <1>4, <1>5, <2>1, <2>2, <2>6, <2>7, <2>8 DEF RangeTrue
<1>9. BytesTrue' /\ NamesOwn' /\ NamesServed'
  BY <1>3 DEF BytesTrue, NamesOwn, JustNamed, NamesRight, Covered, Genuine, NamesServed
<1>10. PendingOf' /\ ListingsOf' /\ AsmExact'
  BY <1>0, <1>1, <1>3 DEF PendingOf, ListingsOf, AsmExact, Covered, Genuine, InModule
<1> QED BY <1>4, <1>6, <1>8, <1>9, <1>10 DEF PassInv, NamesExact

(* What was sampled at an address, and where it is looked up.                *)
LEMMA LinkIs ==
  ASSUME NEW m \in Modules, NEW pc \in Nat
  PROVE  /\ Link(m, pc) \in Int /\ Base(m) \in Nat
         /\ Link(m, pc) # -1 /\ ZeroBased(m) => Link(m, pc) - Base(m) = Truth(m, pc)
         /\ (m.kind = "off" => pc \in Bin[m.bin].text) => Link(m, pc) # -1
<1>1. m.bin \in Bins /\ m.bias \in Nat /\ m.kind \in {"va", "off"}
  BY DEF Modules
<1>2. Bin[m.bin].shift \in Nat
  BY <1>1, SymbolizeAssumption
<1>3. CASE m.kind = "off"
  <2>1. Base(m) = 0 /\ (ZeroBased(m) => Truth(m, pc) = pc + Bin[m.bin].shift)
        /\ Link(m, pc) = IF pc \in Bin[m.bin].text THEN pc + Bin[m.bin].shift ELSE -1
    BY <1>2, <1>3 DEF Base, Link, Truth, ZeroBased, file_offset_to_vaddr
  <2> QED BY <1>2, <1>3, <2>1
<1>4. CASE m.kind = "va"
  BY <1>1, <1>4 DEF Base, Link, Truth
<1> QED BY <1>1, <1>3, <1>4

(* Every address is looked up in that range.                                 *)
LEMMA ResolveStep == ASSUME PassInv, ResolveAll PROVE PassInv'
<1>0. PassTypes /\ PendingOf /\ ListingsOf /\ AsmExact /\ PcsTrue /\ RangeTrue
  BY DEF PassInv, NamesExact
<1>1. UNCHANGED <<disk, keep, query, mods, ranges, asm>> /\ job.pc = "resolve"
      /\ job' = [job EXCEPT !.pc = "asm"]
  BY DEF ResolveAll, files
<1>2. job.k \in Nat \ {0} /\ job \in Jobs /\ M \in Modules /\ M.pcs # <<>>
  BY <1>0, <1>1, InHandIs DEF InModule, PassTypes, Jobs
<1>3. job' \in Jobs /\ job'.pc = "asm" /\ job'.k = job.k /\ job'.raced = job.raced
  BY <1>1, <1>2 DEF Jobs, InModule
<1>4. PassTypes' /\ M' = M
  BY <1>0, <1>1, <1>2, <1>3 DEF PassTypes, InModule, M
<1>5. (Exact' <=> Exact) /\ (AtHand' <=> AtHand)
  BY <1>1, <1>3, <1>4 DEF Exact, Covered, Genuine, AtHand
<1>6. BytesTrue' /\ PcsTrue' /\ RangeTrue' /\ ListingsOf' /\ AsmExact'
  BY <1>0, <1>1, <1>3, <1>4, <1>5
     DEF BytesTrue, PcsTrue, RangeTrue, ListingsOf, AsmExact, Covered, Genuine
<1>7. M.bin \in Bins /\ M.pcs \in Seq(Nat) /\ job.pcs \in Seq(Int) /\ Len(job.pcs) = Len(M.pcs)
      /\ (M.kind = "off" \/ M.bias \in Nat)
  BY <1>0, <1>1, <1>2 DEF Modules, Jobs, PcsTrue
<1>8. Exact => \A n \in 1 .. Len(M.pcs) : job.pcs[n] = Link(M, M.pcs[n]) /\ M.pcs[n] \in Nat
  BY <1>0, <1>1, <1>7 DEF PcsTrue
<1>9. PICK r : ranges = <<r>>
  BY <1>0, <1>1 DEF RangeTrue
<1>10. ranges # <<>> /\ ranges[1] = r
  BY <1>9
<1>11. /\ Exact => Own(r, M)
       /\ Exact /\ M.path # "kernel" /\ AtHand /\ M.id \notin keep.broken => Full(r, M)
       /\ r.end = MaxPc(job.pcs) + 1
  BY <1>0, <1>1, <1>10 DEF RangeTrue
<1> DEFINE found == {n \in 1 .. Len(M.pcs) :
                       job.pcs[n] # -1 /\ resolve(ranges, job.pcs[n]) # NoName}
           names == {[pc |-> M.pcs[n], name |-> resolve(ranges, job.pcs[n])] : n \in found}
           new == [k |-> job.k, names |-> names]
<1>12. pending' = IF found = {} THEN pending ELSE Append(pending, new)
  BY DEF ResolveAll
<1>13. new.k = job.k /\ new.names = names
  OBVIOUS
<1>14. ASSUME Exact, NEW x \in names PROVE x.name.bin = M.bin /\ x.name.at = Truth(M, x.pc)
  <2>1. PICK n \in 1 .. Len(M.pcs) :
          /\ job.pcs[n] # -1 /\ resolve(ranges, job.pcs[n]) # NoName
          /\ x = [pc |-> M.pcs[n], name |-> resolve(ranges, job.pcs[n])]
    OBVIOUS
  <2>2. x.pc = M.pcs[n] /\ x.name = resolve(<<r>>, job.pcs[n])
    BY <1>9, <2>1
  <2>3. job.pcs[n] = Link(M, M.pcs[n]) /\ M.pcs[n] \in Nat
    BY <1>8, <1>14
  <2>4. job.pcs[n] \in Int /\ job.pcs[n] - Base(M) = Truth(M, M.pcs[n])
    BY <1>2, <1>14, <2>1, <2>3, LinkIs DEF Exact, Covered, Genuine
  <2>5. resolve(<<r>>, job.pcs[n]) # NoName
    BY <1>9, <2>1
  <2>6. /\ resolve(<<r>>, job.pcs[n]).bin = M.bin
        /\ resolve(<<r>>, job.pcs[n]).at = job.pcs[n] - Base(M)
    BY <1>7, <1>11, <1>14, <2>4, <2>5, ResolveOwn
  <2> QED BY <2>2, <2>4, <2>6
<1>15. ASSUME Exact, M.path # "kernel", AtHand, M.id \notin keep.broken,
              NEW pc \in ToSet(M.pcs), M.kind = "off" => pc \in Bin[M.bin].text,
              Truth(M, pc) \in Nameable(M.bin)
       PROVE  found # {} /\ \E x \in names : x.pc = pc /\ x.name.real
  <2>1. PICK n \in 1 .. Len(M.pcs) : pc = M.pcs[n]
    BY <1>7, ToSetIs
  <2> DEFINE a == job.pcs[n]
  <2>2. a = Link(M, pc) /\ pc \in Nat
    BY <1>8, <1>15, <2>1
  <2>3. a \in Int /\ a # -1 /\ a - Base(M) = Truth(M, pc)
    BY <1>2, <1>15, <2>2, LinkIs DEF Exact, Covered, Genuine
  <2>4. a < r.end
    <3>1. job.pcs # <<>> /\ n \in 1 .. Len(job.pcs)
      BY <1>2, <1>7
    <3>2. MaxPc(job.pcs) \in Int /\ a <= MaxPc(job.pcs)
      BY <1>7, <3>1, MaxIs
    <3> HIDE DEF a
    <3> QED BY <1>11, <2>3, <3>2
  <2>5. resolve(<<r>>, a) # NoName /\ resolve(<<r>>, a).real
    <3>1. Own(r, M) /\ Full(r, M)
      BY <1>11, <1>15
    <3> HIDE DEF a
    <3> QED BY <1>7, <1>15, <2>3, <2>4, <3>1, ResolveFull
  <2>6. n \in found
    BY <1>9, <2>3, <2>5
  <2> DEFINE x == [pc |-> M.pcs[n], name |-> resolve(ranges, job.pcs[n])]
  <2>7. x \in names
    BY <2>6
  <2>8. x.pc = pc /\ x.name.real
    BY <1>9, <2>1, <2>5
  <2> QED BY <2>6, <2>7, <2>8
<1> HIDE DEF found, names, new
<1>16. \A n \in 1 .. Len(pending) : pending[n].k \in Nat /\ pending[n].k < job.k
  BY <1>0, <1>1 DEF PendingOf, InModule
<1>17. CASE found = {}
  <2>1. pending' = pending
    BY <1>12, <1>17
  <2>2. PendingOf'
    BY <1>0, <1>1, <1>2, <1>3, <1>16, <2>1 DEF PendingOf, InModule
  <2>3. NamesOwn'
    <3>1. pending # <<>> => Len(pending) \in 1 .. Len(pending)
      BY <1>0 DEF PendingOf
    <3>2. pending # <<>> => pending[Len(pending)].k # job.k
      BY <1>2, <1>16, <3>1
    <3> QED BY <1>3, <2>1, <3>2 DEF NamesOwn, JustNamed, NamesRight, Covered, Genuine
  <2>4. NamesServed'
    BY <1>1, <1>3, <1>4, <1>15, <1>17 DEF NamesServed, Covered, Genuine, Exact, AtHand
  <2> QED BY <1>4, <1>6, <2>2, <2>3, <2>4 DEF PassInv, NamesExact
<1>18. CASE found # {}
  <2>1. pending' = Append(pending, new)
    BY <1>12, <1>18
  <2>2. PICK S : pending \in Seq(S)
    BY <1>0 DEF PendingOf
  <2> DEFINE T == S \cup {new}
             n == Len(pending) + 1
  <2>3. pending \in Seq(T) /\ new \in T
    BY <2>2
  <2> HIDE DEF T
  <2>4. /\ pending' \in Seq(T) /\ Len(pending') = n /\ pending'[n] = new /\ pending' # <<>>
        /\ \A j \in 1 .. n : j = n \/ (j \in 1 .. Len(pending) /\ pending'[j] = pending[j])
        /\ n \in 1 .. Len(pending')
    BY <2>1, <2>3
  <2> HIDE DEF n
  <2>5. PendingOf'
    <3>1. \A j \in 1 .. Len(pending') : pending'[j].k \in Nat /\ pending'[j].k <= job.k
      BY <1>2, <1>13, <1>16, <2>4
    <3> QED BY <1>3, <2>4, <3>1 DEF PendingOf, InModule
  <2>6. NamesOwn'
    BY <1>4, <1>5, <1>13, <1>14, <2>4 DEF NamesOwn, JustNamed, NamesRight, Covered,
                                          Genuine, Exact
  <2>7. NamesServed'
    BY <1>1, <1>3, <1>4, <1>13, <1>15, <2>4 DEF NamesServed, Covered, Genuine, Exact, AtHand
  <2> QED BY <1>4, <1>6, <2>5, <2>6, <2>7 DEF PassInv, NamesExact
<1> QED BY <1>17, <1>18

(* The elements of a sequence are finitely many.                             *)
LEMMA ToSetFinite == ASSUME NEW S, NEW s \in Seq(S) PROVE IsFiniteSet(ToSet(s))
<1> DEFINE n == Len(s)
<1>1. n \in Nat /\ s \in [1 .. n -> ToSet(s)]
  BY ToSetIs
<1>2. \A y \in ToSet(s) : \E i \in 1 .. n : s[i] = y
  BY ToSetIs
<1>3. s \in Surjection(1 .. n, ToSet(s))
  BY <1>1, <1>2 DEF Surjection
<1>4. IsFiniteSet(1 .. n)
  BY <1>1, FS_Interval
<1> QED BY <1>3, <1>4, FS_Surjection

(* A listing is made of the bytes its names are of.                          *)
LEMMA DisassembleStep == ASSUME PassInv, Disassemble PROVE PassInv'
<1>0. PassTypes /\ PendingOf /\ ListingsOf /\ AsmExact /\ RangeTrue
  BY DEF PassInv, NamesExact
<1>1. UNCHANGED <<disk, keep, query, mods, ranges, pending>> /\ job.pc = "asm"
      /\ job' = [job EXCEPT !.pc = "next"]
  BY DEF Disassemble, files
<1>2. job.k \in 1 .. Len(mods) /\ job \in Jobs /\ M \in Modules /\ RowOK(M)
  BY <1>0, <1>1, InHandIs DEF InModule, PassTypes
<1>3. job' \in Jobs /\ job'.pc = "next" /\ job'.k = job.k
  BY <1>1, <1>2 DEF Jobs
<1>4. PassTypes'
  BY <1>0, <1>1, <1>2, <1>3 DEF PassTypes, InModule
<1>5. BytesTrue' /\ PcsTrue' /\ RangeTrue' /\ NamesOwn' /\ NamesServed'
  BY <1>3 DEF BytesTrue, PcsTrue, RangeTrue, NamesOwn, JustNamed, NamesRight, Covered,
              Genuine, NamesServed
<1>6. PendingOf'
  BY <1>0, <1>1, <1>3 DEF PendingOf, InModule
<1> DEFINE labels == {resolve(ranges, pc) : pc \in ToSet(M.pcs)} \ {NoName}
           listing == {[k |-> job.k, raced |-> job.raced, name |-> n, bytes |-> disk[M.path]] :
                         n \in labels}
<1>7. CASE asm' = asm
  <2>1. ListingsOf' /\ AsmExact'
    BY <1>0, <1>1, <1>7 DEF ListingsOf, AsmExact, Covered, Genuine
  <2> QED BY <1>4, <1>5, <1>6, <2>1 DEF PassInv, NamesExact
<1>8. CASE /\ M.path # "kernel" /\ recorded_path_matches(M)
           /\ asm' = asm \o SetToSeq(listing)
  <2>1. M.path \in ModulePaths /\ M.bin \in Bins /\ M.pcs \in Seq(Nat)
        /\ disk[M.path] \in Bins
    BY <1>0, <1>2, <1>8 DEF Modules, PassTypes, recorded_path_matches
  <2>2. Verifiable(M.id) => disk[M.path] = M.bin
    BY <1>2, <1>8, <2>1, MatchIs DEF recorded_path_matches
  <2>3. ASSUME Exact, NEW n \in labels PROVE n.bin = M.bin
    <3>1. PICK pc \in ToSet(M.pcs) : n = resolve(ranges, pc) /\ n # NoName
      OBVIOUS
    <3>2. pc \in Nat
      BY <2>1, ToSetIs
    <3>3. PICK r : ranges = <<r>>
      BY <1>0, <1>1, <3>1, ResolveNone DEF RangeTrue
    <3>4. Own(r, M)
      <4>1. ranges # <<>> /\ ranges[1] = r
        BY <3>3
      <4> QED BY <1>0, <1>1, <2>3, <4>1 DEF RangeTrue
    <3> QED BY <2>1, <3>1, <3>2, <3>3, <3>4, ResolveOwn
  <2>4. \A x \in listing : /\ x.k = job.k /\ x.raced = job.raced /\ x.bytes = disk[M.path]
                           /\ x.name \in labels
    OBVIOUS
  <2>5. IsFiniteSet(listing)
    <3> DEFINE pcs == ToSet(M.pcs)
               all == {resolve(ranges, pc) : pc \in pcs}
               f == [pc \in pcs |-> resolve(ranges, pc)]
               g == [n \in labels |->
                       [k |-> job.k, raced |-> job.raced, name |-> n, bytes |-> disk[M.path]]]
    <3>1. IsFiniteSet(pcs)
      BY <2>1, ToSetFinite
    <3>2. IsFiniteSet(all)
      <4>1. f \in Surjection(pcs, all)
        <5> HIDE DEF pcs
        <5> QED BY Zenon DEF Surjection
      <4> HIDE DEF pcs, all, f
      <4> QED BY <3>1, <4>1, FS_Surjection
    <3>3. IsFiniteSet(labels)
      <4> HIDE DEF all
      <4>1. labels \in SUBSET all
        BY DEF all
      <4> HIDE DEF labels
      <4> QED BY <3>2, <4>1, FS_Subset
    <3>4. g \in Surjection(labels, listing)
      <4> HIDE DEF labels
      <4> QED BY Zenon DEF Surjection
    <3> HIDE DEF labels, listing, g
    <3> QED BY <3>3, <3>4, FS_Surjection
  <2> DEFINE new == SetToSeq(listing)
  <2>6. new \in Seq(listing)
    <3> HIDE DEF listing
    <3> QED BY <2>5, SetToSeqIs
  <2> HIDE DEF listing, labels
  <2>7. PICK S : asm \in Seq(S)
    BY <1>0 DEF ListingsOf
  <2> DEFINE T == S \cup listing
             l == Len(asm)
  <2>8. asm \in Seq(T) /\ new \in Seq(T)
    <3> HIDE DEF new
    <3> QED BY <2>6, <2>7
  <2>9. \A j \in 1 .. Len(new) : new[j] \in listing
    <3> HIDE DEF new
    <3> QED BY <2>6
  <2> HIDE DEF T
  <2>10. /\ asm' \in Seq(T)
         /\ \A i \in 1 .. Len(asm') :
              \/ i \in 1 .. Len(asm) /\ asm'[i] = asm[i]
              \/ asm'[i] \in listing
    <3> HIDE DEF new
    <3>1. asm' = asm \o new
      BY <1>8 DEF new
    <3>2. \A i \in 1 .. Len(asm \o new) :
            \/ i \in 1 .. Len(asm) /\ (asm \o new)[i] = asm[i]
            \/ i - Len(asm) \in 1 .. Len(new) /\ (asm \o new)[i] = new[i - Len(asm)]
      BY <2>8
    <3>3. asm \o new \in Seq(T)
      BY <2>8
    <3> QED BY <2>9, <3>1, <3>2, <3>3
  <2>11. ListingsOf'
    BY <1>0, <1>1, <1>2, <2>4, <2>10 DEF ListingsOf
  <2>12. ASSUME NEW i \in 1 .. Len(asm'), asm'[i] \in listing,
                Covered(mods[asm'[i].k]), ~asm'[i].raced
         PROVE  asm'[i].name.bin = asm'[i].bytes
    <3>1. Exact
      BY <2>4, <2>12 DEF Exact, Covered, Genuine, M
    <3>2. asm'[i].name.bin = M.bin
      BY <2>3, <2>4, <2>12, <3>1
    <3> QED BY <2>2, <2>4, <2>12, <3>1, <3>2 DEF Exact, Covered, Genuine
  <2>13. AsmExact'
    BY <1>0, <1>1, <2>10, <2>12 DEF AsmExact, Covered, Genuine
  <2> QED BY <1>4, <1>5, <1>6, <2>11, <2>13 DEF PassInv, NamesExact
<1> QED BY <1>7, <1>8 DEF Disassemble

(* What is written, and whether it can be, changes no name.                  *)
LEMMA OutputStep ==
  ASSUME PassInv, AppendSymbols \/ AppendNone \/ append_sidecar \/ report
  PROVE  PassInv'
<1>0. PassTypes /\ PendingOf /\ ListingsOf /\ AsmExact
  BY DEF PassInv, NamesExact
<1>1. UNCHANGED <<disk, keep, query, mods, pending, asm>> /\ job.pc \notin InModule \cup {"query"}
      /\ \/ \E pc \in {"sidecar", "report", "done"} : job' = [job EXCEPT !.pc = pc]
         \/ job' = [job EXCEPT !.pc = "done", !.counted = TRUE]
  BY DEF AppendSymbols, AppendNone, append_sidecar, report, append_bytes, files, InModule
<1>2. job' \in Jobs /\ job'.k = job.k /\ job'.pc \in {"sidecar", "report", "done"}
  BY <1>0, <1>1 DEF PassTypes, Jobs
<1>3. PassTypes'
  BY <1>0, <1>1, <1>2 DEF PassTypes, InModule
<1> QED BY <1>0, <1>1, <1>2, <1>3, OutsideModules DEF InModule

(* A file that changes in hand ends what is claimed of its module.           *)
LEMMA EditStep ==
  ASSUME PassInv, NEW p \in ModulePaths, NEW b \in Bins \cup {NoBin}, Edit(p, b)
  PROVE  PassInv'
<1>0. PassTypes /\ PendingOf /\ ListingsOf /\ AsmExact /\ BytesTrue /\ PcsTrue /\ RangeTrue
      /\ NamesOwn /\ NamesServed
  BY DEF PassInv, NamesExact
<1> DEFINE raced == job.raced \/ (job.k > 0 /\ mods[job.k].path = p)
<1>1. UNCHANGED <<keep, query, mods, ranges, pending, asm>> /\ disk' = [disk EXCEPT ![p] = b]
      /\ job' = [job EXCEPT !.raced = raced]
  BY DEF Edit
<1>2. raced \in BOOLEAN /\ job \in Jobs
  BY <1>0 DEF PassTypes, Jobs
<1>3. (job.raced => raced) /\ (job.k # 0 /\ ~raced => M.path # p)
  BY <1>2 DEF Jobs, M
<1> HIDE DEF raced
<1>4. job' \in Jobs /\ job'.pc = job.pc /\ job'.k = job.k /\ job'.src = job.src
      /\ job'.pcs = job.pcs /\ job'.base = job.base /\ job'.raced = raced
  BY <1>1, <1>2 DEF Jobs
<1>5. PassTypes' /\ M' = M
  BY <1>0, <1>1, <1>4 DEF PassTypes, M
<1>6. ASSUME job.pc \in InModule, Exact', M.path # "kernel"
      PROVE  Exact /\ disk'[M.path] = disk[M.path]
  <2>1. job.k # 0 /\ M.path \in ModulePaths
    BY <1>0, <1>6, InHandIs DEF PassTypes, Modules
  <2> QED BY <1>0, <1>1, <1>3, <1>4, <1>5, <1>6, <2>1 DEF Exact, Covered, Genuine, PassTypes
<1>7. Exact' => Exact
  BY <1>1, <1>3, <1>4, <1>5 DEF Exact, Covered, Genuine, ZeroBased
<1>8. BytesTrue'
  <2>1. ASSUME job.pc \in {"translate", "load"}, Exact', M.path # "kernel"
        PROVE  Exact /\ Chosen' = Chosen /\ (AtHand' <=> AtHand)
    BY <1>1, <1>4, <1>5, <1>6, <2>1 DEF InModule, Chosen, AtHand
  <2> HIDE DEF Exact, Chosen, AtHand
  <2> QED BY <1>0, <1>1, <1>4, <1>5, <2>1 DEF BytesTrue
<1>9. PcsTrue'
  BY <1>0, <1>4, <1>5, <1>7 DEF PcsTrue
<1>10. RangeTrue'
  BY <1>0, <1>1, <1>4, <1>5, <1>6, <1>7 DEF RangeTrue, InModule, AtHand
<1>11. PendingOf' /\ ListingsOf' /\ AsmExact'
  BY <1>0, <1>1, <1>4 DEF PendingOf, ListingsOf, AsmExact, Covered, Genuine
<1>12. NamesOwn'
  BY <1>0, <1>1, <1>4, <1>5, <1>7 DEF NamesOwn, JustNamed, NamesRight, Covered, Genuine, Exact
<1>13. NamesServed'
  <2>1. job'.pc = "asm" /\ M'.path # "kernel" /\ Covered(M)' /\ ~job'.raced
          => job.pc \in InModule /\ Exact' /\ M.path # "kernel"
    BY <1>4, <1>5 DEF Exact, Covered, Genuine, InModule
  <2> QED BY <1>0, <1>1, <1>4, <1>5, <1>6, <2>1 DEF NamesServed, Covered, Genuine, Exact
<1> QED BY <1>5, <1>8, <1>9, <1>10, <1>11, <1>12, <1>13 DEF PassInv, NamesExact

(* The inductive invariant of the pass, for any binaries, answers of the     *)
(* query, sources kept and files rebuilt on the way.                         *)
THEOREM PassInvariant == SymSpec => []PassInv
<1>1. PassInv /\ [SymNext]_symVars => PassInv'
  <2> SUFFICES ASSUME PassInv, [SymNext]_symVars PROVE PassInv'
    OBVIOUS
  <2>1. ASSUME NEW p \in ModulePaths, NEW b \in Bins \cup {NoBin}, Edit(p, b) PROVE PassInv'
    BY <2>1, EditStep, SMTT(30)
  <2>2. CASE QueryRow \/ QueryEnds
    BY <2>2, QueryStep
  <2>3. CASE NextModule
    BY <2>3, NextStep
  <2>4. CASE PickBytes
    BY <2>4, PickStep
  <2>5. CASE add_kernel_module
    BY <2>5, KernelStep
  <2>6. CASE Translate
    BY <2>6, TranslateStep
  <2>7. CASE add_module_with_symbol_path
    BY <2>7, LoadStep
  <2>8. CASE ResolveAll
    BY <2>8, ResolveStep
  <2>9. CASE Disassemble
    BY <2>9, DisassembleStep
  <2>10. CASE AppendSymbols \/ AppendNone \/ append_sidecar \/ report
    BY <2>10, OutputStep
  <2>11. CASE UNCHANGED symVars
    <3>1. UNCHANGED <<disk, keep, query, mods, job, ranges, pending, asm>>
      BY <2>11 DEF symVars
    <3>2. M' = M
      BY <3>1 DEF M
    <3>3. (Covered(M)' <=> Covered(M)) /\ Chosen' = Chosen
      BY <3>1, <3>2 DEF Covered, Genuine, ZeroBased, Chosen
    <3>4. BytesTrue' /\ PcsTrue' /\ RangeTrue'
      BY <3>1, <3>2, <3>3 DEF PassInv, BytesTrue, PcsTrue, RangeTrue, Exact, AtHand
    <3>5. NamesOwn' /\ NamesServed'
      BY <3>1, <3>2, <3>3 DEF PassInv, NamesExact, NamesOwn, JustNamed, NamesRight, NamesServed
    <3>6. PassTypes' /\ PendingOf' /\ ListingsOf'
      BY <3>1 DEF PassInv, PassTypes, PendingOf, ListingsOf
    <3>7. AsmExact'
      BY <3>1 DEF PassInv, NamesExact, AsmExact, Covered, Genuine, ZeroBased
    <3> QED BY <3>4, <3>5, <3>6, <3>7 DEF PassInv, NamesExact
  <2> QED BY <2>1, <2>2, <2>3, <2>4, <2>5, <2>6, <2>7, <2>8, <2>9, <2>10, <2>11 DEF SymNext
<1> QED BY <1>1, PassStart, PTL DEF SymSpec

(* What the pass says of an address is of the bytes that were sampled there. *)
THEOREM NamesAreExact == SymSpec => []NamesExact
<1>1. PassInv => NamesExact
  BY DEF PassInv
<1> QED BY <1>1, PassInvariant, PTL

(* Bytes that are at hand are put to use.                                    *)
THEOREM NamesAreServed == SymSpec => []NamesServed
<1>1. PassInv => NamesServed
  BY DEF PassInv
<1> QED BY <1>1, PassInvariant, PTL
=============================================================================
