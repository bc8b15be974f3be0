---------------------------- MODULE UnwindTables ----------------------------
(***************************************************************************)
(* The in-kernel unwinder's tables: sismo-core/src/cpu/unwind_tables.rs     *)
(* (the loader thread), sismo-symbolize/src/proc_maps.rs (the target's      *)
(* mappings it loads from) and the lookups of the BPF walker that reads     *)
(* them (csrc/sismo_bpf/sismo_unwind.bpf.h).  The walker may run between    *)
(* any two map updates of the loader; the target maps, unmaps and replaces  *)
(* modules meanwhile.                                                      *)
(***************************************************************************)
EXTENDS Integers, Sequences, SequencesExt, FiniteSets

CONSTANTS Bits,        \* address bits
          PageBits,    \* UNWIND_INFO_PAGE_BIT_LEN
          Img,         \* images: [path, kind, hdr (not executable), span, rows, home]
          Homes,       \* where a position independent image may be mapped
          MaxRows,     \* SISMO_UNWIND_MAX_ROWS
          MaxPings,    \* pings of the capture worker
          MaxMoves     \* changes of the target's mappings and files

Images == DOMAIN Img
Addr == 0 .. 2^Bits - 1
Files == {i \in Images : Img[i].kind \in {"dyn", "exec", "go"}}
PathsOf == {Img[i].path : i \in Files}
Unmapped == -1
InCode(i, b, a) == a >= b + Img[i].hdr /\ a < b + Img[i].span
HIGH_PC(a) == (a \div 2^PageBits) * 2^PageBits
LOW_PC(a) == a % 2^PageBits

(* Rows ascend, and a page has fewer rows than bytes: MAX_BINARY_SEARCH_DEPTH *)
(* is one short of what a page with a row at every byte would need.          *)
ASSUME UnwindAssumption ==
  /\ Bits \in Nat /\ PageBits \in Nat /\ Homes \subseteq Nat /\ Images \subseteq Nat
  /\ \A i \in Images : Img[i].hdr \in Nat /\ Img[i].span \in Nat /\ Img[i].home \in Nat
  /\ \A i \in Images : LET r == Img[i].rows IN
       /\ \A k \in 1 .. Len(r) - 1 : r[k] < r[k + 1]
       /\ \A p \in Addr : Cardinality({k \in 1 .. Len(r) : HIGH_PC(r[k]) = p}) < 2^PageBits

VARIABLES at,      \* per image: its base in the target, Unmapped if none
          file,    \* per path: the image the file there has now
          moves,   \* changes of `at` and `file` so far
          owners,  \* ghost: per address, the images ever mapped executable there, with their base
          swapped, \* ghost: paths whose file was replaced
          gone,    \* the target exited
          pings,   \* the channel: queued pings, sent so far, sender dropped
          due,     \* ghost: images mapped when the loader was last asked to load
          ld,      \* the loader thread
          tables   \* what the BPF maps hold, and the loader's `loaded` set
uwVars == <<at, file, moves, owners, swapped, gone, pings, due, ld, tables>>
target == <<at, file, moves, owners, swapped, gone>>

------------------------------------------------------------------------------
(* proc_maps.rs.                                                            *)

(* The lines of /proc/<pid>/maps: a header and an executable line per file,  *)
(* the vdso and anonymous code one line each.                                *)
LinesOf(i, b) ==
  LET line(s, e, x) == [start |-> b + s, end |-> b + e, exec |-> x, img |-> i,
                        path |-> Img[i].path, kind |-> Img[i].kind]
      h == Img[i].hdr
  IN (IF h > 0 THEN {line(0, h, FALSE)} ELSE {}) \cup {line(h, Img[i].span, TRUE)}
Lines(pos) == UNION {LinesOf(i, pos[i]) : i \in {j \in Images : pos[j] # Unmapped}}
(* Disjoint ranges in ascending order, as the kernel emits them and as they  *)
(* stay through every filter.                                                *)
Ascending(ranges) ==
  [k \in 1 .. Cardinality(ranges) |->
     CHOOSE r \in ranges : Cardinality({q \in ranges : q.start < r.start}) = k - 1]

(* parse_line keeps absolute paths: not the vdso, nothing anonymous.         *)
parse_line(l) == l.kind \in {"dyn", "exec", "go"}

(* parse_text: pass 1 takes a file's base from all of its lines, pass 2      *)
(* keeps the executable ones.                                                *)
base_of(lines, p) ==
  LET starts == {l.start : l \in {m \in lines : m.path = p}}
  IN CHOOSE s \in starts : \A t \in starts : s <= t
parse_text(lines) ==
  LET kept == {l \in lines : parse_line(l)}
  IN {[start |-> l.start, end |-> l.end, path |-> l.path, base |-> base_of(kept, l.path)] :
        l \in {m \in kept : m.exec}}

(* maps_common::find_range: index of the range with addr, 0 if there is none.*)
find_range(items, addr) ==
  LET step[b \in (0 .. Len(items)) \X (0 .. Len(items))] ==
        LET mid == b[1] + (b[2] - b[1]) \div 2
            r == items[mid + 1]
        IN IF b[1] >= b[2] THEN 0
           ELSE IF addr < r.start THEN step[<<b[1], mid>>]
           ELSE IF addr >= r.end THEN step[<<mid + 1, b[2]>>]
           ELSE mid + 1
  IN step[<<0, Len(items)>>]

(* ResidualMap: the region of a pc no file covers (partition_point), and the *)
(* label it gets; a region is named unless it is anonymous.                  *)
region(lines, addr) ==
  LET i == Cardinality({k \in 1 .. Len(lines) : lines[k].start <= addr})
  IN IF i > 0 /\ addr < lines[i].end THEN i ELSE 0
has_runtime(lines) == \E k \in 1 .. Len(lines) : lines[k].path = "libjvm"
residual_label(lines, addr) ==
  LET i == region(lines, addr)
  IN IF ~has_runtime(lines) THEN "none"
     ELSE IF i = 0 THEN "unmapped"
     ELSE IF lines[i].kind # "anon" THEN "none"
     ELSE IF lines[i].exec THEN "jit" ELSE "anon"

------------------------------------------------------------------------------
(* The tables.                                                              *)

NoTables == [rows |-> <<>>, pages |-> {}, lpm |-> {}, loaded |-> {}]

(* summarize_address_range: [low, high] as aligned power-of-two blocks.      *)
trailing_zeros(a) == IF a = 0 THEN Bits
                     ELSE CHOOSE k \in 0 .. Bits : a % 2^k = 0 /\ a % 2^(k + 1) # 0
log2(n) == CHOOSE k \in 0 .. Bits : 2^k <= n /\ n < 2^(k + 1)
summarize_address_range(low, high) ==
  LET blocks[c \in low .. high + 1] ==
        IF c > high THEN <<>>
        ELSE LET z == trailing_zeros(c)
                 l == log2(high - c + 1)
                 n == IF z < l THEN z ELSE l
             IN <<[addr |-> c, bits |-> n]>> \o blocks[c + 2^n]
  IN blocks[low]

(* elf_load_bias and go_unwind_rows: an ET_EXEC file's rows are at the       *)
(* addresses it was linked at, so its bias is 0; all others are relative to  *)
(* the image base (go_unwind_rows makes them so for either type).            *)
load_bias(i, base) == IF Img[i].kind = "exec" THEN 0 ELSE base
(* The rows of a file as the converter returns them; a row's rule is named   *)
(* by its image and place.                                                   *)
compact_unwind_info(i) ==
  [k \in 1 .. Len(Img[i].rows) |->
     [pc |-> Img[i].rows[k] + (IF Img[i].kind = "exec" THEN Img[i].home ELSE 0),
      img |-> i, rel |-> Img[i].rows[k]]]

(* to_pages: per page with a row, its rows as a range [low, high) of the     *)
(* module's, rebased to the flat array (external crate, used this way).      *)
to_pages(id, rows, start) ==
  {[id |-> id, page |-> p,
    low |-> start + Cardinality({k \in 1 .. Len(rows) : rows[k].pc < p}),
    high |-> start + Cardinality({k \in 1 .. Len(rows) : HIGH_PC(rows[k].pc) <= p})] :
     p \in {HIGH_PC(rows[k].pc) : k \in 1 .. Len(rows)}}

(* load_all groups the executable segments by image base.                    *)
by_module(maps) ==
  {[base |-> b, path |-> (CHOOSE m \in maps : m.base = b).path,
    segs |-> Ascending({m \in maps : m.base = b})] : b \in {m.base : m \in maps}}

Idle == [pc |-> "idle", todo |-> {}, pages |-> {}, blocks |-> <<>>]
(* UnwindLoader::spawn: the first load is made unasked.                      *)
UwInit ==
  /\ at \in [Images -> {Unmapped} \cup {Img[i].home : i \in Images} \cup Homes]
  /\ \A i \in Images : at[i] # Unmapped => at[i] = Img[i].home
  /\ \A i \in Images : Img[i].kind = "vdso" => at[i] # Unmapped
  /\ \A i, j \in Files : Img[i].path = Img[j].path /\ i < j => at[j] = Unmapped
  /\ file = [p \in PathsOf |-> CHOOSE i \in Files :
                Img[i].path = p /\ \A j \in Files : Img[j].path = p => i <= j]
  /\ moves = 0 /\ gone = FALSE /\ swapped = {}
  /\ owners = [a \in Addr |-> {<<i, at[i]>> : i \in {j \in Images : at[j] # Unmapped
                                                           /\ InCode(j, at[j], a)}}]
  /\ pings = [queued |-> 0, sent |-> 0, open |-> TRUE]
  /\ due = {i \in Files : at[i] # Unmapped}
  /\ ld = [Idle EXCEPT !.pc = "parse"]
  /\ tables = NoTables

------------------------------------------------------------------------------
(* The target.                                                              *)

Overlaps(i, b) == \E j \in Images : at[j] # Unmapped
                     /\ b < at[j] + Img[j].span /\ at[j] < b + Img[i].span
Map(i, b) ==
  /\ ~gone /\ moves < MaxMoves /\ at[i] = Unmapped /\ ~Overlaps(i, b)
  /\ b \in (IF Img[i].kind = "exec" THEN {Img[i].home} ELSE Homes)
  /\ i \in Files => file[Img[i].path] = i
  /\ b + Img[i].span <= 2^Bits
  /\ at' = [at EXCEPT ![i] = b] /\ moves' = moves + 1
  /\ owners' = [a \in Addr |-> IF InCode(i, b, a) THEN owners[a] \cup {<<i, b>>}
                               ELSE owners[a]]
  /\ UNCHANGED <<file, swapped, gone, pings, due, ld, tables>>
Unmap(i) ==
  /\ ~gone /\ moves < MaxMoves /\ at[i] # Unmapped /\ Img[i].kind # "vdso"
  /\ at' = [at EXCEPT ![i] = Unmapped] /\ moves' = moves + 1 /\ due' = due \ {i}
  /\ UNCHANGED <<file, owners, swapped, gone, pings, ld, tables>>
Replace(p, i) ==
  /\ moves < MaxMoves /\ i \in Files /\ Img[i].path = p /\ i # file[p]
  /\ file' = [file EXCEPT ![p] = i] /\ swapped' = swapped \cup {p} /\ moves' = moves + 1
  /\ UNCHANGED <<at, owners, gone, pings, due, ld, tables>>
Exit ==
  /\ ~gone /\ gone' = TRUE /\ due' = {}
  /\ UNCHANGED <<at, file, moves, owners, swapped, pings, ld, tables>>

------------------------------------------------------------------------------
(* The capture worker: load_unwind_tables pings, shutdown joins.            *)
Ping ==
  /\ pings.open /\ pings.sent < MaxPings
  /\ pings' = [pings EXCEPT !.queued = @ + 1, !.sent = @ + 1]
  /\ due' = IF gone THEN due ELSE due \cup {i \in Files : at[i] # Unmapped}
  /\ UNCHANGED <<target, ld, tables>>
Join ==
  /\ pings.open /\ pings' = [pings EXCEPT !.open = FALSE]
  /\ UNCHANGED <<target, due, ld, tables>>

------------------------------------------------------------------------------
(* The loader thread.                                                       *)

(* recv, then try_recv until the channel is empty, then the reload.          *)
Recv ==
  /\ ld.pc = "idle" /\ pings.queued > 0
  /\ pings' = [pings EXCEPT !.queued = 0]
  /\ ld' = [ld EXCEPT !.pc = "parse"]
  /\ UNCHANGED <<target, due, tables>>
LoaderExit ==
  /\ ld.pc = "idle" /\ pings.queued = 0 /\ ~pings.open
  /\ ld' = [ld EXCEPT !.pc = "exited"]
  /\ UNCHANGED <<target, due, pings, tables>>

(* ProcMaps::parse fails once the target is gone.                            *)
ParseMaps ==
  /\ ld.pc = "parse"
  /\ ld' = IF gone THEN Idle
           ELSE [ld EXCEPT !.pc = "load", !.todo = by_module(parse_text(Lines(at)))]
  /\ UNCHANGED <<target, due, pings, tables>>

(* install_rows 1: the rows, if they fit, behind those of earlier modules.   *)
\* Mutant: the rows are copied to the front, where those of others belong.
AppendFront(t, rows) == [t EXCEPT !.rows = rows \o @]
AppendRows(t, rows) == [t EXCEPT !.rows = @ \o rows]
install_rows(t, id, bias, rows, segs) ==
  IF rows = <<>> \/ Len(t.rows) + Len(rows) > MaxRows
  THEN /\ tables' = t /\ UNCHANGED ld
  ELSE LET blocks(s) == LET bs == summarize_address_range(s.start, s.end - 1)
                        IN [k \in 1 .. Len(bs) |->
                              [addr |-> bs[k].addr, bits |-> bs[k].bits, id |-> id,
                               bias |-> bias, begin |-> s.start, end |-> s.end]]
       IN /\ tables' = AppendRows(t, rows)
          /\ ld' = [ld EXCEPT !.pc = "install", !.pages = to_pages(id, rows, Len(t.rows)),
                              !.blocks = FlattenSeq([k \in 1 .. Len(segs) |-> blocks(segs[k])])]

(* One module of load_all.  A base is tried once, whatever comes of it: the  *)
(* path may name another image by now, and the conversion may fail.          *)
load_module(m) ==
  /\ ld.pc = "load" /\ m \in ld.todo /\ m.base \notin tables.loaded
  /\ LET i == file[m.path]
         t == [tables EXCEPT !.loaded = @ \cup {m.base}]
     IN \/ install_rows(t, m.base, load_bias(i, m.base), compact_unwind_info(i), m.segs)
        \/ tables' = t /\ UNCHANGED ld
  /\ UNCHANGED <<target, due, pings>>

(* The vdso is loaded last, from the recorder's own copy; /proc/<pid>/maps   *)
(* is read again for it.                                                     *)
load_vdso ==
  /\ ld.pc = "load" /\ \A m \in ld.todo : m.base \in tables.loaded
  /\ \E v \in Images :
       /\ Img[v].kind = "vdso" /\ ~gone /\ at[v] \notin tables.loaded
       /\ LET t == [tables EXCEPT !.loaded = @ \cup {at[v]}]
          IN \/ install_rows(t, at[v], at[v], compact_unwind_info(v),
                             <<[start |-> at[v], end |-> at[v] + Img[v].span]>>)
             \/ tables' = t /\ UNCHANGED ld
  /\ UNCHANGED <<target, due, pings>>
\* Mutant: pings are coalesced after the load instead of before.
CoalesceLast ==
  /\ ld.pc = "load" /\ \A m \in ld.todo : m.base \in tables.loaded
  /\ \A v \in Images : Img[v].kind = "vdso" => gone \/ at[v] \in tables.loaded
  /\ ld' = Idle /\ pings' = [pings EXCEPT !.queued = 0]
  /\ UNCHANGED <<target, due, tables>>
LoadDone ==
  /\ ld.pc = "load" /\ \A m \in ld.todo : m.base \in tables.loaded
  /\ \A v \in Images : Img[v].kind = "vdso" => gone \/ at[v] \in tables.loaded
  /\ ld' = Idle
  /\ UNCHANGED <<target, due, pings, tables>>

Abandoned == [ld EXCEPT !.pc = "load", !.pages = {}, !.blocks = <<>>]
(* install_rows 2: the page index; 3: the LPM entries that make the module   *)
(* visible.  An insert the kernel refuses ends the installation.             *)
InsertPage ==
  /\ ld.pc = "install" /\ ld.pages # {}
  /\ LET p == CHOOSE q \in ld.pages : \A r \in ld.pages : q.page <= r.page
     IN \/ /\ tables' = [tables EXCEPT !.pages = @ \cup {p}]
           /\ ld' = [ld EXCEPT !.pages = @ \ {p}]
        \/ ld' = Abandoned /\ UNCHANGED tables
  /\ UNCHANGED <<target, due, pings>>
(* An entry replaces one with the same prefix.                               *)
InsertMapping ==
  /\ ld.pc = "install" /\ ld.pages = {}
  /\ \/ /\ ld.blocks # <<>>
        /\ LET b == Head(ld.blocks)
           IN tables' = [tables EXCEPT !.lpm = {b} \cup {c \in @ : c.addr # b.addr
                                                                \/ c.bits # b.bits}]
        /\ ld' = [ld EXCEPT !.blocks = Tail(@)]
     \/ ld' = Abandoned /\ UNCHANGED tables
  /\ UNCHANGED <<target, due, pings>>

Loader == \/ Recv \/ LoaderExit \/ ParseMaps \/ LoadDone \/ load_vdso
          \/ \E m \in ld.todo : load_module(m)
          \/ InsertPage \/ InsertMapping
UwNext == \/ \E i \in Images : Unmap(i) \/ \E b \in Homes \cup {Img[i].home} : Map(i, b)
          \/ \E p \in PathsOf, i \in Images : Replace(p, i)
          \/ Exit \/ Ping \/ Join \/ Loader
UwSpec == UwInit /\ [][UwNext]_uwVars

------------------------------------------------------------------------------
(* The walker's lookups in one step: sismo_unwind_step up to the row.        *)

(* The longest prefix of the address in the trie.                            *)
unwind_find_mapping(a) ==
  LET hits == {b \in tables.lpm : b.addr <= a /\ a < b.addr + 2^b.bits}
  IN {b \in hits : \A c \in hits : b.bits <= c.bits}

(* unwind_search: the last row in [left, right) at or below the pc.          *)
unwind_search(low, left, right) ==
  LET step[s \in (left .. right) \X (left .. right) \X (-1 .. right)] ==
        LET mid == (s[1] + s[2]) \div 2
        IN IF s[1] >= s[2] THEN s[3]
           ELSE IF LOW_PC(tables.rows[mid + 1].pc) <= low
                THEN step[<<mid + 1, s[2], mid>>]
                ELSE step[<<s[1], mid, s[3]>>]
  IN step[<<left, right, -1>>]

(* The row a walk uses at pc a: the search in the page, then the row before  *)
(* the page's first (PREVIOUS_PAGE wraps for page 0, so it has none).        *)
Failed(why) == [err |-> why, img |-> 0, rel |-> 0]
Uses(row) == [err |-> "none", img |-> row.img, rel |-> row.rel]
Walk(a) ==
  LET hits == unwind_find_mapping(a)
      m == CHOOSE b \in hits : TRUE
      rel == a - m.bias
      pages == {p \in tables.pages : p.id = m.id /\ p.page = HIGH_PC(rel)}
      pg == CHOOSE p \in pages : TRUE
      found == unwind_search(LOW_PC(rel), pg.low, pg.high)
      prev == pg.low - 1
  IN IF hits = {} THEN Failed("mapping")
     ELSE IF a < m.begin \/ a >= m.end THEN Failed("mapping")
     ELSE IF pages = {} THEN Failed("page")
     ELSE IF found >= 0 THEN Uses(tables.rows[found + 1])
     ELSE IF /\ prev >= 0 /\ HIGH_PC(rel) > 0
             /\ rel > HIGH_PC(rel) - 2^PageBits + LOW_PC(tables.rows[prev + 1].pc)
          THEN Uses(tables.rows[prev + 1])
     ELSE Failed("search")

------------------------------------------------------------------------------
(* Properties.                                                              *)

(* The reference: the place of image i's row that covers a relative pc.      *)
CoveringRow(i, rel) ==
  LET below == {p \in ToSet(Img[i].rows) : p <= rel}
  IN CHOOSE p \in below : \A q \in below : q <= p
HasRowIn(i, page, bias) ==
  \E k \in 1 .. Len(Img[i].rows) : HIGH_PC(Img[i].rows[k] + bias) = page

(* Whenever the walker finds a mapping for a pc, between whatever steps of   *)
(* the loader, the row it uses is the sampled image's row that covers that   *)
(* pc ("readable by BPF the moment the page/mapping entries below land -     *)
(* ordering matters").  Not claimed for an address that two images had, for  *)
(* a file replaced at its path, or before the image's first row, where the   *)
(* fallback takes the last row of whatever module was loaded before.         *)
WalkExact ==
  \A a \in Addr : \A i \in {o[1] : o \in owners[a]} :
      LET home == IF Img[i].kind = "exec" THEN Img[i].home ELSE 0
          rel == a - at[i]
      IN /\ owners[a] = {<<i, at[i]>>}
         /\ Img[i].path \notin swapped /\ rel >= Img[i].rows[1]
         /\ unwind_find_mapping(a) # {}
         => IF HasRowIn(i, HIGH_PC(rel + home), home)
            THEN Walk(a) = Uses([img |-> i, rel |-> CoveringRow(i, rel)])
            ELSE Walk(a) = Failed("page")

(* When the maps are read: the binary search over them finds the executable  *)
(* line that contains a pc, with the base of its file's first line, and a    *)
(* residual label is given only outside every named region.                  *)
FindExact ==
  LET lines == Ascending(Lines(at))
      maps == Ascending(parse_text(Lines(at)))
  IN ld.pc = "parse" => \A a \in Addr :
       LET k == find_range(maps, a)
           in == {i \in Images : at[i] # Unmapped /\ a >= at[i] /\ a < at[i] + Img[i].span}
           code == {i \in in \cap Files : a >= at[i] + Img[i].hdr}
       IN /\ k = 0 <=> code = {}
          /\ \A i \in code : /\ maps[k].path = Img[i].path
                             /\ maps[k].path \notin swapped => maps[k].base = at[i]
          /\ residual_label(lines, a) = "jit" =>
               \E i \in in : Img[i].kind = "anon" /\ in = {i}
          /\ residual_label(lines, a) = "unmapped" => in = {}

(* Both ways an address is looked up, by the walker in the tables and by the *)
(* worker in the maps, find what was there.                                  *)
LookupsExact == WalkExact /\ FindExact

(* A module that was mapped when the worker asked for a reload has been      *)
(* tried by the time the loader waits for a ping, even if the ping came      *)
(* while it was busy or right before the join: pings merge, none is lost.    *)
TablesArrive ==
  ld.pc \in {"idle", "exited"} /\ pings.queued = 0 =>
    \A i \in due : at[i] \in tables.loaded \/ Img[i].path \in swapped
=============================================================================
