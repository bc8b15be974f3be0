------------------------------ MODULE Symbolize ------------------------------
(***************************************************************************)
(* The symbolization pass over a saved trace: sismo-symbolize/src/          *)
(* perf_symbolize.rs with symbolizer.rs, fallback.rs, byte_source.rs and    *)
(* elf.rs.  For every sampled module it picks the bytes to take names from  *)
(* (the recorded path, the inode the recorder held, the build-id cache),    *)
(* resolves the sampled addresses, and appends symbols, source text and     *)
(* disassembly to the trace.  Files are rebuilt while it runs.              *)
(***************************************************************************)
EXTENDS Integers, Sequences, SequencesExt, FiniteSets

CONSTANTS Bin,       \* binaries: [id, base, shift, text, syms, stubs, go, dyn, common]
          Strays,    \* binaries that may lie under another's id in the build-id directories
          MaxRel,    \* the greatest u32: what the symbol library can be asked for
          Queries,   \* answers of the trace query: sequences of rows
          MaxSrc,    \* MAX_SRC_BYTES
          MaxTotal,  \* MAX_TOTAL_SRC_BYTES
          MaxChunk,  \* MAX_CHUNK_BYTES
          SrcLen,    \* per binary: length of its source file
          AsmLen,    \* length of a function's listing
          MaxEdits   \* files replaced or removed during the pass

Bins == DOMAIN Bin
NoBin == 0
(* Build ids: 0 is none, a synthetic one names no bytes, the rest are real.  *)
IsSynthetic(id) == id >= 100
Verifiable(id) == id # 0 /\ ~IsSynthetic(id)
Ids == UNION {{q[k].id : k \in 1 .. Len(q)} : q \in Queries}
ModulePaths == UNION {{q[k].path : k \in 1 .. Len(q)} : q \in Queries} \ {"kernel"}

Rows == [path : ModulePaths \cup {"kernel"}, bin : Bins, id : Nat, kind : {"va", "off"},
         bias : Nat, pc : Nat]

(* A binary's base is its lowest link address, 0 if it is position-          *)
(* independent; its shift leads from file offsets to link addresses.  Names  *)
(* are kept relative to the base: by the symbol library (syms, and stubs     *)
(* without a name of their own), in the Go tables and in .dynsym; functions  *)
(* in `common` bear a name that others bear too.                             *)
(* Two real binaries never share an id.  A row says in which binary its      *)
(* address was sampled, whose id it carries if it has a real one; kernel     *)
(* addresses are virtual.                                                    *)
ASSUME SymbolizeAssumption ==
  /\ MaxChunk \in Nat \ {0} /\ MaxTotal \in Nat /\ MaxEdits \in Nat
  /\ NoBin \notin Bins /\ Strays \subseteq Bins /\ MaxRel \in Nat
  /\ \A b \in Bins :
       /\ Bin[b].shift \in Nat /\ Bin[b].base \in Nat
       /\ Bin[b].syms \cup Bin[b].stubs \cup Bin[b].go \cup Bin[b].dyn
            \cup Bin[b].text \subseteq Nat
       /\ IsFiniteSet(Bin[b].syms) /\ IsFiniteSet(Bin[b].stubs)
  /\ \A b, c \in Bins : Bin[b].id = Bin[c].id /\ Bin[b].id # 0 => b = c
  /\ \A q \in Queries : q \in Seq(Rows)
  /\ \A q \in Queries : \A n \in 1 .. Len(q) :
       /\ Verifiable(q[n].id) => Bin[q[n].bin].id = q[n].id
       /\ q[n].path = "kernel" => q[n].kind = "va"

VARIABLES disk,    \* per path: the binary there, NoBin if none
          edits,   \* changes of disk so far
          keep,    \* ids with a held fd; the executable and the .debug file under an id in
                   \* the build-id directories, the latter broken or not; kernel sources
          query,   \* rows the trace query has still to answer
          mods,    \* the collector's modules
          job,     \* the module in hand and where the pass is
          ranges,  \* the Symbolizer's modules
          pending, \* ModuleSymbols built, not yet appended
          asm,     \* disassembly records
          srcs,    \* source files of resolved frames, first seen first
          stats,   \* ModuleStats
          saved    \* the trace file: what was appended; "torn" if an append broke
symVars == <<disk, edits, keep, query, mods, job, ranges, pending, asm, srcs, stats, saved>>
files == <<disk, edits, keep, query>>

NoJob == [pc |-> "query", k |-> 0, src |-> "none", pcs |-> <<>>, base |-> 0, raced |-> FALSE,
          counted |-> FALSE]

SymInit ==
  /\ query \in Queries
  /\ disk \in [ModulePaths -> Bins \cup {NoBin}]
  /\ LET sampled == {query[k].id : k \in 1 .. Len(query)} \ {0}
         real == {i \in sampled : Verifiable(i)}
         under(i) == {NoBin} \cup {b \in Bins : i \in real /\ (b \in Strays \/ Bin[b].id = i)}
         entries == {f \in [Ids -> Bins \cup {NoBin}] : \A i \in Ids : f[i] \in under(i)}
     IN keep \in [held: SUBSET sampled, exe: entries, debug: entries, broken: SUBSET real,
                  vmlinux: BOOLEAN, kallsyms: BOOLEAN]
  /\ \A i \in keep.broken : keep.debug[i] # NoBin
  /\ (\A k \in 1 .. Len(query) : query[k].path # "kernel") => ~keep.vmlinux /\ ~keep.kallsyms
  /\ edits = 0 /\ mods = <<>> /\ job = NoJob /\ ranges = <<>> /\ pending = <<>>
  /\ asm = <<>> /\ srcs = <<>> /\ stats = <<>> /\ saved = <<>>

(* A file is rebuilt or removed.                                             *)
Edit(p, b) ==
  /\ edits < MaxEdits /\ b # disk[p] /\ job.pc # "done"
  /\ disk' = [disk EXCEPT ![p] = b] /\ edits' = edits + 1
  /\ job' = [job EXCEPT !.raced = @ \/ (job.k > 0 /\ mods[job.k].path = p)]
  /\ UNCHANGED <<keep, query, mods, ranges, pending, asm, srcs, stats, saved>>

------------------------------------------------------------------------------
(* on_row: the trailing module is extended while the key matches; addresses  *)
(* that repeat collapse.                                                     *)
SameModule(m, r) == m.path = r.path /\ m.id = r.id /\ m.bias = r.bias /\ m.kind = r.kind
on_row(ms, r) ==
  LET last == ms[Len(ms)]
      fresh == [path |-> r.path, id |-> r.id, bias |-> r.bias, kind |-> r.kind, bin |-> r.bin,
                pcs |-> <<r.pc>>]
  IN IF ms = <<>> \/ ~SameModule(last, r) THEN Append(ms, fresh)
     ELSE IF Contains(last.pcs, r.pc) THEN ms
     ELSE [ms EXCEPT ![Len(ms)].pcs = Append(@, r.pc)]
(* sismo_trace_query_unsymbolized calls on_row for every row, and may fail   *)
(* at any; nothing is done then.                                             *)
QueryRow ==
  /\ job.pc = "query" /\ query # <<>>
  /\ mods' = on_row(mods, Head(query)) /\ query' = Tail(query)
  /\ UNCHANGED <<disk, edits, keep, job, ranges, pending, asm, srcs, stats, saved>>
QueryEnds ==
  /\ job.pc = "query"
  /\ \/ query = <<>> /\ mods # <<>> /\ job' = [job EXCEPT !.pc = "next"]
     \/ job' = [job EXCEPT !.pc = "done"]
  /\ UNCHANGED <<files, mods, ranges, pending, asm, srcs, stats, saved>>

------------------------------------------------------------------------------
(* byte_source::matches: an id that names no bytes matches every file.       *)
matches(b, id) == ~Verifiable(id) \/ Bin[b].id = id
recorded_path_matches(m) == disk[m.path] # NoBin /\ matches(disk[m.path], m.id)

M == mods[job.k]
NewStat == [loaded |-> FALSE, addrs |-> Len(M.pcs), resolved |-> 0, synthetic |-> 0]

(* The next module, or the end of the loop.                                  *)
NextModule ==
  /\ job.pc = "next"
  /\ job' = IF job.k = Len(mods) THEN [NoJob EXCEPT !.pc = "append"]
            ELSE [NoJob EXCEPT !.pc = "pick", !.k = job.k + 1]
  /\ UNCHANGED <<files, mods, ranges, pending, asm, srcs, stats, saved>>

\* Mutant: the ranges of earlier modules stay registered.
keep_modules == UNCHANGED ranges
(* Each module is resolved in an address space of its own.                   *)
clear_modules == ranges' = <<>>

SymRange(base, end, map, falls, bin) ==
  [base |-> base, end |-> end, map |-> map, falls |-> falls, bin |-> bin]
MaxPc(pcs) == CHOOSE x \in ToSet(pcs) : \A y \in ToSet(pcs) : y <= x

\* Mutant: a changed file is refused before the exact bytes are looked for.
RefuseFirst ==
  /\ job.pc = "pick" /\ M.path # "kernel"
  /\ clear_modules
  /\ stats' = Append(stats, NewStat)
  /\ LET next == IF M.kind = "off" THEN "translate" ELSE "load"
         use(src) == job' = [job EXCEPT !.pc = next, !.src = src, !.pcs = M.pcs, !.base = M.bias]
     IN \/ recorded_path_matches(M) /\ use("recorded")
        \/ ~recorded_path_matches(M) /\ disk[M.path] # NoBin /\ job' = [job EXCEPT !.pc = "asm"]
        \/ disk[M.path] = NoBin /\ use(IF M.id \in keep.held THEN "held" ELSE "recorded")
  /\ UNCHANGED <<files, mods, pending, asm, srcs, saved>>
(* build_module_symbols: the choice of the bytes.  A recorded path that has  *)
(* other bytes by now is refused unless exact ones are held or cached.       *)
PickBytes ==
  /\ job.pc = "pick" /\ M.path # "kernel"
  /\ clear_modules
  /\ stats' = Append(stats, NewStat)
  /\ LET next == IF M.kind = "off" THEN "translate" ELSE "load"
         use(src) == job' = [job EXCEPT !.pc = next, !.src = src, !.pcs = M.pcs, !.base = M.bias]
     IN \/ recorded_path_matches(M) /\ use("recorded")
        \/ ~recorded_path_matches(M) /\ M.id \in keep.held /\ use("held")
        \/ /\ ~recorded_path_matches(M) /\ M.id \notin keep.held /\ keep.exe[M.id] # NoBin
           /\ use("exe")
        \/ /\ ~recorded_path_matches(M) /\ M.id \notin keep.held /\ keep.exe[M.id] = NoBin
           /\ IF disk[M.path] # NoBin THEN job' = [job EXCEPT !.pc = "asm"] ELSE use("recorded")
  /\ UNCHANGED <<files, mods, pending, asm, srcs, saved>>

(* The bytes the choice names when they are read: the held inode is the      *)
(* sampled binary; what lies under the id in the build-id directories is     *)
(* taken for it because it is there.                                         *)
Chosen == CASE job.src = "recorded" -> disk[M.path]
            [] job.src = "exe" -> keep.exe[M.id]
            [] OTHER -> M.bin

(* FILE_OFFSET mappings: offsets become link addresses through the chosen    *)
(* executable's PT_LOADs, and are looked up as such in a range from 0; -1    *)
(* stands for an offset in none of them.                                     *)
file_offset_to_vaddr(b, off) == IF off \in Bin[b].text THEN off + Bin[b].shift ELSE -1
Translate ==
  /\ job.pc = "translate"
  /\ LET pcs == [k \in 1 .. Len(M.pcs) |-> file_offset_to_vaddr(Chosen, M.pcs[k])]
     IN IF Chosen = NoBin \/ \A k \in 1 .. Len(M.pcs) : pcs[k] = -1
        THEN job' = [job EXCEPT !.pc = "asm"]
        ELSE job' = [job EXCEPT !.pc = "load", !.pcs = pcs, !.base = 0]
  /\ UNCHANGED <<files, mods, ranges, pending, asm, srcs, stats, saved>>

(* add_module_with_symbol_path: names come from the cached .debug if there   *)
(* is one, else from the bytes; the fallbacks always from the bytes, .dynsym *)
(* only if the first source has no symbol at all.                            *)
NoMap == [bin |-> NoBin, full |-> FALSE]
SymbolCount(map) == IF map.bin = NoBin THEN 0
                    ELSE IF map.full THEN 1
                    ELSE Cardinality(Bin[map.bin].syms \cup Bin[map.bin].stubs)
load_fallbacks(b, count) ==
  IF b = NoBin THEN <<>>
  ELSE (IF Bin[b].go # {} THEN <<Bin[b].go>> ELSE <<>>)
       \o (IF count = 0 /\ Bin[b].dyn # {} THEN <<Bin[b].dyn>> ELSE <<>>)
add_module_with_symbol_path ==
  /\ job.pc = "load" /\ M.path # "kernel"
  /\ LET debug == keep.debug[M.id]
         map == CASE debug # NoBin /\ M.id \notin keep.broken -> [bin |-> debug, full |-> TRUE]
                  [] M.id \in keep.broken -> NoMap
                  [] OTHER -> [bin |-> Chosen, full |-> FALSE]
         falls == load_fallbacks(Chosen, SymbolCount(map))
     IN /\ ranges' = Append(ranges, SymRange(job.base, MaxPc(job.pcs) + 1, map, falls, Chosen))
        /\ stats' = [stats EXCEPT ![job.k].loaded = map.bin # NoBin \/ falls # <<>>]
  /\ job' = [job EXCEPT !.pc = "resolve"]
  /\ UNCHANGED <<files, mods, pending, asm, srcs, saved>>

(* The kernel: a vmlinux image with /proc/kallsyms behind it, or neither.    *)
add_kernel_module ==
  /\ job.pc = "pick" /\ M.path = "kernel"
  /\ LET map == IF keep.vmlinux THEN [bin |-> M.bin, full |-> TRUE] ELSE NoMap
         falls == IF keep.kallsyms THEN <<Bin[M.bin].syms>> ELSE <<>>
     IN /\ ranges' = <<SymRange(M.bias, MaxPc(M.pcs) + 1, map, falls, M.bin)>>
        /\ stats' = Append(stats, [NewStat EXCEPT !.loaded = keep.vmlinux \/ keep.kallsyms])
  /\ job' = [job EXCEPT !.pc = "resolve", !.pcs = M.pcs, !.base = M.bias]
  /\ UNCHANGED <<files, mods, pending, asm, srcs, saved>>

(* Symbolizer::resolve: the first range with the address; the symbol library *)
(* is asked within 32 bits, and its placeholder taken only when no fallback  *)
(* has a name.  A name is the function at an address of a binary, relative   *)
(* to its base; `line` says whether it came with source positions.           *)
Named(b, v, line) == [bin |-> b, at |-> v, real |-> TRUE, line |-> line]
Placeholder(b, v) == [bin |-> b, at |-> v, real |-> FALSE, line |-> FALSE]
NoName == [bin |-> NoBin, at |-> 0, real |-> FALSE, line |-> FALSE]
resolve(rs, avma) ==
  LET hits == {k \in 1 .. Len(rs) : avma >= rs[k].base /\ avma < rs[k].end}
      r == rs[CHOOSE k \in hits : \A j \in hits : k <= j]
      rel == avma - r.base
      b == r.map.bin
      asked == b # NoBin /\ rel <= MaxRel
  IN IF hits = {} THEN NoName
     ELSE IF asked /\ (r.map.full \/ rel \in Bin[b].syms) THEN Named(b, rel, r.map.full)
     ELSE IF \E k \in 1 .. Len(r.falls) : rel \in r.falls[k] THEN Named(r.bin, rel, FALSE)
     ELSE IF asked /\ rel \in Bin[b].stubs THEN Placeholder(b, rel)
     ELSE NoName

(* The resolution loop, and the ModuleSymbols packet if anything resolved.   *)
ResolveAll ==
  /\ job.pc = "resolve"
  /\ LET found == {k \in 1 .. Len(M.pcs) :
                     job.pcs[k] # -1 /\ resolve(ranges, job.pcs[k]) # NoName}
         names == {[pc |-> M.pcs[k], name |-> resolve(ranges, job.pcs[k])] : k \in found}
         lined == {n.name.bin : n \in {x \in names : x.name.line}} \ ToSet(srcs)
     IN /\ stats' = [stats EXCEPT ![job.k].resolved = Cardinality(found),
                                  ![job.k].synthetic = Cardinality({n \in names : ~n.name.real})]
        /\ pending' = IF found = {} THEN pending
                      ELSE Append(pending, [k |-> job.k, names |-> names])
        /\ srcs' = srcs \o SetToSeq(lined)
  /\ job' = [job EXCEPT !.pc = "asm"]
  /\ UNCHANGED <<files, mods, ranges, asm, saved>>

(* Disassembly reads the recorded path, if that still has the sampled        *)
(* binary, and labels the listing with what the symbolizer resolves.         *)
Disassemble ==
  /\ job.pc = "asm"
  /\ LET reads == M.path # "kernel" /\ M.kind = "va" /\ recorded_path_matches(M)
         labels == {resolve(ranges, pc) : pc \in ToSet(M.pcs)} \ {NoName}
     IN asm' = IF reads THEN asm \o SetToSeq({[k |-> job.k, raced |-> job.raced, name |-> n,
                                                  bytes |-> disk[M.path]] : n \in labels})
               ELSE asm
  /\ job' = [job EXCEPT !.pc = "next"]
  /\ UNCHANGED <<files, mods, ranges, pending, srcs, stats, saved>>

------------------------------------------------------------------------------
(* The output.                                                              *)

(* append_bytes opens the file for appending and writes; a write that fails  *)
(* may have left part of the data behind.                                    *)
append_bytes(data, onOk, onErr) ==
  \/ saved' = Append(saved, data) /\ job' = [job EXCEPT !.pc = onOk]
  \/ saved' \in {saved, Append(saved, [type |-> "torn"])} /\ job' = [job EXCEPT !.pc = onErr]
\* Mutant: the pass goes on after symbols could not be appended.
AppendAnyway ==
  /\ job.pc = "append" /\ pending # <<>>
  /\ append_bytes([type |-> "symbols", of |-> pending], "sidecar", "sidecar")
  /\ UNCHANGED <<files, mods, ranges, pending, asm, srcs, stats>>
AppendSymbols ==
  /\ job.pc = "append" /\ pending # <<>>
  /\ append_bytes([type |-> "symbols", of |-> pending], "sidecar", "done")
  /\ UNCHANGED <<files, mods, ranges, pending, asm, srcs, stats>>
AppendNone ==
  /\ job.pc = "append" /\ pending = <<>>
  /\ job' = [job EXCEPT !.pc = "sidecar"]
  /\ UNCHANGED <<files, mods, ranges, pending, asm, srcs, stats, saved>>

(* write_chunked: one event, or as many as the payload has chunks.           *)
write_chunked(key, len) ==
  LET n == (len + MaxChunk - 1) \div MaxChunk
  IN IF len <= MaxChunk THEN <<[key |-> key, chunk |-> -1, of |-> 0, len |-> len]>>
     ELSE [i \in 1 .. n |->
             [key |-> key, chunk |-> i - 1, of |-> n,
              len |-> IF i * MaxChunk <= len THEN MaxChunk ELSE len % MaxChunk]]

(* What a listing goes by: its function's name alone.                        *)
FuncName(n) == IF n.real /\ n.at \in Bin[n.bin].common THEN <<NoBin, -1>>
               ELSE IF n.real THEN <<n.bin, n.at>> ELSE <<NoBin, n.at>>
Key(i) == <<"asm", FuncName(asm[i].name)>>
(* append_sidecar: sources until the budget is used up, then every listing.  *)
SourceEvents ==
  LET add(acc, b) ==
        IF acc.total >= MaxTotal \/ SrcLen[b] = 0 \/ SrcLen[b] > MaxSrc THEN acc
        ELSE [total |-> acc.total + SrcLen[b],
              events |-> acc.events \o write_chunked(<<"src", b>>, SrcLen[b])]
  IN FoldLeft(add, [total |-> 0, events |-> <<>>], srcs).events
append_sidecar ==
  /\ job.pc = "sidecar"
  /\ IF srcs = <<>> /\ asm = <<>>
     THEN job' = [job EXCEPT !.pc = "report"] /\ UNCHANGED saved
     ELSE LET listings == FlattenSeq([i \in 1 .. Len(asm) |-> write_chunked(Key(i), AsmLen)])
          IN append_bytes([type |-> "sidecar", of |-> SourceEvents \o listings],
                          "report", "report")
  /\ UNCHANGED <<files, mods, ranges, pending, asm, srcs, stats>>

(* ModuleStat::status and report.                                            *)
n_real(st) == st.resolved - st.synthetic
status(st) ==
  LET missing == st.addrs - st.resolved
  IN CASE ~st.loaded -> "no symbols"
       [] st.loaded /\ st.resolved = 0 -> "unresolved"
       [] st.loaded /\ st.resolved > 0 /\ n_real(st) = 0 -> "no names"
       [] st.loaded /\ n_real(st) > 0 /\ missing >= 2 /\ missing * 50 >= st.addrs -> "partial"
       [] OTHER -> "ok"
report ==
  /\ job.pc = "report"
  /\ job' = [job EXCEPT !.pc = "done", !.counted = TRUE]
  /\ UNCHANGED <<files, mods, ranges, pending, asm, srcs, stats, saved>>

SymNext == \/ \E p \in ModulePaths, b \in Bins \cup {NoBin} : Edit(p, b)
           \/ QueryRow \/ QueryEnds \/ NextModule \/ PickBytes \/ add_kernel_module \/ Translate
           \/ add_module_with_symbol_path \/ ResolveAll \/ Disassemble
           \/ AppendSymbols \/ AppendNone \/ append_sidecar \/ report
SymSpec == SymInit /\ [][SymNext]_symVars

------------------------------------------------------------------------------
(* Properties.                                                              *)

(* The function a sampled address is in, relative to the binary's base.      *)
Truth(m, pc) == IF m.kind = "off" THEN pc + Bin[m.bin].shift - Bin[m.bin].base ELSE pc - m.bias

(* The modules the pass can answer for: with a real build id, under which    *)
(* the build-id directories have nothing else, and, if sampled by offset, a  *)
(* base of 0.                                                                *)
Genuine(m) == {keep.exe[m.id], keep.debug[m.id]} \subseteq {NoBin, m.bin}
ZeroBased(m) == m.kind = "off" => Bin[m.bin].base = 0
Covered(m) == Verifiable(m.id) /\ Genuine(m) /\ ZeroBased(m)

(* A name given to an address of a module is of the binary that was sampled, *)
(* at the sampled address, whatever is at its path now, however modules      *)
(* overlap and in whichever coordinates they were sampled ("must not resolve *)
(* through the wrong symbol map").  Claimed for the modules above, but not   *)
(* for a path replaced between the check of its id and the read.             *)
JustNamed == job.pc = "asm" /\ pending # <<>> /\ ~job.raced
NamesRight ==
  LET last == pending[Len(pending)]
  IN last.k = job.k => \A n \in last.names : /\ n.name.bin = M.bin
                                             /\ n.name.at = Truth(M, n.pc)
NamesOwn == JustNamed /\ Covered(M) => NamesRight

(* The same for any base and for whatever lies in the build-id directories.  *)
(* Neither holds: offsets are looked up as link addresses where names are    *)
(* kept relative to the base, and a path made of a build id is trusted       *)
(* without a look at what is there.                                          *)
FixedNames == JustNamed /\ Verifiable(M.id) /\ Genuine(M) => NamesRight
CachedNames == JustNamed /\ Verifiable(M.id) /\ ZeroBased(M) => NamesRight

(* If the sampled bytes are at hand anywhere (recorded path, held fd,        *)
(* build-id directories) every address they can name gets a real name,       *)
(* unless the .debug file there is one that does not load.  (The kernel's    *)
(* names come from its own two sources.)                                     *)
Nameable(b) ==
  LET dyn == IF Bin[b].syms \cup Bin[b].stubs = {} THEN Bin[b].dyn ELSE {}
  IN Bin[b].go \cup {v \in Bin[b].syms \cup dyn : v <= MaxRel}
NamesServed ==
  (/\ job.pc = "asm" /\ M.path # "kernel" /\ Covered(M)
   /\ ~job.raced /\ M.id \notin keep.broken) =>
    LET athand == disk[M.path] = M.bin \/ M.id \in keep.held \/ keep.exe[M.id] = M.bin
    IN athand => \A pc \in ToSet(M.pcs) :
         /\ M.kind = "off" => pc \in Bin[M.bin].text
         /\ Truth(M, pc) \in Nameable(M.bin)
         => \E n \in 1 .. Len(pending) : /\ pending[n].k = job.k
                                         /\ \E x \in pending[n].names : x.pc = pc /\ x.name.real

(* A listing pairs instructions and a name of the same bytes, although the   *)
(* two are read through different files.                                     *)
AsmExact ==
  \A i \in 1 .. Len(asm) :
    Covered(mods[asm[i].k]) /\ ~asm[i].raced => asm[i].name.bin = asm[i].bytes

(* What the pass says of an address is of the bytes that were sampled there. *)
NamesExact == NamesOwn /\ AsmExact

(* What is in the file can be read: nothing follows an append that broke,    *)
(* and the slices of a whole sidecar that go by one key are one record, cut  *)
(* in order - where a listing's function is the only one of its name.        *)
OneRecord(events, e) ==
  LET parts == SelectSeq(events, LAMBDA x : x.key = e.key)
      len == IF e.key[1] = "src" THEN SrcLen[e.key[2]] ELSE AsmLen
  IN /\ e.chunk >= 0 => Len(parts) = e.of /\ \A i \in 1 .. Len(parts) : parts[i].chunk = i - 1
     /\ FoldLeft(LAMBDA n, x : n + x.len, 0, parts) = len
Sidecars == {saved[k].of : k \in {k \in 1 .. Len(saved) : saved[k].type = "sidecar"}}
Shared(key) == \E i, j \in 1 .. Len(asm) : i # j /\ Key(i) = key /\ Key(j) = key
Readable ==
  /\ \A k \in 1 .. Len(saved) - 1 : saved[k].type # "torn"
  /\ \A events \in Sidecars : \A e \in ToSet(events) : Shared(e.key) \/ OneRecord(events, e)

(* Two functions of one name have a listing each.  This does not hold: both  *)
(* go by the name, and whoever asks for it gets the slices of both.          *)
ListingsApart == \A events \in Sidecars : \A e \in ToSet(events) : OneRecord(events, e)

(* The reported totals and tags are those of the names in the file.          *)
ReportTrue ==
  job.counted =>
    LET written == IF saved # <<>> /\ saved[1].type = "symbols" THEN saved[1].of ELSE <<>>
        names(k) == UNION {written[i].names : i \in {j \in 1 .. Len(written) : written[j].k = k}}
    IN /\ Len(stats) = Len(mods)
       /\ \A k \in 1 .. Len(mods) :
            /\ n_real(stats[k]) = Cardinality({n \in names(k) : n.name.real})
            /\ status(stats[k]) \in {"ok", "partial"} <=> \E n \in names(k) : n.name.real
            /\ status(stats[k]) = "no symbols" => names(k) = {}

(* The saved trace stays readable, and the pass reports what it put there.   *)
TraceWhole == Readable /\ ReportTrue
=============================================================================
