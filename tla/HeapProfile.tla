---------------------------- MODULE HeapProfile ----------------------------
(***************************************************************************)
(* sismo-core/src/heap/mod.rs: the packets a heap snapshot becomes.          *)
(* emit_profile hands the book's sites and the target's images to            *)
(* build_trace_data, which interns strings, mappings, frames and callstacks  *)
(* one site after the other; the tables go out behind the clock snapshot     *)
(* their timestamp needs.  A reader has the numbers (iids) only.             *)
(***************************************************************************)
EXTENDS Integers, Sequences, FiniteSets, SequencesExt

CONSTANTS Bases,    \* load addresses of images
          Pcs,      \* program counters of stacks
          Resolvable, \* those the symbolizer resolves
          MaxStack, \* frames of a stack
          MaxSites  \* sites of the book

ASSUME ProfileAssumption ==
  /\ Bases \subseteq Nat /\ IsFiniteSet(Bases) /\ Pcs \subseteq Nat /\ Resolvable \subseteq Pcs
  /\ MaxStack \in Nat \ {0} /\ MaxSites \in Nat

VARIABLES prof   \* [pc, images, sites, next, strings, frames, stacks, out]

NoTraceData == [pc |-> "emitted", images |-> <<>>, sites |-> <<>>, next |-> 1,
                strings |-> <<>>, frames |-> <<>>, stacks |-> <<>>, out |-> <<>>]

(* The image list is sorted by base; a book's sites have distinct stacks,    *)
(* leaf first, and a site's totals are its own.                              *)
Stacks == UNION {[1..n -> Pcs] : n \in 1..MaxStack}
Site(i, pcs) == [pcs |-> pcs, allocated |-> 10 * i, freed |-> i]
ProfInit ==
  \E bs \in SUBSET Bases, n \in 0..MaxSites :
    \E ss \in {q \in [1..n -> Stacks] : IsInjective(q)} :
      prof = [NoTraceData EXCEPT !.pc = "clock", !.images = SetToSortSeq(bs, <),
                !.sites = [i \in 1..n |-> Site(i, ss[i])]]

------------------------------------------------------------------------------
(* The clock snapshot first: it maps the clock the samples' time is read on. *)
build_clock_snapshot_packet ==
  /\ prof.pc = "clock"
  /\ prof' = [prof EXCEPT !.pc = "site", !.out = <<[kind |-> "clock"]>>,
                \* the paths are the head of the string pool
                !.strings = [i \in DOMAIN prof.images |-> <<"path", prof.images[i]>>]]

resolve_name(pc) == IF pc \in Resolvable THEN <<"fn", pc>> ELSE <<"?">>

(* The mapping of a pc: the last image at or below it, by position; the      *)
(* first, at address 0, if there is none.                                    *)
\* Mutant: an image does not contain its first address.
BelowStrictly(pc) ==
  Cardinality({i \in DOMAIN prof.images : \A j \in 1..i : prof.images[j] < pc})
Below(pc) == Cardinality({i \in DOMAIN prof.images : \A j \in 1..i : prof.images[j] <= pc})
NewFrame(pc, fn) ==
  LET j == Below(pc)
  IN [pc |-> pc, fn |-> fn, map |-> IF j > 0 THEN j ELSE 1,
      rel_pc |-> pc - (IF j > 0 THEN prof.images[j] ELSE 0)]

(* One pc: its frame, interned by the pc (frame_by_pc) with a name of its    *)
(* own; a number is a place in a table.                                      *)
HasFrame(td, pc) == \E i \in DOMAIN td.frames : td.frames[i].pc = pc
intern(td, pc) ==
  IF HasFrame(td, pc) THEN td
  ELSE [td EXCEPT !.strings = Append(@, resolve_name(pc)),
                  !.frames = Append(@, NewFrame(pc, Len(td.strings) + 1))]
FrameIid(td, pc) == CHOOSE i \in DOMAIN td.frames : td.frames[i].pc = pc

(* One site: its stack root first, the stack and the sample numbered alike.  *)
build_trace_data ==
  /\ prof.pc = "site" /\ prof.next <= Len(prof.sites)
  /\ LET rooted == Reverse(prof.sites[prof.next].pcs)
         td == FoldLeft(intern, prof, rooted)
     IN prof' = [td EXCEPT !.next = @ + 1,
          !.stacks = Append(@, [i \in DOMAIN rooted |-> FrameIid(td, rooted[i])])]

(* The packet: the tables, and a sample of each site by its stack's number.  *)
encode_profile_packet ==
  /\ prof.pc = "site" /\ prof.next > Len(prof.sites)
  /\ prof' = [prof EXCEPT !.pc = "emitted", !.out = Append(@,
       [kind |-> "profile", strings |-> prof.strings,
        mappings |-> [i \in DOMAIN prof.images |-> [start |-> prof.images[i], path |-> i]],
        frames |-> [i \in DOMAIN prof.frames |->
                      [fn |-> prof.frames[i].fn, map |-> prof.frames[i].map,
                       rel_pc |-> prof.frames[i].rel_pc]],
        stacks |-> prof.stacks,
        samples |-> [i \in DOMAIN prof.sites |->
                       [stack |-> i, allocated |-> prof.sites[i].allocated,
                        freed |-> prof.sites[i].freed]]])]

ProfNext == build_clock_snapshot_packet \/ build_trace_data \/ encode_profile_packet

------------------------------------------------------------------------------
(* Properties.                                                              *)

(* A reader of the profile packet p: a frame's name, and the address and the *)
(* path its mapping gives it.                                                *)
ReadFrame(p, f) == [name |-> p.strings[f.fn], at |-> p.mappings[f.map].start + f.rel_pc,
                    path |-> p.strings[p.mappings[f.map].path]]
TrueFrame(pc) ==
  LET below == {b \in ToSet(prof.images) : b <= pc}
      base == CHOOSE b \in below : \A c \in below : c <= b
  IN [name |-> resolve_name(pc), at |-> pc, path |-> <<"path", base>>]

(* The interned snapshot decodes to the book: behind a clock, a sample for   *)
(* every site with its own totals, whose frames from the last back are its   *)
(* stack from the leaf, each with the pc's name and - where an image lies at *)
(* or below the pc - the nearest such image and the very address.  Frames    *)
(* are shared between sites and repeat in one, and names share a pool with   *)
(* paths, so every number has to count what was pushed before it.            *)
ProfileDecodes ==
  prof.out # <<>> /\ Last(prof.out).kind = "profile" =>
    LET p == Last(prof.out)
    IN /\ Head(prof.out).kind = "clock" /\ Len(p.samples) = Len(prof.sites)
       /\ \A i \in DOMAIN p.samples :
            LET s == p.samples[i]
                site == prof.sites[i]
                frames == Reverse(p.stacks[s.stack])
            IN /\ s.allocated = site.allocated /\ s.freed = site.freed
               /\ Len(frames) = Len(site.pcs)
               /\ \A k \in DOMAIN frames :
                    LET f == p.frames[frames[k]]
                        pc == site.pcs[k]
                    IN IF \E b \in ToSet(prof.images) : b <= pc
                       THEN ReadFrame(p, f) = TrueFrame(pc)
                       ELSE p.strings[f.fn] = resolve_name(pc) /\ f.rel_pc = pc
=============================================================================
