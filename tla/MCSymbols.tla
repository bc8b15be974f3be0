----------------------------- MODULE MCSymbols -----------------------------
(* What is made of the target's binaries: the unwind-table loader while it   *)
(* is recorded, the symbolization pass over the saved trace.  They share no  *)
(* state: a behaviour has one of them, and what the other would use stays as *)
(* it is.                                                                    *)
EXTENDS UnwindTables, Symbolize

(* A library and its rebuild, an executable with a runtime's name and a pc   *)
(* before its first row, the vdso and a page of generated code.              *)
I(path, kind, hdr, span, rows, home) ==
  [path |-> path, kind |-> kind, hdr |-> hdr, span |-> span, rows |-> rows, home |-> home]
MCImg == << I("a", "dyn", 1, 6, <<1, 2, 5>>, 0), I("a", "go", 1, 4, <<1, 3>>, 0),
            I("libjvm", "exec", 0, 3, <<1, 2>>, 8), I("vdso", "vdso", 0, 2, <<0>>, 14),
            I("", "anon", 0, 1, <<0>>, 12) >>

(* A binary with symbols, placeholders and Go tables, one with .dynsym only  *)
(* that is linked at a fixed address, one without a build id (also standing  *)
(* for the kernel).                                                          *)
B(id, base, shift, text, syms, stubs, go, dyn, common) ==
  [id |-> id, base |-> base, shift |-> shift, text |-> text, syms |-> syms, stubs |-> stubs,
   go |-> go, dyn |-> dyn, common |-> common]
MCBin == << B(1, 0, 1, {0, 1, 2}, {1, 3}, {2}, {2}, {1, 2}, {}),
            B(2, 2, 2, {0, 1}, {}, {}, {}, {0, 1}, {1}), B(0, 0, 0, {0, 1}, {0}, {1}, {}, {}, {}) >>
R(path, bin, id, kind, bias, addr) ==
  [path |-> path, bin |-> bin, id |-> id, kind |-> kind, bias |-> bias, pc |-> addr]
MCQueries ==
  { << R("a", 1, 1, "off", 0, 0), R("a", 1, 1, "off", 0, 1), R("a", 1, 1, "off", 0, 2) >>,
    << R("b", 2, 2, "off", 0, 0), R("b", 2, 2, "off", 0, 1) >>,
    << R("a", 1, 1, "va", 4, 5), R("a", 1, 1, "va", 4, 5), R("a", 1, 1, "va", 4, 6) >>,
    << R("b", 2, 2, "va", 2, 3), R("a", 1, 1, "off", 0, 1) >>,
    << R("kernel", 3, 0, "va", 0, 1), R("a", 3, 100, "va", 4, 4), R("a", 1, 1, "off", 0, 1) >> }

(* Only Go tables in a binary linked at a fixed address; two functions of    *)
(* one name.                                                                 *)
MCFixed == << B(1, 1, 1, {0, 1}, {}, {}, {0, 1}, {}, {}) >>
MCFixedQueries == { << R("a", 1, 1, "off", 0, 0), R("a", 1, 1, "off", 0, 1) >> }
MCTwins == << B(1, 0, 0, {0, 1}, {0, 1}, {}, {}, {}, {0, 1}) >>
MCTwinQueries == { << R("a", 1, 1, "va", 4, 4), R("a", 1, 1, "va", 4, 5) >> }
MCSrcLen == <<5, 3, 1>>

NoLoader ==
  /\ at = [i \in Images |-> Unmapped] /\ file = [p \in PathsOf |-> 0] /\ moves = MaxMoves
  /\ owners = [a \in Addr |-> {}] /\ swapped = {} /\ gone = TRUE /\ due = {} /\ tables = NoTables
  /\ pings = [queued |-> 0, sent |-> 0, open |-> FALSE] /\ ld = [Idle EXCEPT !.pc = "exited"]
NoPass ==
  /\ disk = <<>> /\ edits = MaxEdits /\ keep = <<>> /\ query = <<>> /\ mods = <<>>
  /\ job = [NoJob EXCEPT !.pc = "done"] /\ ranges = <<>> /\ pending = <<>> /\ asm = <<>>
  /\ srcs = <<>> /\ stats = <<>> /\ saved = <<>>

(* Generated code is there from the start.                                   *)
Init ==
  \/ UwInit /\ NoPass /\ \A i \in Images : Img[i].kind = "anon" => at[i] # Unmapped
  \/ SymInit /\ NoLoader
Next ==
  \/ UwNext /\ UNCHANGED symVars
  \/ SymNext /\ UNCHANGED uwVars
Spec == Init /\ [][Next]_<<uwVars, symVars>>
=============================================================================
