--------------------------- MODULE ModuleRegistry ---------------------------
(***************************************************************************)
(* sismo-core/src/cpu/module_registry.rs: which build id the trace carries  *)
(* for a sampled module, and which module files are held open so that a     *)
(* binary rebuilt or deleted during the recording still symbolizes.  The    *)
(* registry is a value here; the captures that own one call its operations  *)
(* under its mutex.                                                        *)
(***************************************************************************)
EXTENDS Naturals, FiniteSets

CONSTANTS Inodes,    \* files that exist at some time
          ElfId,     \* per inode: the build id in its bytes, 0 if it has none
          PathOf,    \* per inode: the path it is or was found at
          Unstable,  \* paths outside the STABLE_PREFIXES
          Policy,    \* --keep-module-files: "none", "auto" or "all"
          FdCap      \* DEFAULT_FD_CAP

ASSUME RegistryAssumption ==
  /\ IsFiniteSet(Inodes) /\ 0 \notin Inodes
  /\ ElfId \in [Inodes -> Nat]
  /\ Policy \in {"none", "auto", "all"}
  /\ FdCap \in Nat

(* A build id: none was read, the one in the file, or a minted one.          *)
NoId == <<"none", 0>>
FileId(i) == IF ElfId[i] = 0 THEN NoId ELSE <<"elf", ElfId[i]>>
Synthetic(n) == <<"syn", n>>
NoInode == 0

(* A key names a mapping: where it is mapped and the inode that maps reports.*)
Key(base, ino) == [base |-> base, ino |-> ino]

EmptyRegistry == [entries |-> [k \in {} |-> k], fds |-> {}, rng |-> 0]
Entry(id) == [id |-> id, aliases |-> {}, inode |-> NoInode, pinned |-> FALSE]
With(f, k, v) == [x \in DOMAIN f \cup {k} |-> IF x = k THEN v ELSE f[x]]

should_hold(path) == Policy = "all" \/ (Policy = "auto" /\ path \in Unstable)

(* id_for: the first observation settles the id of a key.                    *)
id_for(reg, key, hint) ==
  IF key \in DOMAIN reg.entries THEN reg
  ELSE [reg EXCEPT !.rng = IF hint = NoId THEN @ + 1 ELSE @,
                   !.entries = With(@, key, Entry(IF hint = NoId THEN Synthetic(reg.rng)
                                                  ELSE hint))]

(* A real id that differs from the settled one is added as an alias, once    *)
(* the file was verified.                                                    *)
needs_alias(reg, key, hint) ==
  LET e == reg.entries[key] IN hint # NoId /\ hint # e.id /\ hint \notin e.aliases

\* Mutant: a held file is not opened again for the id that was read later.
retry_unheld_only(reg, key, hint, path) ==
  should_hold(path) /\ (key \in DOMAIN reg.entries => ~reg.entries[key].pinned)
needs_exact_retry(reg, key, hint, path) ==
  /\ should_hold(path)
  /\ key \in DOMAIN reg.entries =>
       ~reg.entries[key].pinned \/ needs_alias(reg, key, hint)

(* pin_open_file: file (an inode, NoInode if the open failed) must be the    *)
(* inode that maps reported and, opened by path, have the expected id; one   *)
(* descriptor per inode, at most FdCap of them.                              *)
\* Mutant: the inode is not compared.
pin_any_file(reg, key, file, hint, verify_elf_id) ==
  IF \/ file = NoInode
     \/ verify_elf_id /\ hint # NoId /\ FileId(file) # hint
     \/ file \notin reg.fds /\ Cardinality(reg.fds) >= FdCap
  THEN NoInode ELSE file
pin_open_file(reg, key, file, hint, verify_elf_id) ==
  IF \/ file = NoInode
     \/ file # key.ino
     \/ verify_elf_id /\ hint # NoId /\ FileId(file) # hint
     \/ file \notin reg.fds /\ Cardinality(reg.fds) >= FdCap
  THEN NoInode ELSE file

(* finish_registration: a policy refusal is final, a failed open is not; an  *)
(* inode once held stays.                                                    *)
finish_registration(e, hint, alias, hold, inode) ==
  [e EXCEPT !.inode = IF inode # NoInode THEN inode ELSE @,
            !.aliases = IF inode # NoInode /\ alias THEN @ \cup {hint} ELSE @,
            !.pinned = @ \/ ~hold \/ inode # NoInode]

(* register_exact_file (the capture's own descriptor, whose id it read) and  *)
(* register_exact (by path, whose id is checked again).                      *)
register_open(reg, key, hint, path, file, verify_elf_id) ==
  LET r == id_for(reg, key, hint)
      e == r.entries[key]
      alias == needs_alias(r, key, hint)
      hold == should_hold(path)
      inode == IF hold THEN pin_open_file(r, key, file, hint, verify_elf_id) ELSE NoInode
  IN IF e.pinned /\ ~alias THEN r
     ELSE [r EXCEPT !.fds = @ \cup ({inode} \ {NoInode}),
                    !.entries[key] = finish_registration(e, hint, alias, hold, inode)]
register_exact_file(reg, key, hint, path, file) ==
  register_open(reg, key, hint, path, file, FALSE)
register_exact(reg, key, hint, path, file) ==
  register_open(reg, key, hint, path, file, TRUE)

(* held_fd_paths, as the set of pairs (id, inode behind the descriptor).     *)
held_fd_paths(reg) ==
  UNION {{<<id, reg.entries[k].inode>> : id \in {reg.entries[k].id} \cup reg.entries[k].aliases} :
         k \in {x \in DOMAIN reg.entries : reg.entries[x].inode \in reg.fds}}
=============================================================================
