------------------------------ MODULE BpfInit ------------------------------
(***************************************************************************)
(* sismo-core/src/cpu/linux_bpf_capture.rs, capture_init: choosing counters  *)
(* and the sampling event for this CPU, opening them, configuring and        *)
(* attaching the BPF programs one by one while the target runs, and undoing  *)
(* it all; with the programs of csrc/sismo_bpf/sched.bpf.c as they run once  *)
(* attached: the tick that reads counters, and the probes that tag a block   *)
(* with what it waits for.  The kernel may refuse any call.                  *)
(***************************************************************************)
EXTENDS Integers, Sequences, FiniteSets, FiniteSetsExt, SequencesExt

CONSTANTS NCpu,         \* CPUs
          Models,       \* the PMU table: [cpu, steppings, core, events (roles)]
          Setups,       \* recordings: [host, focus, density, offcpu], a host being
                        \* [cpu, stepping, topdown, vm], a focus "none", "cpu" or
                        \* "cache_miss", a density <<numerator, denominator>> or <<>>
          MaxCounters,  \* SISMO_MAX_COUNTERS
          Loads,        \* what a counter may do between ticks: [c, en, run]
          Junk,         \* what an unwritten word of the BPF stack may hold
          Refusals,     \* sets of calls the kernel refuses
          MaxActs       \* system calls of the thread and ticks, together

ASSUME InitAssumption ==
  /\ NCpu \in Nat \ {0} /\ MaxCounters \in Nat \ {0} /\ MaxActs \in Nat
  /\ Junk \subseteq Nat
  /\ \A l \in Loads : l.c \in Nat /\ l.en \in Nat /\ l.run \in 0..l.en /\ (l.run = 0 => l.c = 0)
  /\ \A s \in Setups : s.density = <<>> \/ s.density \in (Nat \ {0}) \X (Nat \ {0})

Cpus == 0..(NCpu - 1)

------------------------------------------------------------------------------
(* Choosing the counters.                                                   *)

role_group(r) == IF r \in {"cache_miss", "branch_miss"} THEN 1 ELSE 0
is_leader_only_role(r) == r = "l3_miss_load"
is_topdown_role(r) == r \in {"slots", "retired", "fetch_bubbles"}

(* The first row of this CPU that is not an E-core's, else the last one.     *)
match_model(h) ==
  LET rows == {i \in DOMAIN Models : /\ Models[i].cpu = h.cpu
                                     /\ Models[i].steppings = {} \/ h.stepping \in Models[i].steppings}
      big == {i \in rows : Models[i].core # "Atom"}
  IN IF rows = {} THEN 0 ELSE IF big # {} THEN Min(big) ELSE Max(rows)

counters_from_table(h) ==
  LET Keep(r) == ~is_leader_only_role(r) /\ (is_topdown_role(r) => h.topdown)
      all == SelectSeq(Models[match_model(h)].events, Keep)
  IN SubSeq(all, 1, Min({Len(all), MaxCounters}))

LEAN_COUNTERS == <<"cycles", "instructions">>
COUNTERS_FALLBACK == << "cycles", "instructions", "stalled_frontend", "stalled_backend",
                        "cache_miss", "branch_miss" >>
VM_HACK_COUNTERS == << "cycles", "instructions", "slots", "retired", "fetch_bubbles",
                       "cache_miss", "branch_miss" >>

select_counters(h, focus) ==
  IF focus # "cpu" THEN LEAN_COUNTERS
  ELSE IF h.vm THEN VM_HACK_COUNTERS
  ELSE IF match_model(h) # 0 THEN counters_from_table(h) ELSE COUNTERS_FALLBACK

(* The sampling event; none if the focus asks for one this CPU lacks.        *)
scale_period(period, d) == IF d = <<>> THEN period ELSE Max({1, (period * d[2]) \div d[1]})
config_for_role(h, r) == match_model(h) # 0 /\ Contains(Models[match_model(h)].events, r)
spec(focus) ==
  IF focus = "cache_miss" THEN [leader |-> "l3_miss_load", precise |-> 2, period |-> 2003]
  ELSE [leader |-> "cycles", precise |-> 0, period |-> 1000003]
NoSampler == [leader |-> "none", precise |-> 0, period |-> 0]
resolve_sampler(h, focus, d) ==
  LET s == spec(focus)
  IN IF focus = "none" THEN s
     ELSE IF s.leader = "cycles" \/ config_for_role(h, s.leader)
          THEN [s EXCEPT !.period = scale_period(@, d)] ELSE NoSampler

------------------------------------------------------------------------------
Probes == << "sched_switch", "futex_enter", "futex_exit", "recv_enter", "recv_exit",
             "read_enter", "read_exit" >>
Entered == [k \in {"futex", "recv", "read"} |->
              CASE k = "futex" -> "futex_enter" [] k = "recv" -> "recv_enter" [] OTHER -> "read_enter"]
Left == [k \in {"futex", "recv", "read"} |->
              CASE k = "futex" -> "futex_exit" [] k = "recv" -> "recv_exit" [] OTHER -> "read_exit"]
Calls == DOMAIN Entered
Absent == -1
CtrSlots == 0..(Max({Len(VM_HACK_COUNTERS), MaxCounters}) - 1)
Refusable ==  \* every call that is best effort or has an error path
  {<<x>> : x \in {"register", "load", "cfg", "walker", "ring"} \cup ToSet(Probes)}
    \cup ({"counter"} \X CtrSlots \X Cpus) \cup ({"tick"} \X Cpus \X (0..2))

VARIABLES run,     \* this recording
          refused, \* what the kernel refuses it
          ini,     \* capture_init: [pc, probe, cpu]
          res,     \* what is acquired: [cap, obj, loader, worker]
          fds,     \* perf events open
          links,   \* programs attached
          cfg,     \* BPF maps: [tgid, unwind, nslots, walker]
          park,    \* counters_pe: <<slot, cpu>> -> role
          active,  \* active_slots
          got,     \* per CPU: precise_ip of its sampler, Absent if none
          precise, \* sampler_precise_ip
          thr,     \* a thread of the target: [call, n, off, blocked]
          tags,    \* futex_wait, net_peer, disk_file: its entry in each
          gap,     \* ghost: an entry was left behind, its exit probe missing
          hw,      \* per CPU: counters of each slot, and last_pe
          ctr,     \* thread_ctrs of the thread
          owed,    \* ghost: per role, what ran up to the thread's own ticks
          acts     \* ticks so far
armVars == <<run, refused, ini, res, fds, links, cfg, park, active, got, precise>>
bpfVars == <<thr, tags, gap, hw, ctr, owed, acts>>
initVars == <<armVars, bpfVars>>

counters == select_counters(run.host, run.focus)
sampler == resolve_sampler(run.host, run.focus, run.density)
Refuses(call) == call \in refused

Zero == [c |-> 0, en |-> 0, run |-> 0]
ArmInit ==
  /\ run \in Setups /\ refused \in Refusals
  /\ ini = [pc |-> "register", probe |-> 1, cpu |-> 0]
  /\ res = [cap |-> TRUE, obj |-> FALSE, loader |-> FALSE, worker |-> FALSE]
  /\ fds = {} /\ links = {} /\ cfg = [tgid |-> 0, unwind |-> 0, nslots |-> 0, walker |-> FALSE]
  /\ park = <<>> /\ active = {} /\ got = [c \in Cpus |-> Absent] /\ precise = 0
  /\ thr = [call |-> "none", n |-> 0, off |-> Absent, blocked |-> FALSE]
  /\ tags = [k \in Calls |-> Absent] /\ gap = FALSE
  /\ hw = [c \in Cpus |-> [s \in CtrSlots |-> [now |-> Zero, last |-> Zero]]]
  /\ ctr = [s \in CtrSlots |-> 0] /\ owed = [s \in CtrSlots |-> 0] /\ acts = 0

------------------------------------------------------------------------------
(* capture_init, in its order.                                              *)

InitGoto(pc) == ini' = [ini EXCEPT !.pc = pc]
Fail == InitGoto("failed") /\ res' = [res EXCEPT !.cap = FALSE, !.obj = FALSE]

(* Register the data source; open and load the object, find its maps.        *)
RegisterAndLoad ==
  /\ ini.pc = "register"
  /\ IF Refuses(<<"register">>) \/ Refuses(<<"load">>) THEN Fail
     ELSE InitGoto("counters") /\ res' = [res EXCEPT !.obj = TRUE]
  /\ UNCHANGED <<run, refused, fds, links, cfg, park, active, got, precise, bpfVars>>

(* Open every counter on every CPU and park it at its slot; a slot is active *)
(* if CPU 0 has it.  cfg[2] is their number.                                 *)
Opened == {sc \in (0..(Len(counters) - 1)) \X Cpus : ~Refuses(<<"counter", sc[1], sc[2]>>)}
Parked == [sc \in Opened |-> counters[sc[1] + 1]]
OpenCounters ==
  /\ ini.pc = "counters"
  /\ fds' = {<<"counter", sc[1], sc[2]>> : sc \in Opened}
  /\ park' = Parked
  /\ active' = {s \in CtrSlots : <<s, 0>> \in Opened}
  /\ cfg' = [cfg EXCEPT !.nslots = Cardinality(active')]
  /\ InitGoto("target")
  /\ UNCHANGED <<run, refused, res, links, got, precise, bpfVars>>

(* cfg[0] is the target, or nothing is captured.  The object and the open    *)
(* counters are not released on this path.                                   *)
\* Mutant: a refused update is ignored.
TargetAnyway ==
  /\ ini.pc = "target"
  /\ cfg' = IF Refuses(<<"cfg">>) THEN cfg ELSE [cfg EXCEPT !.tgid = 1]
  /\ InitGoto("unwind")
  /\ UNCHANGED <<run, refused, res, fds, links, park, active, got, precise, bpfVars>>
SetTarget ==
  /\ ini.pc = "target"
  /\ IF Refuses(<<"cfg">>)
     THEN InitGoto("failed") /\ res' = [res EXCEPT !.cap = FALSE] /\ UNCHANGED cfg
     ELSE InitGoto("unwind") /\ cfg' = [cfg EXCEPT !.tgid = 1] /\ UNCHANGED res
  /\ UNCHANGED <<run, refused, fds, links, park, active, got, precise, bpfVars>>

(* The walker is registered and the table loader started, or cfg[1] stays 0. *)
ArmUnwind ==
  /\ ini.pc = "unwind"
  /\ LET wired == ~Refuses(<<"walker">>)
     IN /\ cfg' = [cfg EXCEPT !.walker = wired, !.unwind = IF wired THEN 1 ELSE 0]
        /\ res' = [res EXCEPT !.loader = wired]
  /\ InitGoto(IF run.offcpu THEN "attach" ELSE "sampler")
  /\ UNCHANGED <<run, refused, fds, links, park, active, got, precise, bpfVars>>

(* Each off-CPU program in turn, best effort.                                *)
Attach ==
  /\ ini.pc = "attach"
  /\ LET p == Probes[ini.probe]
     IN links' = IF Refuses(<<p>>) THEN links ELSE links \cup {<<p>>}
  /\ ini' = [ini EXCEPT !.probe = @ + 1, !.pc = IF ini.probe = Len(Probes) THEN "sampler" ELSE @]
  /\ UNCHANGED <<run, refused, res, fds, cfg, park, active, got, precise, bpfVars>>

(* open_sampler: the precision asked for, or the next lower one that both    *)
(* the event and the program accept.                                         *)
open_sampler(cpu) ==
  LET fit == {p \in 0..sampler.precise : ~Refuses(<<"tick", cpu, p>>)}
  IN IF fit = {} THEN Absent ELSE Max(fit)
(* The lowest precision any CPU got is what is reported.                     *)
Lowest(p) == IF \A c \in Cpus : got[c] = Absent THEN p ELSE Min({precise, p})
OpenSampler ==
  /\ ini.pc = "sampler"
  /\ LET p == IF sampler = NoSampler THEN Absent ELSE open_sampler(ini.cpu)
     IN IF p = Absent THEN UNCHANGED <<links, fds, got, precise>>
        ELSE /\ links' = links \cup {<<"tick", ini.cpu>>}
             /\ fds' = fds \cup {<<"tick", ini.cpu>>}
             /\ got' = [got EXCEPT ![ini.cpu] = p]
             /\ precise' = Lowest(p)
  /\ ini' = [ini EXCEPT !.cpu = @ + 1, !.pc = IF ini.cpu = NCpu - 1 THEN "ring" ELSE @]
  /\ UNCHANGED <<run, refused, res, cfg, park, active, bpfVars>>

(* The ring buffer and the worker; without it everything is undone.          *)
OpenRing ==
  /\ ini.pc = "ring"
  /\ IF Refuses(<<"ring">>) THEN Fail /\ links' = {} /\ fds' = {}
     ELSE InitGoto("run") /\ res' = [res EXCEPT !.worker = TRUE] /\ UNCHANGED <<links, fds>>
  /\ UNCHANGED <<run, refused, cfg, park, active, got, precise, bpfVars>>

(* shutdown: the worker and the loader are joined, then all is released.     *)
ArmShutdown ==
  /\ ini.pc = "run"
  /\ InitGoto("down") /\ links' = {} /\ fds' = {}
  /\ res' = [cap |-> FALSE, obj |-> FALSE, loader |-> FALSE, worker |-> FALSE]
  /\ UNCHANGED <<run, refused, cfg, park, active, got, precise, bpfVars>>

------------------------------------------------------------------------------
(* The thread and the probes on its way.                                    *)

Live == ini.pc \in {"attach", "sampler", "ring", "run"}
Runs == Live /\ thr.n + acts < MaxActs
On(p) == <<p>> \in links

(* A system call that may block: its entry probe stores what it is for.  A   *)
(* peer that cannot be packed is stored as 0, a read that is not of a        *)
(* regular file is not stored.                                               *)
EnterCall(k, plain) ==
  /\ Runs /\ ~thr.blocked /\ thr.call = "none"
  /\ plain \/ k # "futex"
  /\ thr' = [thr EXCEPT !.call = k, !.n = @ + 1]
  /\ tags' = IF ~On(Entered[k]) \/ (k = "read" /\ ~plain) THEN tags
             ELSE [tags EXCEPT ![k] = IF plain THEN thr.n + 1 ELSE 0]
  /\ UNCHANGED <<armVars, gap, hw, ctr, owed, acts>>
\* Mutant: the exit of a receive leaves its entry behind.
KeepPeer(k) ==
  /\ Live /\ ~thr.blocked /\ thr.call = k
  /\ thr' = [thr EXCEPT !.call = "none"]
  /\ IF On(Left[k]) THEN tags' = (IF k = "recv" THEN tags ELSE [tags EXCEPT ![k] = Absent]) /\ UNCHANGED gap
     ELSE UNCHANGED tags /\ gap' = (gap \/ tags[k] # Absent)
  /\ UNCHANGED <<armVars, hw, ctr, owed, acts>>
LeaveCall(k) ==
  /\ Live /\ ~thr.blocked /\ thr.call = k
  /\ thr' = [thr EXCEPT !.call = "none"]
  /\ IF On(Left[k]) THEN tags' = [tags EXCEPT ![k] = Absent] /\ UNCHANGED gap
     ELSE UNCHANGED tags /\ gap' = (gap \/ tags[k] # Absent)
  /\ UNCHANGED <<armVars, hw, ctr, owed, acts>>

(* on_sched_switch: offcpu_record_block as the thread goes to sleep, in a    *)
(* call or elsewhere; offcpu_emit_wake as it comes back.                     *)
offcpu_record_block ==
  IF tags["futex"] # Absent THEN tags["futex"]
  ELSE IF tags["recv"] # Absent THEN tags["recv"]
  ELSE IF tags["read"] # Absent THEN tags["read"] ELSE 0
Block ==
  /\ Live /\ ~thr.blocked
  /\ thr' = [thr EXCEPT !.blocked = TRUE,
                        !.off = IF On("sched_switch") THEN offcpu_record_block ELSE @]
  /\ UNCHANGED <<armVars, tags, gap, hw, ctr, owed, acts>>
Wake ==
  /\ Live /\ thr.blocked
  /\ thr' = [thr EXCEPT !.blocked = FALSE, !.off = IF On("sched_switch") THEN Absent ELSE @]
  /\ UNCHANGED <<armVars, tags, gap, hw, ctr, owed, acts>>

------------------------------------------------------------------------------
(* on_tick: read_advance over the first cfg[2] slots, then credit.           *)

(* The counters of a group on a CPU, opened under one leader, are scheduled  *)
(* together: what they do between two ticks is one choice.                   *)
Plus(v, l) == [c |-> v.c + l.c, en |-> v.en + l.en, run |-> v.run + l.run]

(* The count since the last reading, scaled up by enabled / running, at most *)
(* eight times.                                                              *)
Scaled(now, last) ==
  LET dc == now.c - last.c  den == now.en - last.en  drun == now.run - last.run
  IN IF drun > 0 /\ den > drun THEN (dc * Min({den, drun * 8})) \div drun ELSE dc

(* The reading becomes the last one whoever was running.                     *)
\* Mutant: only for a tick of the target.
AdvanceOfTarget(v, mine) == IF mine THEN v.now ELSE v.last
Advance(v, mine) == v.now

Tick(cpu, mine, load, junk) ==
  /\ Runs /\ <<"tick", cpu>> \in links
  /\ mine => ~thr.blocked
  /\ LET here == {s \in CtrSlots : <<s, cpu>> \in DOMAIN park}
         at == [s \in CtrSlots |-> IF s \in here
                  THEN [hw[cpu][s] EXCEPT !.now = Plus(@, load[role_group(park[<<s, cpu>>])])]
                  ELSE hw[cpu][s]]
         read == {s \in here : s < cfg.nslots}
         dc == [s \in CtrSlots |-> IF s \in read THEN Scaled(at[s].now, at[s].last)
                                ELSE IF s < cfg.nslots THEN 0 ELSE junk]
     IN /\ hw' = [hw EXCEPT ![cpu] =
                    [s \in CtrSlots |-> IF s \in read THEN [at[s] EXCEPT !.last = Advance(at[s], mine)]
                                     ELSE at[s]]]
        /\ ctr' = IF mine THEN [s \in CtrSlots |-> ctr[s] + dc[s]] ELSE ctr
        /\ owed' = IF mine THEN [s \in CtrSlots |->
                      IF <<s, cpu>> \in Opened
                      THEN owed[s] + load[role_group(counters[s + 1])].c ELSE owed[s]] ELSE owed
  /\ acts' = acts + 1
  /\ UNCHANGED <<armVars, thr, tags, gap>>

ArmNext ==
  \/ RegisterAndLoad \/ OpenCounters \/ SetTarget \/ ArmUnwind \/ Attach \/ OpenSampler
  \/ OpenRing \/ ArmShutdown
  \/ \E k \in Calls : LeaveCall(k) \/ \E p \in BOOLEAN : EnterCall(k, p)
  \/ Block \/ Wake
  \/ \E c \in Cpus, m \in BOOLEAN, l \in [0..1 -> Loads], j \in Junk : Tick(c, m, l, j)
ArmSpec == ArmInit /\ [][ArmNext]_initVars

------------------------------------------------------------------------------
(* Properties.                                                              *)

(* No program is attached before it is told the one process it is to watch   *)
(* (0 means every process); a set-up that fails, wherever it does, leaves    *)
(* none attached and - the refused target aside - nothing open; nor does a   *)
(* shutdown.                                                                 *)
AimedOnly ==
  /\ links # {} => cfg.tgid = 1 /\ res.cap /\ res.obj
  /\ ini.pc \in {"failed", "down"} =>
       /\ links = {} /\ ~res.cap /\ ~res.worker
       /\ Refuses(<<"cfg">>) \/ (fds = {} /\ ~res.obj)

(* What a running capture reports of itself is so: every CPU that is sampled *)
(* has at least the precision reported and one has just that, the event is   *)
(* the one the focus asks for, with a period; the walker is called only if   *)
(* it is there and its tables are being loaded.                              *)
ReportedTrue ==
  ini.pc = "run" =>
    LET on == {c \in Cpus : got[c] # Absent}
    IN /\ on # {} => precise = Min({got[c] : c \in on})
       /\ on = {c \in Cpus : <<"tick", c>> \in links}
       /\ on # {} => sampler.period >= 1 /\ sampler.leader = spec(run.focus).leader
       /\ cfg.unwind = 1 => cfg.walker /\ res.loader

(* However far arming gets and whichever calls are refused, what is armed is *)
(* aimed at the target, told of truly and not left behind.                   *)
ArmedTrue == AimedOnly /\ ReportedTrue

(* What is shipped under a counter's name is that counter's: at least what   *)
(* it counted over the intervals that ended in a tick of the thread, and at  *)
(* most eight times that; for the slots the BPF side reads.                  *)
CountsOwn ==
  \A s \in active : s < cfg.nslots => owed[s] <= ctr[s] /\ ctr[s] <= 8 * owed[s]

(* A block is named after the call the thread blocks in, or not at all,      *)
(* unless an entry was left behind for want of an exit probe.                *)
BlockNamed ==
  thr.off # Absent /\ ~gap => thr.off \in {0, IF thr.call = "none" THEN 0 ELSE thr.n}

(* sched.bpf.c:402 "reading only the live slots": every counter announced in *)
(* the trace is one the tick reads.                                          *)
AnnouncedRead == active \subseteq 0..(cfg.nslots - 1)
=============================================================================
