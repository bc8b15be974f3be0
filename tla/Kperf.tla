-------------------------------- MODULE Kperf --------------------------------
(***************************************************************************)
(* sismo-core/src/sched/kperf.rs and kperf_sample.rs: macOS stack samples.  *)
(* kperf is armed by a list of sysctls that may each fail; then the kernel  *)
(* logs every sample as a group of events, and two consumers of one event   *)
(* stream reassemble the stacks and each claim those that their own trigger *)
(* announced.  The ring may lose events anywhere in a group.                *)
(***************************************************************************)
EXTENDS Naturals, FiniteSets, Sequences, SequencesExt

CONSTANTS Threads,     \* threads of the target
          Wanted,      \* samplers asked for: a subset of {"off", "on"}
          Slots,       \* bases an image can be loaded at
          UserLens,    \* frame counts a user stack header announces
          KernLens,    \* and a kernel stack header
          MAX_FRAMES,  \* a header is trusted up to this many frames (256)
          PcsPerEvent, \* frames in one data event (4)
          ReloadEvery, \* samples between enumerations of the images (512)
          EmptyRetry,  \* the same while the table is empty (8)
          Followed,    \* the consumer whose emitter is followed (they share nothing)
          MaxGroups,   \* samples the kernel takes
          MaxLost,     \* events the ring loses
          MaxImages    \* images that are loaded during the recording

ASSUME KperfAssumption ==
  /\ Wanted \subseteq {"off", "on"} /\ Followed \in Wanted /\ UserLens \subseteq Nat /\ KernLens \subseteq Nat
  /\ MAX_FRAMES \in Nat \ {0} /\ PcsPerEvent \in Nat \ {0}
  /\ EmptyRetry \in Nat /\ ReloadEvery \in Nat /\ EmptyRetry <= ReloadEvery

Consumers == {"off", "on"}

VARIABLES step,   \* arm: the sysctls still to be set, in order
          ctl,    \* kperf: [state, set (the knobs that took), sampling]
          taken,  \* samples so far; the number of a sample is its timestamp
          dropped, \* events the ring lost so far
          log,    \* per thread: events of its current sample, not yet read
          cur,    \* ghost, per thread: that sample, and is it whole so far?
          prev,   \* ghost, per thread and trigger: was the last sample of it whole?
          con,    \* per consumer: its pending triggers and stacks
          images, \* slots with an image
          em      \* the emitter of the consumer Followed
kperfVars == <<step, ctl, taken, dropped, log, cur, prev, con, images, em>>

------------------------------------------------------------------------------
(* arm and disarm.                                                          *)

(* Actions are numbered from 1 in declaration order, the enabled ones only.  *)
ActionId(c) == IF c = "on" /\ "off" \in Wanted THEN 2 ELSE 1
Knob(name, id) == <<name, id>>
configure(c) ==
  <<Knob("samplers", ActionId(c)), Knob("ucallstack_depth", ActionId(c))>>
    \o (IF c = "on" THEN <<Knob("kcallstack_depth", ActionId(c))>> ELSE <<>>)
    \o <<Knob("filter_by_pid", ActionId(c))>>
If(c, steps) == IF c \in Wanted THEN steps ELSE <<>>
\* Mutant: sampling is started before the pid filters are set.
SamplingFirst ==
  <<Knob("reset", 0), Knob("action_count", Cardinality(Wanted)), Knob("sampling", 0)>>
    \o If("off", configure("off")) \o If("on", configure("on"))
    \o If("off", <<Knob("wait_threshold", 0), Knob("wait_action", ActionId("off"))>>)
    \o If("on", <<Knob("timer_count", 0), Knob("timer_period", 0),
                  Knob("timer_action", ActionId("on"))>>)
ArmSteps ==
  <<Knob("reset", 0), Knob("action_count", Cardinality(Wanted))>>
    \o If("off", configure("off")) \o If("on", configure("on"))
    \o If("off", <<Knob("wait_threshold", 0), Knob("wait_action", ActionId("off"))>>)
    \o If("on", <<Knob("timer_count", 0), Knob("timer_period", 0),
                  Knob("timer_action", ActionId("on"))>>)
    \o <<Knob("sampling", 0)>>

NoSample == [ts |-> 0, pid |-> FALSE, frames |-> <<>>, kernel |-> <<>>]
NoStack == [want |-> 0, frames |-> <<>>, open |-> FALSE]
EmptyConsumer == [trig |-> [t \in Threads |-> 0], pid |-> [t \in Threads |-> FALSE],
                  building |-> [t \in Threads |-> NoStack],
                  building_kernel |-> [t \in Threads |-> NoStack],
                  kernel_done |-> [t \in Threads |-> <<>>]]

NewEmitter == [mods |-> {}, since |-> 0, missed |-> 0]
NoGroup == [ts |-> 0, by |-> "on", user |-> <<>>, kernel |-> <<>>, whole |-> TRUE]
AllWhole == [on |-> TRUE, off |-> TRUE, any |-> TRUE]
target == <<taken, dropped, log, cur, prev, images>>

(* One sysctl of arm: it takes, or arm returns the error, leaving what was   *)
(* set before (the ring host disarms when it shuts down).                    *)
Set(k) == CASE k[1] = "reset" -> [ctl EXCEPT !.set = {}]
            [] k[1] = "sampling" -> [ctl EXCEPT !.sampling = TRUE]
            [] OTHER -> [ctl EXCEPT !.set = @ \cup {k}]
arm ==
  /\ ctl.state = "arming"
  /\ \/ /\ step # <<>>
        /\ step' = Tail(step) /\ ctl' = Set(Head(step)) /\ UNCHANGED em
     \/ /\ step # <<>> /\ step' = <<>> /\ ctl' = [ctl EXCEPT !.state = "failed"]
        /\ UNCHANGED em
     \/ /\ step = <<>> /\ ctl' = [ctl EXCEPT !.state = "armed"]
        (* PerfEmitter::new enumerates the images; that may fail.            *)
        /\ \E m \in {images, {}} : em' = [em EXCEPT !.mods = m]
        /\ UNCHANGED step
  /\ UNCHANGED <<target, con>>
(* shutdown: the worker has left, and the ring and the consumers with it;    *)
(* then disarm.                                                              *)
disarm ==
  /\ ctl.state # "off"
  /\ ctl' = [state |-> "off", set |-> {}, sampling |-> FALSE] /\ step' = <<>>
  /\ taken' = 0 /\ dropped' = 0 /\ log' = [t \in Threads |-> <<>>]
  /\ cur' = [t \in Threads |-> NoGroup] /\ prev' = [t \in Threads |-> AllWhole]
  /\ con' = [c \in Consumers |-> EmptyConsumer] /\ em' = NewEmitter
  /\ UNCHANGED images

------------------------------------------------------------------------------
(* The kernel: a sample of a thread, as the events logged for it.           *)

Ev(what, n, pcs) == [what |-> what, n |-> n, pcs |-> pcs]
Frames(kind, g, s, n) == [i \in 1..n |-> <<kind, g, i, s>>]
(* The data events of a stack: the last one is padded with zeros.            *)
DataEvents(what, frames) ==
  [e \in 1..((Len(frames) + PcsPerEvent - 1) \div PcsPerEvent) |->
     Ev(what, 0, [i \in 1..PcsPerEvent |->
       IF (e - 1) * PcsPerEvent + i <= Len(frames) THEN frames[(e - 1) * PcsPerEvent + i]
       ELSE <<>>])]
Stack(hdr, data, frames) == <<Ev(hdr, Len(frames), <<>>)>> \o DataEvents(data, frames)
kperf_sample(c, t, s, un, kn) ==
  LET g == taken + 1
      user == Frames("u", g, s, un)
      kfrs == IF c = "on" THEN Frames("k", g, s, kn) ELSE <<>>
  IN /\ ctl.sampling /\ ctl.state = "armed"
     /\ taken < MaxGroups /\ log[t] = <<>> /\ s \in images
     /\ Knob(IF c = "on" THEN "timer_action" ELSE "wait_action", ActionId(c)) \in ctl.set
     /\ taken' = g
     /\ log' = [log EXCEPT ![t] =
          <<Ev(IF c = "on" THEN "FIRE" ELSE "WAIT", g, <<>>), Ev("TI", 0, <<>>)>>
            \o (IF c = "on" THEN Stack("KHDR", "KDATA", kfrs) ELSE <<>>)
            \o Stack("UHDR", "UDATA", user)]
     /\ cur' = [cur EXCEPT ![t] = [ts |-> g, by |-> c, user |-> user, kernel |-> kfrs,
                                   whole |-> un > 0]]
        /\ UNCHANGED <<step, ctl, dropped, prev, con, images, em>>

(* An image is loaded.                                                       *)
Dlopen(s) ==
  /\ s \notin images /\ Cardinality(images) < MaxImages
  /\ images' = images \cup {s}
  /\ UNCHANGED <<step, ctl, taken, dropped, log, cur, prev, con, em>>

------------------------------------------------------------------------------
(* UserStacks and the two decoders.                                         *)

(* on_uhdr and on_khdr start a stack, dropping one that was not completed.   *)
Header(n) == [want |-> IF n < MAX_FRAMES THEN n ELSE MAX_FRAMES, frames |-> <<>>, open |-> TRUE]
\* Mutant: the padding of the last event is kept.
push_all(p, pcs) == [p EXCEPT !.frames = @ \o pcs]
push_pcs(p, pcs) ==
  [p EXCEPT !.frames = FoldLeft(LAMBDA fs, pc : IF Len(fs) < p.want THEN Append(fs, pc) ELSE fs,
                                @, pcs)]
Full(p) == Len(p.frames) >= p.want

\* Mutant: both consumers take the trigger of the timer for theirs.
TimerTrigger(c) == "FIRE"
TriggerOf(c) == IF c = "on" THEN "FIRE" ELSE "WAIT"

(* on_udata completes the user stack: the thread's pending trigger claims    *)
(* it, and with it the parked kernel stack; without one it is dropped.       *)
Claim(k, t, p) ==
  IF k.trig[t] = 0
  THEN <<[k EXCEPT !.building[t] = NoStack], NoSample>>
  ELSE <<[k EXCEPT !.building[t] = NoStack, !.trig[t] = 0, !.kernel_done[t] = <<>>],
         [ts |-> k.trig[t], pid |-> k.pid[t], frames |-> p.frames,
          kernel |-> k.kernel_done[t]]>>
on_udata(k, t, e) ==
  LET p == push_pcs(k.building[t], e.pcs)
  IN IF ~k.building[t].open THEN <<k, NoSample>>
     ELSE IF ~Full(p) THEN <<[k EXCEPT !.building[t] = p], NoSample>>
     ELSE Claim(k, t, p)
on_kdata(k, t, e) ==
  LET p == push_pcs(k.building_kernel[t], e.pcs)
  IN IF ~k.building_kernel[t].open THEN k
     ELSE IF ~Full(p) THEN [k EXCEPT !.building_kernel[t] = p]
     ELSE [k EXCEPT !.building_kernel[t] = NoStack, !.kernel_done[t] = p.frames]

(* decode: the consumer after the event, and the sample it completed.        *)
decode(c, k, t, e) ==
  CASE e.what = TriggerOf(c) -> <<[k EXCEPT !.trig[t] = e.n], NoSample>>
    [] e.what = "TI" -> <<[k EXCEPT !.pid[t] = TRUE], NoSample>>
    [] e.what = "KHDR" /\ c = "on" ->
         <<[k EXCEPT !.building_kernel[t] = Header(e.n)], NoSample>>
    [] e.what = "KDATA" /\ c = "on" -> <<on_kdata(k, t, e), NoSample>>
    [] e.what = "UHDR" -> <<[k EXCEPT !.building[t] = Header(e.n)], NoSample>>
    [] e.what = "UDATA" -> on_udata(k, t, e)
    [] OTHER -> <<k, NoSample>>

------------------------------------------------------------------------------
(* PerfEmitter::emit: the module table is read again when it misses a frame, *)
(* at most every ReloadEvery samples, sooner while it is empty; a frame that *)
(* no module covers is dropped.                                              *)

Misses(mods, smp) == \E i \in DOMAIN smp.frames : smp.frames[i] # <<>> /\ smp.frames[i][4] \notin mods
\* Mutant: an empty table is not retried sooner.
DueAlike(m, smp) == m.since + 1 > ReloadEvery /\ Misses(m.mods, smp)
Due(m, smp) ==
  /\ m.since + 1 > (IF m.mods = {} THEN EmptyRetry ELSE ReloadEvery)
  /\ m.mods = {} \/ Misses(m.mods, smp)
(* missed is a ghost: the samples in a row that lost a frame of a loaded     *)
(* image since the table was last read.                                      *)
emit(m, smp) ==
  IF smp = NoSample THEN {m}
  ELSE {[mods |-> x, since |-> IF Due(m, smp) THEN 0 ELSE m.since + 1,
         missed |-> IF ~Misses(x, smp) \/ Due(m, smp) THEN 0 ELSE m.missed + 1] :
        x \in IF Due(m, smp) THEN {images, {}} ELSE {m.mods}}

------------------------------------------------------------------------------
(* on_drain: the next event of a thread, given to both consumers; or lost.  *)

Done(t) == Len(log[t]) = 1
Judge(t, whole) ==
  IF Done(t)
  THEN /\ prev' = [prev EXCEPT ![t] = [@ EXCEPT ![cur[t].by] = whole, !["any"] = whole]]
       /\ cur' = [cur EXCEPT ![t] = NoGroup]
  ELSE cur' = [cur EXCEPT ![t].whole = whole] /\ UNCHANGED prev
drain_event(t) ==
  /\ log[t] # <<>>
  /\ LET r == [c \in Wanted |-> decode(c, con[c], t, Head(log[t]))]
     IN /\ con' = [c \in Consumers |-> IF c \in Wanted THEN r[c][1] ELSE con[c]]
        /\ em' \in emit(em, r[Followed][2])
  /\ log' = [log EXCEPT ![t] = Tail(@)]
  /\ Judge(t, cur[t].whole)
  /\ UNCHANGED <<step, ctl, taken, dropped, images>>
Lose(t) ==
  /\ log[t] # <<>> /\ dropped < MaxLost
  /\ log' = [log EXCEPT ![t] = Tail(@)] /\ dropped' = dropped + 1
  /\ Judge(t, FALSE)
  /\ UNCHANGED <<step, ctl, taken, con, images, em>>

KperfInit ==
  /\ step = ArmSteps /\ ctl = [state |-> "arming", set |-> {}, sampling |-> FALSE]
  /\ taken = 0 /\ dropped = 0 /\ log = [t \in Threads |-> <<>>]
  /\ cur = [t \in Threads |-> NoGroup] /\ prev = [t \in Threads |-> AllWhole]
  /\ con = [c \in Consumers |-> EmptyConsumer]
  /\ images \in {{s} : s \in Slots}
  /\ em = NewEmitter

KperfNext ==
  \/ arm \/ disarm
  \/ \E s \in Slots : Dlopen(s)
  \/ \E t \in Threads : drain_event(t) \/ Lose(t)
  \/ \E c \in Wanted, t \in Threads, s \in Slots, un \in UserLens, kn \in KernLens :
       kperf_sample(c, t, s, un, kn)

KperfSpec == KperfInit /\ [][KperfNext]_kperfVars

------------------------------------------------------------------------------
(* Properties.                                                              *)

(* While kperf samples, every action that a trigger starts takes user stacks *)
(* of the target's threads only; after disarm nothing is left set.           *)
SamplingFiltered ==
  /\ ctl.sampling => \A k \in ctl.set : k[1] \in {"wait_action", "timer_action"} =>
       {Knob("samplers", k[2]), Knob("filter_by_pid", k[2])} \subseteq ctl.set
  /\ ctl.sampling => Cardinality(Wanted) =
       Cardinality({k \in ctl.set : k[1] \in {"wait_action", "timer_action"}})

(* The next event of t is read; what c emits on it; and is it the one that   *)
(* brings the last frame that is wanted?                                     *)
Reads(t) == log[t] # <<>> /\ log'[t] = Tail(log[t]) /\ dropped' = dropped /\ ctl' = ctl
Emits(c, t) == decode(c, con[c], t, Head(log[t]))[2]
Cut(frames) == SubSeq(frames, 1, IF Len(frames) < MAX_FRAMES THEN Len(frames) ELSE MAX_FRAMES)
BringsLast(t) ==
  LET Events(n) == (n + PcsPerEvent - 1) \div PcsPerEvent
  IN Len(log[t]) = 1 + Events(Len(cur[t].user)) - Events(Len(Cut(cur[t].user)))
Other(c) == IF c = "on" THEN "off" ELSE "on"

(* A sample whose events all arrived is emitted by the consumer of its       *)
(* trigger with its own time, process and frames, whatever was lost of other *)
(* samples before; its kernel frames too, unless it has none and an earlier  *)
(* timer sample of the thread was damaged.                                   *)
WholeExact ==
  [][\A t \in Threads : Reads(t) /\ cur[t].whole /\ BringsLast(t) =>
       LET s == cur[t]
           got == Emits(s.by, t)
       IN /\ got.ts = s.ts /\ got.pid /\ got.frames = Cut(s.user)
          /\ s.kernel # <<>> \/ prev[t].on => got.kernel = Cut(s.kernel)]_kperfVars

(* The other consumer leaves it alone if the thread's sample before it       *)
(* arrived whole: one good sample resynchronizes the two.                    *)
DemuxClean ==
  [][\A t \in Threads : Reads(t) /\ cur[t].whole /\ prev[t].any =>
       Emits(Other(cur[t].by), t) = NoSample]_kperfVars

(* Frames of a loaded image are lost for at most ReloadEvery samples between *)
(* two enumerations, EmptyRetry while the last one found nothing.            *)
DropsBounded ==
  em.missed <= IF em.mods = {} THEN EmptyRetry ELSE ReloadEvery
=============================================================================
