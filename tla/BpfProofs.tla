----------------------------- MODULE BpfProofs -----------------------------
(***************************************************************************)
(* Proofs about BpfInit and BpfCapture: arming the Linux capture under any  *)
(* refusals of the kernel, the counters and tags of its programs, and the   *)
(* module files it holds while the target maps, unmaps and rebuilds them.   *)
(***************************************************************************)
EXTENDS BpfCapture, BpfInit, FiniteSetTheorems, WellFoundedInduction, TLAPS

------------------------------------------------------------------------------
(* The invariant of arming.                                                 *)

Phases == {"register", "counters", "target", "unwind", "attach", "sampler", "ring", "run",
           "failed", "down"}
Early == {"register", "counters"}
Ended == {"failed", "down"}
Reading == [c : Nat, en : Nat, run : Nat]
Counter == [now : Reading, last : Reading]

Progress == [pc : Phases, probe : Nat, cpu : Nat]
Resources == [cap : BOOLEAN, obj : BOOLEAN, loader : BOOLEAN, worker : BOOLEAN]
Config == [tgid : {0, 1}, unwind : {0, 1}, nslots : Nat, walker : BOOLEAN]

ArmTypes ==
  /\ run \in Setups
  /\ ini \in Progress /\ res \in Resources /\ cfg \in Config
  /\ got \in [Cpus -> {Absent, 0, 1, 2}] /\ precise \in {0, 1, 2}
ThreadOK ==
  /\ thr \in [call : Calls \cup {"none"}, n : Nat, off : Int, blocked : BOOLEAN]
  /\ tags \in [Calls -> Int] /\ gap \in BOOLEAN

(* What is acquired at each step of capture_init, and released on each path. *)
Stages ==
  /\ ini.pc \in Early \cup {"target", "unwind"} \cup Ended => links = {}
  /\ ini.pc \in {"unwind", "attach", "sampler", "ring", "run"} => cfg.tgid = 1
  /\ ini.pc \notin Ended => res.cap
  /\ ini.pc \notin Ended \cup {"register"} => res.obj
  /\ ini.pc = "register" => fds = {}
  /\ ini.pc # "run" => ~res.worker
  /\ ini.pc \in Ended => ~res.cap /\ (Refuses(<<"cfg">>) \/ (fds = {} /\ ~res.obj))

(* A CPU's sampler, once open, is linked; the reported precision is the      *)
(* lowest so far; CPUs from ini.cpu on are still to come.                    *)
Sampled(c) == got[c] # Absent
SamplersTold ==
  /\ ini.pc = "sampler" => ini.cpu < NCpu
  /\ ini.pc \in Early \cup {"target", "unwind", "attach"} => ini.cpu = 0
  /\ \A c \in Cpus : c >= ini.cpu => ~Sampled(c)
  /\ ini.pc \notin Ended => \A c \in Cpus : Sampled(c) <=> <<"tick", c>> \in links
  /\ \A c \in Cpus : Sampled(c) =>
       precise <= got[c] /\ (\E d \in Cpus : got[d] = precise) /\ sampler # NoSampler
WalkerTold ==
  /\ cfg.unwind = 1 => cfg.walker
  /\ cfg.unwind = 1 /\ ini.pc \notin Ended => res.loader

(* A tag is of the call the thread is in; a block record is of the block     *)
(* the thread is in.                                                         *)
TagsOfCall ==
  ~gap => \A k \in Calls : tags[k] # Absent => thr.call = k /\ tags[k] \in {0, thr.n}
BlockOpen ==
  thr.off # Absent => thr.blocked /\ (ini.pc \in Ended \/ (Live /\ On("sched_switch")))

(* After every tick what a slot in use has counted is what was last read;    *)
(* so the next reading adds the load of one interval.                        *)
Untouched ==
  ini.pc \in Early => \A s \in CtrSlots : ctr[s] = 0 /\ owed[s] = 0
Levels ==
  /\ hw \in [Cpus -> [CtrSlots -> Counter]]
  /\ \A c \in Cpus, s \in CtrSlots :
       ini.pc \in Early \/ s < cfg.nslots => hw[c][s].last = hw[c][s].now
Slotted ==
  /\ active \subseteq CtrSlots
  /\ ini.pc \notin Early \cup Ended => park = Parked
Credited ==
  /\ ctr \in [CtrSlots -> Nat] /\ owed \in [CtrSlots -> Nat]
  /\ \A s \in CtrSlots : s < cfg.nslots => owed[s] <= ctr[s] /\ ctr[s] <= 8 * owed[s]

ArmInv ==
  /\ ArmTypes /\ Stages /\ SamplersTold /\ WalkerTold
  /\ ThreadOK /\ TagsOfCall /\ BlockOpen /\ BlockNamed
  /\ Untouched /\ Levels /\ Slotted /\ Credited

------------------------------------------------------------------------------
(* Facts about the operators.                                               *)

(* The system calls that are followed.                                        *)
LEMMA CallsAre == Calls = {"futex", "recv", "read"}
BY DEF Calls, Entered

(* The larger of two numbers.                                                 *)
LEMMA MaxPair ==
  \A a, b \in Int : Max({a, b}) \in {a, b} /\ Max({a, b}) >= a /\ Max({a, b}) >= b
<1> TAKE a, b \in Int
<1>1. \E x \in {a, b} : \A y \in {a, b} : x >= y
  <2>1. CASE a >= b
    BY <2>1
  <2>2. CASE b >= a
    BY <2>2
  <2> QED BY <2>1, <2>2
<1>2. Max({a, b}) \in {a, b} /\ \A y \in {a, b} : Max({a, b}) >= y
  BY <1>1 DEF Max
<1> QED BY <1>2

(* The smaller of two numbers.                                                *)
LEMMA MinPair ==
  \A a, b \in Int : Min({a, b}) \in {a, b} /\ Min({a, b}) <= a /\ Min({a, b}) <= b
<1> TAKE a, b \in Int
<1>1. \E x \in {a, b} : \A y \in {a, b} : x <= y
  <2>1. CASE a <= b
    BY <2>1
  <2>2. CASE b <= a
    BY <2>2
  <2> QED BY <2>1, <2>2
<1>2. Min({a, b}) \in {a, b} /\ \A y \in {a, b} : Min({a, b}) <= y
  BY <1>1 DEF Min
<1> QED BY <1>2

(* The counter slots are the first few numbers.                               *)
LEMMA SlotsFinite == IsFiniteSet(CtrSlots) /\ CtrSlots \subseteq Nat
<1>1. Len(VM_HACK_COUNTERS) = 7
  BY DEF VM_HACK_COUNTERS
<1>2. Max({Len(VM_HACK_COUNTERS), MaxCounters}) \in Int
  <2>1. 7 \in Int /\ MaxCounters \in Int
    BY InitAssumption
  <2>2. Max({7, MaxCounters}) \in {7, MaxCounters}
    BY <2>1, MaxPair, Zenon
  <2> QED BY <1>1, <2>1, <2>2
<1> QED BY <1>2, FS_Interval DEF CtrSlots

(* The event that is sampled: the precision asked for, the event of the focus *)
(* and a period, whatever the density scales it by.                           *)
LEMMA SamplerFacts ==
  ASSUME run \in Setups
  PROVE  /\ sampler.precise \in {0, 2}
         /\ sampler # NoSampler => sampler.period >= 1 /\ sampler.leader = spec(run.focus).leader
<1> DEFINE s == spec(run.focus)
           q == scale_period(s.period, run.density)
<1>1. /\ s = [leader |-> s.leader, precise |-> s.precise, period |-> s.period]
      /\ s.precise \in {0, 2} /\ s.period \in Nat /\ s.period >= 1
  BY DEF spec
<1>2. q \in Int /\ q >= 1
  <2> DEFINE d == run.density
  <2>1. CASE d = <<>>
    BY <1>1, <2>1 DEF scale_period
  <2>2. CASE d \in (Nat \ {0}) \X (Nat \ {0})
    <3>1. d[1] \in Nat /\ d[1] > 0 /\ d[2] \in Nat /\ d # <<>>
      BY <2>2
    <3> HIDE DEF d, s
    <3>2. (s.period * d[2]) \in Int
      BY <1>1, <3>1
    <3>3. (s.period * d[2]) \div d[1] \in Int
      BY <3>1, <3>2
    <3> DEFINE z == (s.period * d[2]) \div d[1]
    <3>4. q = Max({1, z})
      BY <3>1 DEF scale_period, d
    <3>5. z \in Int
      BY <3>3
    <3> HIDE DEF z, q
    <3>6. Max({1, z}) \in {1, z} /\ Max({1, z}) >= 1
      <4>1. 1 \in Int
        OBVIOUS
      <4> QED BY <3>5, <4>1, MaxPair, Zenon
    <3> QED BY <3>4, <3>5, <3>6
  <2> QED BY <2>1, <2>2, InitAssumption
<1>3. \/ sampler = s \/ sampler = NoSampler
      \/ sampler = [s EXCEPT !.period = q]
  BY DEF sampler, resolve_sampler
<1> HIDE DEF s, q
<1>4. CASE sampler = [s EXCEPT !.period = q]
  <2>1. [s EXCEPT !.period = q] = [leader |-> s.leader, precise |-> s.precise, period |-> q]
    BY <1>1
  <2>2. sampler.precise = s.precise /\ sampler.period = q /\ sampler.leader = s.leader
    BY <1>4, <2>1
  <2> QED BY <1>1, <1>2, <2>2 DEF s
<1>5. CASE sampler = NoSampler
  BY <1>5 DEF NoSampler
<1>6. CASE sampler = s
  BY <1>1, <1>6 DEF s
<1> QED BY <1>3, <1>4, <1>5, <1>6

(* open_sampler gets a precision up to the one asked for, or none.            *)
LEMMA PrecisionFits ==
  ASSUME run \in Setups, NEW c \in Cpus PROVE open_sampler(c) \in {Absent, 0, 1, 2}
<1> DEFINE fit == {p \in 0..sampler.precise : ~Refuses(<<"tick", c, p>>)}
<1>1. fit \subseteq {0, 1, 2}
  BY SamplerFacts
<1>2. CASE fit # {}
  <2> HIDE DEF fit
  <2>1. \E x \in fit : \A y \in fit : x >= y
    <3>1. CASE 2 \in fit
      BY <1>1, <3>1
    <3>2. CASE 2 \notin fit /\ 1 \in fit
      BY <1>1, <3>2
    <3>3. CASE 2 \notin fit /\ 1 \notin fit
      <4>1. fit = {0}
        BY <1>1, <1>2, <3>3
      <4> QED BY <4>1
    <3> QED BY <3>1, <3>2, <3>3
  <2>2. Max(fit) \in fit
    BY <2>1 DEF Max
  <2>3. open_sampler(c) = Max(fit)
    BY <1>2 DEF open_sampler, fit
  <2> QED BY <1>1, <2>2, <2>3
<1>3. CASE fit = {}
  BY <1>3 DEF open_sampler
<1> QED BY <1>2, <1>3

------------------------------------------------------------------------------
(* Every step of arming, of the thread and of the tick.                     *)

(* What is acquired follows the step capture_init is at.                      *)
LEMMA StagesStep == ASSUME ArmInv, [ArmNext]_initVars PROVE Stages'
<1> USE InitAssumption DEF ArmInv, ArmTypes, Progress, Resources, Config, Phases, Stages, Early,
     Ended, Refuses
<1>1. CASE RegisterAndLoad
  <2>1. CASE Refuses(<<"register">>) \/ Refuses(<<"load">>)
    <3>1. Fail /\ fds' = fds /\ links' = links /\ refused' = refused
      BY <1>1, <2>1 DEF RegisterAndLoad, armVars, bpfVars, InitGoto, Fail
    <3>2. ini'.pc = "failed" /\ ~res'.cap /\ ~res'.obj /\ res'.worker = res.worker
      BY <3>1 DEF Fail, InitGoto
    <3> QED BY <1>1, <3>1, <3>2 DEF RegisterAndLoad
  <2>2. CASE ~(Refuses(<<"register">>) \/ Refuses(<<"load">>))
    <3>1. InitGoto("counters") /\ res' = [res EXCEPT !.obj = TRUE]
      BY <1>1, <2>2 DEF RegisterAndLoad
    <3>2. ini'.pc = "counters" /\ res'.cap = res.cap /\ res'.obj /\ res'.worker = res.worker
      BY <3>1 DEF InitGoto
    <3> QED BY <1>1, <3>2 DEF RegisterAndLoad
  <2> QED BY <2>1, <2>2
<1>2. CASE OpenCounters
  BY <1>2 DEF OpenCounters, armVars, bpfVars, InitGoto, Fail
<1>3. CASE SetTarget
  BY <1>3 DEF SetTarget, armVars, bpfVars, InitGoto, Fail
<1>4. CASE ArmUnwind
  BY <1>4 DEF ArmUnwind, armVars, bpfVars, InitGoto, Fail
<1>5. CASE Attach
  BY <1>5 DEF Attach, armVars, bpfVars, InitGoto, Fail
<1>6. CASE OpenSampler
  BY <1>6 DEF OpenSampler, armVars, bpfVars, InitGoto, Fail
<1>7. CASE OpenRing
  <2>1. CASE Refuses(<<"ring">>)
    <3>1. Fail /\ fds' = {} /\ links' = {} /\ refused' = refused
      BY <1>7, <2>1 DEF OpenRing, armVars, bpfVars, InitGoto, Fail
    <3>2. ini'.pc = "failed" /\ ~res'.cap /\ ~res'.obj /\ res'.worker = res.worker
      BY <3>1 DEF Fail, InitGoto
    <3> QED BY <1>7, <3>1, <3>2 DEF OpenRing
  <2>2. CASE ~Refuses(<<"ring">>)
    BY <1>7, <2>2 DEF OpenRing, armVars, bpfVars, InitGoto, Fail
  <2> QED BY <2>1, <2>2
<1>8. CASE ArmShutdown
  BY <1>8 DEF ArmShutdown, armVars, bpfVars, InitGoto, Fail
<1>9. ASSUME NEW k \in Calls, LeaveCall(k) PROVE Stages'
  BY <1>9 DEF LeaveCall, armVars, bpfVars, InitGoto, Fail
<1>10. ASSUME NEW k \in Calls, NEW p \in BOOLEAN, EnterCall(k, p) PROVE Stages'
  BY <1>10 DEF EnterCall, armVars, bpfVars, InitGoto, Fail
<1>11. CASE Block
  BY <1>11 DEF Block, armVars, bpfVars, InitGoto, Fail
<1>12. CASE Wake
  BY <1>12 DEF Wake, armVars, bpfVars, InitGoto, Fail
<1>13. ASSUME NEW c \in Cpus, NEW m \in BOOLEAN, NEW l \in [0..1 -> Loads], NEW j \in Junk,
     Tick(c, m, l, j) PROVE Stages'
  <2>1. UNCHANGED <<armVars, thr, tags, gap>>
    BY <1>13 DEF Tick
  <2> QED BY <2>1 DEF armVars
<1>14. CASE UNCHANGED initVars
  BY <1>14 DEF initVars, armVars, bpfVars
<1> HIDE DEF ArmInv, ArmTypes, Progress, Resources, Config, Phases, Stages, Early, Ended, Refuses
<1> QED BY <1>1, <1>2, <1>3, <1>4, <1>5, <1>6, <1>7, <1>8, <1>9, <1>10, <1>11, <1>12, <1>13, <1>14
        DEF ArmNext

(* The walker is announced only if it is there.                               *)
LEMMA WalkerStep == ASSUME ArmInv, [ArmNext]_initVars PROVE WalkerTold'
<1> USE InitAssumption DEF ArmInv, ArmTypes, Progress, Resources, Config, Phases, WalkerTold, Ended
<1>1. CASE RegisterAndLoad
  BY <1>1 DEF RegisterAndLoad, armVars, bpfVars, InitGoto, Fail
<1>2. CASE OpenCounters
  BY <1>2 DEF OpenCounters, armVars, bpfVars, InitGoto, Fail
<1>3. CASE SetTarget
  BY <1>3 DEF SetTarget, armVars, bpfVars, InitGoto, Fail
<1>4. CASE ArmUnwind
  <2> DEFINE wired == ~Refuses(<<"walker">>)
             u == IF wired THEN 1 ELSE 0
             a == IF run.offcpu THEN "attach" ELSE "sampler"
  <2>1. wired \in BOOLEAN /\ u \in {0, 1} /\ (u = 1 => wired) /\ a \in {"attach", "sampler"}
    OBVIOUS
  <2>2. /\ cfg' = [cfg EXCEPT !.walker = wired, !.unwind = u]
        /\ res' = [res EXCEPT !.loader = wired] /\ ini' = [ini EXCEPT !.pc = a]
    BY <1>4 DEF ArmUnwind, InitGoto
  <2> HIDE DEF wired, u, a
  <2> QED BY <1>4, <2>1, <2>2 DEF ArmUnwind
<1>5. CASE Attach
  BY <1>5 DEF Attach, armVars, bpfVars, InitGoto, Fail
<1>6. CASE OpenSampler
  BY <1>6 DEF OpenSampler, armVars, bpfVars, InitGoto, Fail
<1>7. CASE OpenRing
  BY <1>7 DEF OpenRing, armVars, bpfVars, InitGoto, Fail
<1>8. CASE ArmShutdown
  BY <1>8 DEF ArmShutdown, armVars, bpfVars, InitGoto, Fail
<1>9. ASSUME NEW k \in Calls, LeaveCall(k) PROVE WalkerTold'
  BY <1>9 DEF LeaveCall, armVars, bpfVars, InitGoto, Fail
<1>10. ASSUME NEW k \in Calls, NEW p \in BOOLEAN, EnterCall(k, p) PROVE WalkerTold'
  BY <1>10 DEF EnterCall, armVars, bpfVars, InitGoto, Fail
<1>11. CASE Block
  BY <1>11 DEF Block, armVars, bpfVars, InitGoto, Fail
<1>12. CASE Wake
  BY <1>12 DEF Wake, armVars, bpfVars, InitGoto, Fail
<1>13. ASSUME NEW c \in Cpus, NEW m \in BOOLEAN, NEW l \in [0..1 -> Loads], NEW j \in Junk,
     Tick(c, m, l, j) PROVE WalkerTold'
  <2>1. UNCHANGED <<armVars, thr, tags, gap>>
    BY <1>13 DEF Tick
  <2> QED BY <2>1 DEF armVars
<1>14. CASE UNCHANGED initVars
  BY <1>14 DEF initVars, armVars, bpfVars
<1> HIDE DEF ArmInv, ArmTypes, Progress, Resources, Config, Phases, WalkerTold, Ended
<1> QED BY <1>1, <1>2, <1>3, <1>4, <1>5, <1>6, <1>7, <1>8, <1>9, <1>10, <1>11, <1>12, <1>13, <1>14
        DEF ArmNext

(* The thread and its tags keep their types.                                  *)
LEMMA ThreadStep == ASSUME ArmInv, [ArmNext]_initVars PROVE ThreadOK'
<1> USE InitAssumption, CallsAre DEF ArmInv, ThreadOK
<1>1. CASE RegisterAndLoad
  BY <1>1 DEF RegisterAndLoad, armVars, bpfVars, InitGoto, Fail
<1>2. CASE OpenCounters
  BY <1>2 DEF OpenCounters, armVars, bpfVars, InitGoto, Fail
<1>3. CASE SetTarget
  BY <1>3 DEF SetTarget, armVars, bpfVars, InitGoto, Fail
<1>4. CASE ArmUnwind
  BY <1>4 DEF ArmUnwind, armVars, bpfVars, InitGoto, Fail
<1>5. CASE Attach
  BY <1>5 DEF Attach, armVars, bpfVars, InitGoto, Fail
<1>6. CASE OpenSampler
  BY <1>6 DEF OpenSampler, armVars, bpfVars, InitGoto, Fail
<1>7. CASE OpenRing
  BY <1>7 DEF OpenRing, armVars, bpfVars, InitGoto, Fail
<1>8. CASE ArmShutdown
  BY <1>8 DEF ArmShutdown, armVars, bpfVars, InitGoto, Fail
<1>9. ASSUME NEW k \in Calls, LeaveCall(k) PROVE ThreadOK'
  <2>1. thr' = [thr EXCEPT !.call = "none"]
    BY <1>9 DEF LeaveCall
  <2>2. tags' = tags \/ tags' = [tags EXCEPT ![k] = Absent]
    BY <1>9 DEF LeaveCall
  <2>3. tags' \in [Calls -> Int]
    BY <2>2 DEF Absent
  <2>4. gap' = gap \/ gap' = (gap \/ tags[k] # Absent)
    BY <1>9 DEF LeaveCall
  <2>5. gap' \in BOOLEAN
    BY <2>4, Zenon
  <2> QED BY <2>1, <2>3, <2>5
<1>10. ASSUME NEW k \in Calls, NEW p \in BOOLEAN, EnterCall(k, p) PROVE ThreadOK'
  <2> DEFINE v == IF p THEN thr.n + 1 ELSE 0
  <2>1. v \in Int
    OBVIOUS
  <2>2. thr' = [thr EXCEPT !.call = k, !.n = @ + 1] /\ gap' = gap
    BY <1>10 DEF EnterCall
  <2>3. tags' = tags \/ tags' = [tags EXCEPT ![k] = v]
    BY <1>10 DEF EnterCall
  <2> HIDE DEF v
  <2>4. tags' \in [Calls -> Int]
    BY <2>1, <2>3
  <2>5. thr' \in [call : Calls \cup {"none"}, n : Nat, off : Int, blocked : BOOLEAN]
    <3> DEFINE m == thr.n + 1
               C == Calls \cup {"none"}
    <3>1. m \in Nat /\ k \in C
      OBVIOUS
    <3>2. thr' = [thr EXCEPT !.call = k, !.n = m]
      BY <2>2
    <3>3. thr \in [call : C, n : Nat, off : Int, blocked : BOOLEAN]
      OBVIOUS
    <3> HIDE DEF m, C
    <3>4. thr' \in [call : C, n : Nat, off : Int, blocked : BOOLEAN]
      BY <3>1, <3>2, <3>3
    <3> QED BY <3>4 DEF C
  <2> QED BY <2>2, <2>4, <2>5
<1>11. CASE Block
  <2> DEFINE o == IF On("sched_switch") THEN offcpu_record_block ELSE thr.off
  <2>1. o \in Int
    BY DEF Absent, offcpu_record_block
  <2>2. thr' = [thr EXCEPT !.blocked = TRUE, !.off = o] /\ tags' = tags /\ gap' = gap
    BY <1>11 DEF Block
  <2> HIDE DEF o
  <2> QED BY <2>1, <2>2
<1>12. CASE Wake
  <2> DEFINE o == IF On("sched_switch") THEN Absent ELSE thr.off
  <2>1. o \in Int
    BY DEF Absent, offcpu_record_block
  <2>2. thr' = [thr EXCEPT !.blocked = FALSE, !.off = o] /\ tags' = tags /\ gap' = gap
    BY <1>12 DEF Wake
  <2> HIDE DEF o
  <2> QED BY <2>1, <2>2
<1>13. ASSUME NEW c \in Cpus, NEW m \in BOOLEAN, NEW l \in [0..1 -> Loads], NEW j \in Junk,
     Tick(c, m, l, j) PROVE ThreadOK'
  <2>1. UNCHANGED <<armVars, thr, tags, gap>>
    BY <1>13 DEF Tick
  <2> QED BY <2>1 DEF armVars
<1>14. CASE UNCHANGED initVars
  BY <1>14 DEF initVars, armVars, bpfVars
<1> HIDE DEF ArmInv, ThreadOK
<1> QED BY <1>1, <1>2, <1>3, <1>4, <1>5, <1>6, <1>7, <1>8, <1>9, <1>10, <1>11, <1>12, <1>13, <1>14
        DEF ArmNext

(* A tag is of the call the thread is in.                                     *)
LEMMA TagsStep == ASSUME ArmInv, [ArmNext]_initVars PROVE TagsOfCall'
<1> USE InitAssumption, CallsAre DEF ArmInv, ThreadOK, TagsOfCall
<1>1. CASE RegisterAndLoad
  BY <1>1 DEF RegisterAndLoad, armVars, bpfVars, InitGoto, Fail
<1>2. CASE OpenCounters
  BY <1>2 DEF OpenCounters, armVars, bpfVars, InitGoto, Fail
<1>3. CASE SetTarget
  BY <1>3 DEF SetTarget, armVars, bpfVars, InitGoto, Fail
<1>4. CASE ArmUnwind
  BY <1>4 DEF ArmUnwind, armVars, bpfVars, InitGoto, Fail
<1>5. CASE Attach
  BY <1>5 DEF Attach, armVars, bpfVars, InitGoto, Fail
<1>6. CASE OpenSampler
  BY <1>6 DEF OpenSampler, armVars, bpfVars, InitGoto, Fail
<1>7. CASE OpenRing
  BY <1>7 DEF OpenRing, armVars, bpfVars, InitGoto, Fail
<1>8. CASE ArmShutdown
  BY <1>8 DEF ArmShutdown, armVars, bpfVars, InitGoto, Fail
<1>9. ASSUME NEW k \in Calls, LeaveCall(k) PROVE TagsOfCall'
  BY <1>9 DEF LeaveCall, armVars, bpfVars, InitGoto, Fail
<1>10. ASSUME NEW k \in Calls, NEW p \in BOOLEAN, EnterCall(k, p) PROVE TagsOfCall'
  BY <1>10 DEF EnterCall, armVars, bpfVars, InitGoto, Fail
<1>11. CASE Block
  BY <1>11 DEF Block, armVars, bpfVars, InitGoto, Fail
<1>12. CASE Wake
  BY <1>12 DEF Wake, armVars, bpfVars, InitGoto, Fail
<1>13. ASSUME NEW c \in Cpus, NEW m \in BOOLEAN, NEW l \in [0..1 -> Loads], NEW j \in Junk,
     Tick(c, m, l, j) PROVE TagsOfCall'
  <2>1. UNCHANGED <<armVars, thr, tags, gap>>
    BY <1>13 DEF Tick
  <2> QED BY <2>1 DEF armVars
<1>14. CASE UNCHANGED initVars
  BY <1>14 DEF initVars, armVars, bpfVars
<1> HIDE DEF ArmInv, ThreadOK, TagsOfCall
<1> QED BY <1>1, <1>2, <1>3, <1>4, <1>5, <1>6, <1>7, <1>8, <1>9, <1>10, <1>11, <1>12, <1>13, <1>14
        DEF ArmNext

(* A block record is open only while the thread is blocked.                   *)
LEMMA BlockOpenStep == ASSUME ArmInv, [ArmNext]_initVars PROVE BlockOpen'
<1> USE InitAssumption, CallsAre DEF ArmInv, ArmTypes, Progress, Resources, Config, Phases,
     ThreadOK, BlockOpen, Live, On, Ended
<1>1. CASE RegisterAndLoad
  BY <1>1 DEF RegisterAndLoad, armVars, bpfVars, InitGoto, Fail
<1>2. CASE OpenCounters
  BY <1>2 DEF OpenCounters, armVars, bpfVars, InitGoto, Fail
<1>3. CASE SetTarget
  BY <1>3 DEF SetTarget, armVars, bpfVars, InitGoto, Fail
<1>4. CASE ArmUnwind
  BY <1>4 DEF ArmUnwind, armVars, bpfVars, InitGoto, Fail
<1>5. CASE Attach
  BY <1>5 DEF Attach, armVars, bpfVars, InitGoto, Fail
<1>6. CASE OpenSampler
  BY <1>6 DEF OpenSampler, armVars, bpfVars, InitGoto, Fail
<1>7. CASE OpenRing
  BY <1>7 DEF OpenRing, armVars, bpfVars, InitGoto, Fail
<1>8. CASE ArmShutdown
  BY <1>8 DEF ArmShutdown, armVars, bpfVars, InitGoto, Fail
<1>9. ASSUME NEW k \in Calls, LeaveCall(k) PROVE BlockOpen'
  BY <1>9 DEF LeaveCall, armVars, bpfVars, InitGoto, Fail
<1>10. ASSUME NEW k \in Calls, NEW p \in BOOLEAN, EnterCall(k, p) PROVE BlockOpen'
  BY <1>10 DEF EnterCall, armVars, bpfVars, InitGoto, Fail
<1>11. CASE Block
  BY <1>11 DEF Block, armVars, bpfVars, InitGoto, Fail
<1>12. CASE Wake
  BY <1>12 DEF Wake, armVars, bpfVars, InitGoto, Fail
<1>13. ASSUME NEW c \in Cpus, NEW m \in BOOLEAN, NEW l \in [0..1 -> Loads], NEW j \in Junk,
     Tick(c, m, l, j) PROVE BlockOpen'
  <2>1. UNCHANGED <<armVars, thr, tags, gap>>
    BY <1>13 DEF Tick
  <2> QED BY <2>1 DEF armVars
<1>14. CASE UNCHANGED initVars
  BY <1>14 DEF initVars, armVars, bpfVars
<1> HIDE DEF ArmInv, ArmTypes, Progress, Resources, Config, Phases, ThreadOK, BlockOpen, Live,
     On, Ended
<1> QED BY <1>1, <1>2, <1>3, <1>4, <1>5, <1>6, <1>7, <1>8, <1>9, <1>10, <1>11, <1>12, <1>13, <1>14
        DEF ArmNext

(* A block is named after its call.                                           *)
LEMMA NamedStep == ASSUME ArmInv, [ArmNext]_initVars PROVE BlockNamed'
<1> USE InitAssumption, CallsAre DEF ArmInv, ArmTypes, Progress, Resources, Config, Phases,
     ThreadOK, BlockOpen, BlockNamed, TagsOfCall, Live, On, Ended, offcpu_record_block
<1>1. CASE RegisterAndLoad
  BY <1>1 DEF RegisterAndLoad, armVars, bpfVars, InitGoto, Fail
<1>2. CASE OpenCounters
  BY <1>2 DEF OpenCounters, armVars, bpfVars, InitGoto, Fail
<1>3. CASE SetTarget
  BY <1>3 DEF SetTarget, armVars, bpfVars, InitGoto, Fail
<1>4. CASE ArmUnwind
  BY <1>4 DEF ArmUnwind, armVars, bpfVars, InitGoto, Fail
<1>5. CASE Attach
  BY <1>5 DEF Attach, armVars, bpfVars, InitGoto, Fail
<1>6. CASE OpenSampler
  BY <1>6 DEF OpenSampler, armVars, bpfVars, InitGoto, Fail
<1>7. CASE OpenRing
  BY <1>7 DEF OpenRing, armVars, bpfVars, InitGoto, Fail
<1>8. CASE ArmShutdown
  BY <1>8 DEF ArmShutdown, armVars, bpfVars, InitGoto, Fail
<1>9. ASSUME NEW k \in Calls, LeaveCall(k) PROVE BlockNamed'
  BY <1>9 DEF LeaveCall, armVars, bpfVars, InitGoto, Fail
<1>10. ASSUME NEW k \in Calls, NEW p \in BOOLEAN, EnterCall(k, p) PROVE BlockNamed'
  BY <1>10 DEF EnterCall, armVars, bpfVars, InitGoto, Fail
<1>11. CASE Block
  BY <1>11 DEF Block, armVars, bpfVars, InitGoto, Fail
<1>12. CASE Wake
  BY <1>12 DEF Wake, armVars, bpfVars, InitGoto, Fail
<1>13. ASSUME NEW c \in Cpus, NEW m \in BOOLEAN, NEW l \in [0..1 -> Loads], NEW j \in Junk,
     Tick(c, m, l, j) PROVE BlockNamed'
  <2>1. UNCHANGED <<armVars, thr, tags, gap>>
    BY <1>13 DEF Tick
  <2> QED BY <2>1 DEF armVars
<1>14. CASE UNCHANGED initVars
  BY <1>14 DEF initVars, armVars, bpfVars
<1> HIDE DEF ArmInv, ArmTypes, Progress, Resources, Config, Phases, ThreadOK, BlockOpen,
     BlockNamed, TagsOfCall, Live, On, Ended, offcpu_record_block
<1> QED BY <1>1, <1>2, <1>3, <1>4, <1>5, <1>6, <1>7, <1>8, <1>9, <1>10, <1>11, <1>12, <1>13, <1>14
        DEF ArmNext

(* No tick is taken before the counters are open.                             *)
LEMMA UntouchedStep == ASSUME ArmInv, [ArmNext]_initVars PROVE Untouched'
<1> USE InitAssumption DEF ArmInv, ArmTypes, Progress, Resources, Config, Phases, Untouched,
     Early, Live, Runs
<1>1. CASE RegisterAndLoad
  BY <1>1 DEF RegisterAndLoad, armVars, bpfVars, InitGoto, Fail
<1>2. CASE OpenCounters
  BY <1>2 DEF OpenCounters, armVars, bpfVars, InitGoto, Fail
<1>3. CASE SetTarget
  BY <1>3 DEF SetTarget, armVars, bpfVars, InitGoto, Fail
<1>4. CASE ArmUnwind
  BY <1>4 DEF ArmUnwind, armVars, bpfVars, InitGoto, Fail
<1>5. CASE Attach
  BY <1>5 DEF Attach, armVars, bpfVars, InitGoto, Fail
<1>6. CASE OpenSampler
  BY <1>6 DEF OpenSampler, armVars, bpfVars, InitGoto, Fail
<1>7. CASE OpenRing
  BY <1>7 DEF OpenRing, armVars, bpfVars, InitGoto, Fail
<1>8. CASE ArmShutdown
  BY <1>8 DEF ArmShutdown, armVars, bpfVars, InitGoto, Fail
<1>9. ASSUME NEW k \in Calls, LeaveCall(k) PROVE Untouched'
  BY <1>9 DEF LeaveCall, armVars, bpfVars, InitGoto, Fail
<1>10. ASSUME NEW k \in Calls, NEW p \in BOOLEAN, EnterCall(k, p) PROVE Untouched'
  BY <1>10 DEF EnterCall, armVars, bpfVars, InitGoto, Fail
<1>11. CASE Block
  BY <1>11 DEF Block, armVars, bpfVars, InitGoto, Fail
<1>12. CASE Wake
  BY <1>12 DEF Wake, armVars, bpfVars, InitGoto, Fail
<1>13. ASSUME NEW c \in Cpus, NEW m \in BOOLEAN, NEW l \in [0..1 -> Loads], NEW j \in Junk,
     Tick(c, m, l, j) PROVE Untouched'
  BY <1>13 DEF Tick, armVars, bpfVars, InitGoto, Fail
<1>14. CASE UNCHANGED initVars
  BY <1>14 DEF initVars, armVars, bpfVars
<1> HIDE DEF ArmInv, ArmTypes, Progress, Resources, Config, Phases, Untouched, Early, Live, Runs
<1> QED BY <1>1, <1>2, <1>3, <1>4, <1>5, <1>6, <1>7, <1>8, <1>9, <1>10, <1>11, <1>12, <1>13, <1>14
        DEF ArmNext

(* The slots are settled when the counters are opened.                        *)
LEMMA SlottedStep == ASSUME ArmInv, [ArmNext]_initVars PROVE Slotted'
<1> USE InitAssumption DEF ArmInv, ArmTypes, Progress, Resources, Config, Phases, Slotted, Early,
     Ended, Parked, Opened, counters, Refuses
<1>1. CASE RegisterAndLoad
  BY <1>1 DEF RegisterAndLoad, armVars, bpfVars, InitGoto, Fail
<1>2. CASE OpenCounters
  BY <1>2 DEF OpenCounters, armVars, bpfVars, InitGoto, Fail
<1>3. CASE SetTarget
  BY <1>3 DEF SetTarget, armVars, bpfVars, InitGoto, Fail
<1>4. CASE ArmUnwind
  BY <1>4 DEF ArmUnwind, armVars, bpfVars, InitGoto, Fail
<1>5. CASE Attach
  BY <1>5 DEF Attach, armVars, bpfVars, InitGoto, Fail
<1>6. CASE OpenSampler
  BY <1>6 DEF OpenSampler, armVars, bpfVars, InitGoto, Fail
<1>7. CASE OpenRing
  BY <1>7 DEF OpenRing, armVars, bpfVars, InitGoto, Fail
<1>8. CASE ArmShutdown
  BY <1>8 DEF ArmShutdown, armVars, bpfVars, InitGoto, Fail
<1>9. ASSUME NEW k \in Calls, LeaveCall(k) PROVE Slotted'
  BY <1>9 DEF LeaveCall, armVars, bpfVars, InitGoto, Fail
<1>10. ASSUME NEW k \in Calls, NEW p \in BOOLEAN, EnterCall(k, p) PROVE Slotted'
  BY <1>10 DEF EnterCall, armVars, bpfVars, InitGoto, Fail
<1>11. CASE Block
  BY <1>11 DEF Block, armVars, bpfVars, InitGoto, Fail
<1>12. CASE Wake
  BY <1>12 DEF Wake, armVars, bpfVars, InitGoto, Fail
<1>13. ASSUME NEW c \in Cpus, NEW m \in BOOLEAN, NEW l \in [0..1 -> Loads], NEW j \in Junk,
     Tick(c, m, l, j) PROVE Slotted'
  <2>1. UNCHANGED <<armVars, thr, tags, gap>>
    BY <1>13 DEF Tick
  <2> QED BY <2>1 DEF armVars
<1>14. CASE UNCHANGED initVars
  BY <1>14 DEF initVars, armVars, bpfVars
<1> HIDE DEF ArmInv, ArmTypes, Progress, Resources, Config, Phases, Slotted, Early, Ended,
     Parked, Opened, counters, Refuses
<1> QED BY <1>1, <1>2, <1>3, <1>4, <1>5, <1>6, <1>7, <1>8, <1>9, <1>10, <1>11, <1>12, <1>13, <1>14
        DEF ArmNext

(* A step of capture_init changes its place only.                             *)
LEMMA PlaceMoves ==
  ASSUME ini \in Progress, NEW x \in Phases, ini' = [ini EXCEPT !.pc = x]
  PROVE  ini' \in Progress /\ ini'.pc = x /\ ini'.cpu = ini.cpu
BY DEF Progress

(* So does a step of a loop, and moves its counter.                           *)
LEMMA LoopMoves ==
  ASSUME ini \in Progress, NEW x \in Phases, NEW n \in Nat
  PROVE  /\ [ini EXCEPT !.probe = n, !.pc = x] \in Progress
         /\ [ini EXCEPT !.cpu = n, !.pc = x] \in Progress
         /\ [ini EXCEPT !.probe = n, !.pc = x].cpu = ini.cpu
         /\ [ini EXCEPT !.cpu = n, !.pc = x].cpu = n
         /\ [ini EXCEPT !.probe = n, !.pc = x].pc = x
         /\ [ini EXCEPT !.cpu = n, !.pc = x].pc = x
BY DEF Progress

(* Resources are acquired and released by flags.                              *)
LEMMA ResourcesMove ==
  ASSUME res \in Resources, NEW a \in BOOLEAN, NEW b \in BOOLEAN
  PROVE  /\ [res EXCEPT !.cap = a, !.obj = b] \in Resources
         /\ [res EXCEPT !.cap = a] \in Resources /\ [res EXCEPT !.obj = a] \in Resources
         /\ [res EXCEPT !.worker = a] \in Resources
BY DEF Resources

(* What Attach does to the place and the links.                               *)
LEMMA AttachMoves ==
  ASSUME ArmInv, Attach
  PROVE  /\ ini' \in Progress /\ ini'.cpu = ini.cpu /\ ini'.pc \in {"attach", "sampler"}
         /\ links' = links \/ links' = links \cup {<<Probes[ini.probe]>>}
<1> DEFINE x == IF ini.probe = Len(Probes) THEN "sampler" ELSE ini.pc
           n == ini.probe + 1
<1>1. ini \in Progress /\ ini.pc = "attach"
  BY DEF ArmInv, ArmTypes, Attach
<1>2. x \in {"attach", "sampler"} /\ x \in Phases /\ n \in Nat
  BY <1>1 DEF Progress, Phases
<1>3. ini' = [ini EXCEPT !.probe = n, !.pc = x]
  BY DEF Attach
<1>4. links' = links \/ links' = links \cup {<<Probes[ini.probe]>>}
  BY DEF Attach
<1> HIDE DEF x, n
<1> QED BY <1>1, <1>2, <1>3, <1>4, LoopMoves

(* What OpenSampler does for the CPU it has come to.                          *)
LEMMA SamplerMoves ==
  ASSUME ArmInv, OpenSampler
  PROVE  /\ ini' \in Progress /\ ini'.cpu = ini.cpu + 1
         /\ ini'.pc = IF ini.cpu = NCpu - 1 THEN "ring" ELSE "sampler"
         /\ \/ UNCHANGED <<links, fds, got, precise>>
            \/ \E p \in {0, 1, 2} : /\ links' = links \cup {<<"tick", ini.cpu>>}
                                    /\ got' = [got EXCEPT ![ini.cpu] = p]
                                    /\ precise' = Lowest(p) /\ sampler # NoSampler
<1> DEFINE x == IF ini.cpu = NCpu - 1 THEN "ring" ELSE ini.pc
           n == ini.cpu + 1
           p == IF sampler = NoSampler THEN Absent ELSE open_sampler(ini.cpu)
<1>1. ini \in Progress /\ ini.pc = "sampler" /\ run \in Setups /\ ini.cpu \in Cpus
  BY InitAssumption DEF ArmInv, ArmTypes, OpenSampler, SamplersTold, Cpus, Progress
<1>2. x = (IF ini.cpu = NCpu - 1 THEN "ring" ELSE "sampler") /\ x \in Phases /\ n \in Nat
  BY <1>1 DEF Progress, Phases
<1>3. ini' = [ini EXCEPT !.cpu = n, !.pc = x]
  BY DEF OpenSampler
<1>4. p \in {Absent, 0, 1, 2} /\ (p # Absent => sampler # NoSampler)
  BY <1>1, PrecisionFits
<1>5. \/ UNCHANGED <<links, fds, got, precise>>
      \/ /\ p # Absent /\ links' = links \cup {<<"tick", ini.cpu>>}
         /\ got' = [got EXCEPT ![ini.cpu] = p] /\ precise' = Lowest(p)
  BY DEF OpenSampler
<1>6. ini' \in Progress /\ ini'.cpu = n /\ ini'.pc = x
  <2> HIDE DEF x, n
  <2> QED BY <1>1, <1>2, <1>3, LoopMoves
<1> HIDE DEF p
<1> QED BY <1>2, <1>4, <1>5, <1>6

(* Arming keeps its types.                                                    *)
LEMMA ArmTypesStep == ASSUME ArmInv, [ArmNext]_initVars PROVE ArmTypes'
<1> USE InitAssumption DEF ArmInv, ArmTypes, Phases
<1>1. CASE RegisterAndLoad
  <2>1. PICK x \in {"failed", "counters"} : ini' = [ini EXCEPT !.pc = x]
    BY <1>1 DEF RegisterAndLoad, Fail, InitGoto
  <2>2. ini' \in Progress
    BY <2>1, PlaceMoves
  <2>3. TRUE \in BOOLEAN /\ FALSE \in BOOLEAN
    BY Zenon
  <2>4. res' = [res EXCEPT !.cap = FALSE, !.obj = FALSE] \/ res' = [res EXCEPT !.obj = TRUE]
    BY <1>1 DEF RegisterAndLoad, Fail
  <2>5. res' \in Resources
    BY <2>3, <2>4, ResourcesMove
  <2> QED BY <2>2, <2>5, <1>1 DEF RegisterAndLoad
<1>2. CASE OpenCounters
  <2>1. ini' \in Progress
    BY <1>2, PlaceMoves DEF OpenCounters, InitGoto
  <2>2. active' \subseteq CtrSlots
    BY <1>2 DEF OpenCounters
  <2>3. Cardinality(active') \in Nat
    BY <2>2, SlotsFinite, FS_Subset, FS_CardinalityType
  <2>4. cfg' = [cfg EXCEPT !.nslots = Cardinality(active')]
    BY <1>2 DEF OpenCounters
  <2>5. cfg' \in Config
    BY <2>3, <2>4 DEF Config
  <2> QED BY <2>1, <2>5, <1>2 DEF OpenCounters
<1>3. CASE SetTarget
  <2>1. PICK x \in {"failed", "unwind"} : ini' = [ini EXCEPT !.pc = x]
    BY <1>3 DEF SetTarget, InitGoto
  <2>2. ini' \in Progress
    BY <2>1, PlaceMoves
  <2>3. FALSE \in BOOLEAN
    BY Zenon
  <2>4. res' = res \/ res' = [res EXCEPT !.cap = FALSE]
    BY <1>3 DEF SetTarget
  <2>5. res' \in Resources
    BY <2>3, <2>4, ResourcesMove
  <2>6. cfg' = cfg \/ cfg' = [cfg EXCEPT !.tgid = 1]
    BY <1>3 DEF SetTarget
  <2>7. cfg' \in Config
    BY <2>6 DEF Config
  <2> QED BY <2>2, <2>5, <2>7, <1>3 DEF SetTarget
<1>4. CASE ArmUnwind
  <2> DEFINE wired == ~Refuses(<<"walker">>)
             u == IF wired THEN 1 ELSE 0
             a == IF run.offcpu THEN "attach" ELSE "sampler"
  <2>1. wired \in BOOLEAN /\ u \in {0, 1} /\ a \in Phases
    OBVIOUS
  <2>2. /\ cfg' = [cfg EXCEPT !.walker = wired, !.unwind = u]
        /\ res' = [res EXCEPT !.loader = wired] /\ ini' = [ini EXCEPT !.pc = a]
    BY <1>4 DEF ArmUnwind, InitGoto
  <2> HIDE DEF wired, u, a
  <2>3. cfg' \in Config
    BY <2>1, <2>2 DEF Config
  <2>4. res' \in Resources
    BY <2>1, <2>2 DEF Resources
  <2>5. ini' \in Progress
    BY <2>1, <2>2, PlaceMoves
  <2> QED BY <2>3, <2>4, <2>5, <1>4 DEF ArmUnwind
<1>5. CASE Attach
  BY <1>5, AttachMoves DEF Attach
<1>6. CASE OpenSampler
  <2>1. ini' \in Progress
    BY <1>6, SamplerMoves
  <2>2. CASE UNCHANGED <<links, fds, got, precise>>
    BY <1>6, <2>1, <2>2 DEF OpenSampler
  <2>3. ASSUME NEW p \in {0, 1, 2}, got' = [got EXCEPT ![ini.cpu] = p], precise' = Lowest(p)
        PROVE  ArmTypes'
    <3>1. got' \in [Cpus -> {Absent, 0, 1, 2}]
      BY <2>3
    <3>2. Min({precise, p}) \in {precise, p}
      <4>1. precise \in Int /\ p \in Int
        OBVIOUS
      <4> QED BY <4>1, MinPair, Zenon
    <3>3. precise' \in {0, 1, 2}
      BY <2>3, <3>2 DEF Lowest
    <3> QED BY <1>6, <2>1, <3>1, <3>3 DEF OpenSampler
  <2> QED BY <1>6, <2>2, <2>3, SamplerMoves
<1>7. CASE OpenRing
  <2>1. PICK x \in {"failed", "run"} : ini' = [ini EXCEPT !.pc = x]
    BY <1>7 DEF OpenRing, Fail, InitGoto
  <2>2. ini' \in Progress
    BY <2>1, PlaceMoves
  <2>3. TRUE \in BOOLEAN /\ FALSE \in BOOLEAN
    BY Zenon
  <2>4. res' = [res EXCEPT !.cap = FALSE, !.obj = FALSE] \/ res' = [res EXCEPT !.worker = TRUE]
    BY <1>7 DEF OpenRing, Fail
  <2>5. res' \in Resources
    BY <2>3, <2>4, ResourcesMove
  <2> QED BY <2>2, <2>5, <1>7 DEF OpenRing
<1>8. CASE ArmShutdown
  <2>1. ini' \in Progress
    BY <1>8, PlaceMoves DEF ArmShutdown, InitGoto
  <2>2. FALSE \in BOOLEAN
    BY Zenon
  <2>3. res' \in Resources
    BY <1>8, <2>2 DEF ArmShutdown, Resources
  <2> QED BY <2>1, <2>3, <1>8 DEF ArmShutdown
<1>9. ASSUME NEW k \in Calls, LeaveCall(k) PROVE ArmTypes'
  BY <1>9 DEF LeaveCall, armVars, bpfVars, InitGoto, Fail
<1>10. ASSUME NEW k \in Calls, NEW p \in BOOLEAN, EnterCall(k, p) PROVE ArmTypes'
  BY <1>10 DEF EnterCall, armVars, bpfVars, InitGoto, Fail
<1>11. CASE Block
  BY <1>11 DEF Block, armVars, bpfVars, InitGoto, Fail
<1>12. CASE Wake
  BY <1>12 DEF Wake, armVars, bpfVars, InitGoto, Fail
<1>13. ASSUME NEW c \in Cpus, NEW m \in BOOLEAN, NEW l \in [0..1 -> Loads], NEW j \in Junk,
     Tick(c, m, l, j) PROVE ArmTypes'
  <2>1. UNCHANGED <<armVars, thr, tags, gap>>
    BY <1>13 DEF Tick
  <2> QED BY <2>1 DEF armVars
<1>14. CASE UNCHANGED initVars
  BY <1>14 DEF initVars, armVars, bpfVars
<1> HIDE DEF ArmInv, ArmTypes, Phases
<1> QED BY <1>1, <1>2, <1>3, <1>4, <1>5, <1>6, <1>7, <1>8, <1>9, <1>10, <1>11, <1>12, <1>13, <1>14
        DEF ArmNext

(* The reported precision is the lowest of the samplers opened, one per CPU in turn. *)
LEMMA SamplersStep == ASSUME ArmInv, [ArmNext]_initVars PROVE SamplersTold'
<1> USE InitAssumption DEF ArmInv, ArmTypes, Progress, Resources, Config, Phases, SamplersTold,
     Sampled, Stages, Early, Ended, Cpus
<1>1. CASE RegisterAndLoad
  BY <1>1 DEF RegisterAndLoad, armVars, bpfVars, InitGoto, Fail, sampler
<1>2. CASE OpenCounters
  BY <1>2 DEF OpenCounters, armVars, bpfVars, InitGoto, Fail, sampler
<1>3. CASE SetTarget
  BY <1>3 DEF SetTarget, armVars, bpfVars, InitGoto, Fail, sampler
<1>4. CASE ArmUnwind
  BY <1>4 DEF ArmUnwind, armVars, bpfVars, InitGoto, Fail, sampler
<1>5. CASE Attach
  <2> DEFINE e == <<Probes[ini.probe]>>
  <2>1. \A c : e # <<"tick", c>>
    OBVIOUS
  <2>a. links' = links \/ links' = links \cup {e}
    BY <1>5, AttachMoves
  <2>2. \A c : <<"tick", c>> \in links' <=> <<"tick", c>> \in links
    <3> TAKE c
    <3> DEFINE f == <<"tick", c>>
    <3>1. e # f
      BY <2>1
    <3> HIDE DEF e, f
    <3>2. f \in links' <=> f \in links
      BY <2>a, <3>1
    <3> QED BY <3>2 DEF f
  <2>3. ini'.cpu = ini.cpu /\ ini'.pc \in {"attach", "sampler"}
    BY <1>5, AttachMoves
  <2>4. UNCHANGED <<got, precise, run>> /\ ini.pc = "attach"
    BY <1>5 DEF Attach
  <2> QED BY <2>2, <2>3, <2>4 DEF sampler
<1>6. CASE OpenSampler
  <2>1. /\ ini'.cpu = ini.cpu + 1 /\ ini'.pc = IF ini.cpu = NCpu - 1 THEN "ring" ELSE "sampler"
        /\ run' = run /\ ini.pc = "sampler" /\ ini.cpu \in Cpus
    BY <1>6, SamplerMoves DEF OpenSampler
  <2>2. CASE UNCHANGED <<links, fds, got, precise>>
    BY <2>1, <2>2 DEF sampler
  <2>3. ASSUME NEW p \in {0, 1, 2}, links' = links \cup {<<"tick", ini.cpu>>}, sampler # NoSampler,
               got' = [got EXCEPT ![ini.cpu] = p], precise' = Lowest(p)
        PROVE  SamplersTold'
    <3>1. Min({precise, p}) \in {precise, p} /\ Min({precise, p}) <= precise /\ Min({precise,
         p}) <= p
      <4>1. precise \in Int /\ p \in Int
        OBVIOUS
      <4> QED BY <4>1, MinPair, Zenon
    <3>2. sampler' # NoSampler
      BY <2>1, <2>3 DEF sampler
    <3>3. \A c \in Cpus : got'[c] = IF c = ini.cpu THEN p ELSE got[c]
      BY <2>1, <2>3
    <3>4. \A c \in Cpus : <<"tick", c>> \in links' <=> c = ini.cpu \/ <<"tick", c>> \in links
      BY <2>3
    <3>5. \A c \in Cpus : got'[c] # Absent =>
             precise' <= got'[c] /\ (\E d \in Cpus : got'[d] = precise')
      <4>1. CASE \A c \in Cpus : got[c] = Absent
        BY <2>1, <2>3, <3>3, <4>1 DEF Lowest
      <4>2. CASE ~\A c \in Cpus : got[c] = Absent
        <5>1. precise' = Min({precise, p})
          BY <2>3, <4>2 DEF Lowest
        <5>2. got[ini.cpu] = Absent
          BY <2>1
        <5>3. PICK e \in Cpus : got[e] = precise
          BY <4>2
        <5> HIDE DEF SamplersTold
        <5>4. e # ini.cpu
          BY <5>2, <5>3 DEF Absent
        <5>5. got'[e] = precise /\ got'[ini.cpu] = p
          BY <2>1, <3>3, <5>3, <5>4
        <5>6. \E d \in Cpus : got'[d] = precise'
          BY <2>1, <3>1, <5>1, <5>5
        <5>7. \A c \in Cpus : got[c] # Absent => precise <= got[c]
          BY DEF SamplersTold
        <5>8. precise' \in Int
          BY <3>1, <5>1
        <5>9. ASSUME NEW c \in Cpus, got'[c] # Absent PROVE precise' <= got'[c]
          <6>1. CASE c = ini.cpu
            BY <3>1, <5>1, <5>5, <6>1
          <6>2. CASE c # ini.cpu
            <7>1. got'[c] = got[c] /\ precise <= got[c] /\ got[c] \in Int
              BY <3>3, <5>7, <5>9, <6>2 DEF Absent
            <7> QED BY <3>1, <5>1, <5>8, <7>1
          <6> QED BY <6>1, <6>2
        <5> QED BY <5>6, <5>9
      <4> QED BY <4>1, <4>2
    <3> QED BY <2>1, <3>2, <3>3, <3>4, <3>5 DEF Absent
  <2> QED BY <1>6, <2>2, <2>3, SamplerMoves
<1>7. CASE OpenRing
  <2>1. PICK x \in {"failed", "run"} : ini' = [ini EXCEPT !.pc = x]
    BY <1>7 DEF OpenRing, Fail, InitGoto
  <2>2. ini'.pc = x /\ ini'.cpu = ini.cpu
    BY <2>1
  <2>3. x = "run" => links' = links
    BY <1>7, <2>1 DEF OpenRing, Fail, InitGoto
  <2> QED BY <2>2, <2>3, <1>7 DEF OpenRing, sampler
<1>8. CASE ArmShutdown
  BY <1>8 DEF ArmShutdown, armVars, bpfVars, InitGoto, Fail, sampler
<1>9. ASSUME NEW k \in Calls, LeaveCall(k) PROVE SamplersTold'
  BY <1>9 DEF LeaveCall, armVars, bpfVars, InitGoto, Fail, sampler
<1>10. ASSUME NEW k \in Calls, NEW p \in BOOLEAN, EnterCall(k, p) PROVE SamplersTold'
  BY <1>10 DEF EnterCall, armVars, bpfVars, InitGoto, Fail, sampler
<1>11. CASE Block
  BY <1>11 DEF Block, armVars, bpfVars, InitGoto, Fail, sampler
<1>12. CASE Wake
  BY <1>12 DEF Wake, armVars, bpfVars, InitGoto, Fail, sampler
<1>13. ASSUME NEW c \in Cpus, NEW m \in BOOLEAN, NEW l \in [0..1 -> Loads], NEW j \in Junk,
     Tick(c, m, l, j) PROVE SamplersTold'
  <2>1. UNCHANGED <<armVars, thr, tags, gap>>
    BY <1>13 DEF Tick
  <2> QED BY <2>1 DEF armVars, sampler
<1>14. CASE UNCHANGED initVars
  BY <1>14 DEF initVars, armVars, bpfVars, sampler, InitGoto, Fail
<1> HIDE DEF ArmInv, ArmTypes, Progress, Resources, Config, Phases, SamplersTold, Sampled,
     Stages, Early, Ended, Cpus
<1> QED BY <1>1, <1>2, <1>3, <1>4, <1>5, <1>6, <1>7, <1>8, <1>9, <1>10, <1>11, <1>12, <1>13, <1>14
        DEF ArmNext

(* One interval: the count is scaled up at most eight times.                  *)
LEMMA ScaledBounds ==
  ASSUME NEW v \in Reading, NEW l, l.c \in Nat, l.en \in Nat, l.run \in 0..l.en,
       l.run = 0 => l.c = 0
  PROVE  Scaled(Plus(v, l), v) \in Nat /\ l.c <= Scaled(Plus(v, l), v) /\ Scaled(Plus(v, l),
       v) <= 8 * l.c
<1> DEFINE c == l.c
           e == l.en
           r == l.run
           n == Plus(v, l)
<1>1. v.c \in Nat /\ v.en \in Nat /\ v.run \in Nat
  BY DEF Reading
<1>2. n.c - v.c = c /\ n.en - v.en = e /\ n.run - v.run = r
  BY <1>1 DEF Plus
<1>3. c \in Nat /\ e \in Nat /\ r \in Nat /\ r <= e
  OBVIOUS
<1> DEFINE m == Min({e, r * 8})
           q == (c * m) \div r
<1>4. Scaled(n, v) = IF r > 0 /\ e > r THEN q ELSE c
  BY <1>2 DEF Scaled
<1>5. r * 8 \in Int /\ e \in Int
  BY <1>3
<1>6. m \in {e, r * 8} /\ m <= e /\ m <= r * 8
  BY <1>5, MinPair, Zenon
<1> HIDE DEF c, e, r, n, m, q
<1>7. CASE r > 0 /\ e > r
  <2>1. m \in Nat /\ r <= m /\ m <= 8 * r
    BY <1>3, <1>6, <1>7
  <2>2. c * m \in Nat /\ c * r \in Nat /\ c * r <= c * m /\ c * m <= 8 * (c * r)
    <3>1. PICK a \in Nat : m = r + a
      BY <1>3, <2>1
    <3>2. PICK b \in Nat : 8 * r = m + b
      BY <1>3, <2>1
    <3>3. c * a \in Nat /\ c * b \in Nat /\ c * m \in Nat /\ c * r \in Nat
      BY <1>3, <2>1, <3>1, <3>2
    <3>4. c * m = c * r + c * a
      BY <1>3, <3>1
    <3>5. c * (8 * r) = c * m + c * b
      BY <1>3, <2>1, <3>2
    <3>6. c * (8 * r) = 8 * (c * r)
      BY <1>3
    <3> HIDE DEF m
    <3> QED BY <3>3, <3>4, <3>5, <3>6
  <2>3. q \in Nat /\ q * r <= c * m /\ c * m < q * r + r
    <3> DEFINE x == c * m
    <3>1. x \in Nat
      BY <2>2
    <3>2. q = x \div r
      BY DEF q
    <3> HIDE DEF x
    <3>3. q \in Nat /\ q * r <= x /\ x < q * r + r
      BY <1>3, <1>7, <3>1, <3>2
    <3> QED BY <3>3 DEF x
  <2>4. c <= q
    <3> SUFFICES ASSUME q < c PROVE FALSE
      BY <1>3, <2>3
    <3>1. PICK a \in Nat : c = q + 1 + a
      BY <1>3, <2>3
    <3>2. c * r = q * r + r + a * r /\ a * r \in Nat /\ q * r \in Nat
      BY <1>3, <2>3, <3>1
    <3> QED BY <1>3, <2>2, <2>3, <3>2
  <2>5. q <= 8 * c
    <3> SUFFICES ASSUME 8 * c < q PROVE FALSE
      BY <1>3, <2>3
    <3>1. PICK a \in Nat : q = 8 * c + 1 + a
      BY <1>3, <2>3
    <3>2. q * r = 8 * (c * r) + r + a * r /\ a * r \in Nat /\ c * r \in Nat
      BY <1>3, <2>3, <3>1
    <3> QED BY <1>3, <1>7, <2>2, <2>3, <3>2
  <2> QED BY <1>4, <1>7, <2>3, <2>4, <2>5 DEF n, c
<1>8. CASE ~(r > 0 /\ e > r)
  BY <1>3, <1>4, <1>8 DEF n, c
<1> QED BY <1>7, <1>8

(* A tick on CPU c: what each slot counted, and what the thread is credited.  *)
Here(c) == {s \in CtrSlots : <<s, c>> \in DOMAIN park}
At(c, l, s) ==
  IF s \in Here(c) THEN [hw[c][s] EXCEPT !.now = Plus(@, l[role_group(park[<<s,
       c>>])])] ELSE hw[c][s]
InUse(c) == {s \in Here(c) : s < cfg.nslots}
Credit(c, l, j, s) ==
  IF s \in InUse(c) THEN Scaled(At(c, l, s).now, At(c, l, s).last)
  ELSE IF s < cfg.nslots THEN 0 ELSE j

(* The tick in these terms.                                                   *)
LEMMA TickIs ==
  ASSUME NEW c \in Cpus, NEW m \in BOOLEAN, NEW l, NEW j, Tick(c, m, l, j)
  PROVE  /\ hw' = [hw EXCEPT ![c] =
                     [s \in CtrSlots |-> IF s \in InUse(c) THEN [At(c, l,
                          s) EXCEPT !.last = At(c, l, s).now]
                                         ELSE At(c, l, s)]]
         /\ ctr' = IF m THEN [s \in CtrSlots |-> ctr[s] + Credit(c, l, j, s)] ELSE ctr
         /\ owed' = IF m THEN [s \in CtrSlots |->
                        IF <<s, c>> \in Opened THEN owed[s] + l[role_group(counters[s + 1])].c
                        ELSE owed[s]] ELSE owed
<1> DEFINE at == [s \in CtrSlots |-> At(c, l, s)]
           read == {s \in Here(c) : s < cfg.nslots}
           dc == [s \in CtrSlots |-> IF s \in read THEN Scaled(at[s].now, at[s].last)
                                     ELSE IF s < cfg.nslots THEN 0 ELSE j]
<1>1. /\ hw' = [hw EXCEPT ![c] =
                  [s \in CtrSlots |-> IF s \in read THEN [at[s] EXCEPT !.last = at[s].now] ELSE at[s]]]
      /\ ctr' = IF m THEN [s \in CtrSlots |-> ctr[s] + dc[s]] ELSE ctr
      /\ owed' = IF m THEN [s \in CtrSlots |->
                     IF <<s, c>> \in Opened THEN owed[s] + l[role_group(counters[s + 1])].c
                     ELSE owed[s]] ELSE owed
  BY Zenon DEF Tick, Advance, At, Here
<1>2. read = InUse(c)
  BY DEF InUse
<1>3. \A s \in CtrSlots : at[s] = At(c, l, s) /\ dc[s] = Credit(c, l, j, s)
  BY <1>2 DEF Credit
<1> HIDE DEF at, dc, read
<1>4. [s \in CtrSlots |-> IF s \in read THEN [at[s] EXCEPT !.last = at[s].now] ELSE at[s]]
      = [s \in CtrSlots |-> IF s \in InUse(c) THEN [At(c, l, s) EXCEPT !.last = At(c, l, s).now]
                            ELSE At(c, l, s)]
  BY <1>2, <1>3
<1>5. [s \in CtrSlots |-> ctr[s] + dc[s]] = [s \in CtrSlots |-> ctr[s] + Credit(c, l, j, s)]
  BY <1>3
<1> QED BY <1>1, <1>4, <1>5

(* A slot that is not opened on this CPU counts nothing.                     *)
LEMMA SlotRests ==
  \A c \in Cpus, l \in [0..1 -> Loads], s \in CtrSlots :
    s \notin Here(c) => At(c, l, s) = hw[c][s]
BY DEF At

(* A slot's counter after an interval: it counted the load of its group and   *)
(* stands where it stood if the slot is not opened on this CPU.               *)
LEMMA SlotMoves ==
  ASSUME ArmInv, NEW c \in Cpus, NEW l \in [0..1 -> Loads], NEW s \in CtrSlots
  PROVE  /\ At(c, l, s) \in Counter
         /\ At(c, l, s).last = hw[c][s].last
         /\ s \notin Here(c) => At(c, l, s) = hw[c][s]
         /\ s \in Here(c) => At(c, l, s).now = Plus(hw[c][s].now, l[role_group(park[<<s, c>>])])
<1> DEFINE x == hw[c][s]
           d == l[role_group(park[<<s, c>>])]
           n == Plus(x.now, d)
<1>1. x \in Counter
  BY DEF ArmInv, Levels
<1>2. d.c \in Nat /\ d.en \in Nat /\ d.run \in 0..d.en
  BY InitAssumption DEF role_group
<1>3. n \in Reading
  BY <1>1, <1>2 DEF Counter, Reading, Plus
<1>4. At(c, l, s) = IF s \in Here(c) THEN [x EXCEPT !.now = n] ELSE x
  BY DEF At
<1> HIDE DEF x, n
<1>5. [x EXCEPT !.now = n] \in Counter /\ [x EXCEPT !.now = n].now = n
      /\ [x EXCEPT !.now = n].last = x.last
  BY <1>1, <1>3 DEF Counter
<1> QED BY <1>1, <1>4, <1>5 DEF x, n

(* A tick reads every slot in use on its CPU, whoever was running.            *)
LEMMA LevelsStep == ASSUME ArmInv, [ArmNext]_initVars PROVE Levels'
<1> USE InitAssumption DEF ArmInv, ArmTypes, Progress, Resources, Config, Phases, Levels, Early
<1>1. CASE RegisterAndLoad
  BY <1>1 DEF RegisterAndLoad, armVars, bpfVars, InitGoto, Fail
<1>2. CASE OpenCounters
  BY <1>2 DEF OpenCounters, armVars, bpfVars, InitGoto, Fail
<1>3. CASE SetTarget
  <2>1. ini'.pc \in {"failed", "unwind"} /\ cfg'.nslots = cfg.nslots /\ hw' = hw
    BY <1>3 DEF SetTarget, InitGoto, bpfVars
  <2>2. ini.pc = "target"
    BY <1>3 DEF SetTarget
  <2> QED BY <2>1, <2>2
<1>4. CASE ArmUnwind
  BY <1>4 DEF ArmUnwind, armVars, bpfVars, InitGoto, Fail
<1>5. CASE Attach
  BY <1>5 DEF Attach, armVars, bpfVars, InitGoto, Fail
<1>6. CASE OpenSampler
  BY <1>6 DEF OpenSampler, armVars, bpfVars, InitGoto, Fail
<1>7. CASE OpenRing
  BY <1>7 DEF OpenRing, armVars, bpfVars, InitGoto, Fail
<1>8. CASE ArmShutdown
  BY <1>8 DEF ArmShutdown, armVars, bpfVars, InitGoto, Fail
<1>9. ASSUME NEW k \in Calls, LeaveCall(k) PROVE Levels'
  BY <1>9 DEF LeaveCall, armVars, bpfVars, InitGoto, Fail
<1>10. ASSUME NEW k \in Calls, NEW p \in BOOLEAN, EnterCall(k, p) PROVE Levels'
  BY <1>10 DEF EnterCall, armVars, bpfVars, InitGoto, Fail
<1>11. CASE Block
  BY <1>11 DEF Block, armVars, bpfVars, InitGoto, Fail
<1>12. CASE Wake
  BY <1>12 DEF Wake, armVars, bpfVars, InitGoto, Fail
<1>13. ASSUME NEW c \in Cpus, NEW m \in BOOLEAN, NEW l \in [0..1 -> Loads], NEW j \in Junk,
     Tick(c, m, l, j) PROVE Levels'
  <2> DEFINE x(s) == IF s \in InUse(c) THEN [At(c, l, s) EXCEPT !.last = At(c, l, s).now]
                     ELSE At(c, l, s)
             f == [s \in CtrSlots |-> x(s)]
  <2>1. hw' = [hw EXCEPT ![c] = f]
    BY <1>13, TickIs
  <2>2. ASSUME NEW s \in CtrSlots
        PROVE  x(s) \in Counter /\ (s < cfg.nslots => x(s).last = x(s).now)
    <3>1. CASE s \in InUse(c)
      <4> DEFINE a == At(c, l, s)
      <4>1. a \in Counter
        BY SlotMoves
      <4> HIDE DEF a
      <4>2. [a EXCEPT !.last = a.now] \in Counter
            /\ [a EXCEPT !.last = a.now].last = [a EXCEPT !.last = a.now].now
        BY <4>1 DEF Counter
      <4> QED BY <3>1, <4>2 DEF a
    <3>2. CASE s \notin InUse(c)
      <4>1. x(s) = At(c, l, s) /\ At(c, l, s) \in Counter
        BY <3>2, SlotMoves
      <4>2. s < cfg.nslots => s \notin Here(c)
        BY <3>2 DEF InUse
      <4>3. s < cfg.nslots => At(c, l, s) = hw[c][s]
        BY <4>2, SlotRests
      <4> QED BY <4>1, <4>3
    <3> QED BY <3>1, <3>2
  <2>3. f \in [CtrSlots -> Counter] /\ \A s \in CtrSlots : s < cfg.nslots => f[s].last = f[s].now
    BY <2>2
  <2>4. UNCHANGED <<ini, cfg>> /\ ini.pc \notin Early
    BY <1>13 DEF Tick, Runs, Live, armVars
  <2> HIDE DEF f
  <2> QED BY <2>1, <2>3, <2>4
<1>14. CASE UNCHANGED initVars
  BY <1>14 DEF initVars, armVars, bpfVars, InitGoto, Fail
<1> HIDE DEF ArmInv, ArmTypes, Progress, Resources, Config, Phases, Levels, Early
<1> QED BY <1>1, <1>2, <1>3, <1>4, <1>5, <1>6, <1>7, <1>8, <1>9, <1>10, <1>11, <1>12, <1>13, <1>14
        DEF ArmNext

(* A thread is credited at least what its counters did in its own intervals and at most *)
(* eight times that.                                                          *)
LEMMA CreditStep == ASSUME ArmInv, [ArmNext]_initVars PROVE Credited'
<1> USE InitAssumption DEF ArmInv, ArmTypes, Progress, Resources, Config, Phases, Credited, Early
<1>1. CASE RegisterAndLoad
  BY <1>1 DEF RegisterAndLoad, armVars, bpfVars, InitGoto, Fail
<1>2. CASE OpenCounters
  <2>1. ini.pc \in Early /\ UNCHANGED <<ctr, owed>>
    BY <1>2 DEF OpenCounters, bpfVars
  <2> QED BY <2>1 DEF Untouched
<1>3. CASE SetTarget
  BY <1>3 DEF SetTarget, armVars, bpfVars, InitGoto, Fail
<1>4. CASE ArmUnwind
  BY <1>4 DEF ArmUnwind, armVars, bpfVars, InitGoto, Fail
<1>5. CASE Attach
  BY <1>5 DEF Attach, armVars, bpfVars, InitGoto, Fail
<1>6. CASE OpenSampler
  BY <1>6 DEF OpenSampler, armVars, bpfVars, InitGoto, Fail
<1>7. CASE OpenRing
  BY <1>7 DEF OpenRing, armVars, bpfVars, InitGoto, Fail
<1>8. CASE ArmShutdown
  BY <1>8 DEF ArmShutdown, armVars, bpfVars, InitGoto, Fail
<1>9. ASSUME NEW k \in Calls, LeaveCall(k) PROVE Credited'
  BY <1>9 DEF LeaveCall, armVars, bpfVars, InitGoto, Fail
<1>10. ASSUME NEW k \in Calls, NEW p \in BOOLEAN, EnterCall(k, p) PROVE Credited'
  BY <1>10 DEF EnterCall, armVars, bpfVars, InitGoto, Fail
<1>11. CASE Block
  BY <1>11 DEF Block, armVars, bpfVars, InitGoto, Fail
<1>12. CASE Wake
  BY <1>12 DEF Wake, armVars, bpfVars, InitGoto, Fail
<1>13. ASSUME NEW c \in Cpus, NEW m \in BOOLEAN, NEW l \in [0..1 -> Loads], NEW j \in Junk,
     Tick(c, m, l, j) PROVE Credited'
  <2>1. cfg' = cfg /\ park = Parked
    BY <1>13 DEF Tick, Runs, Live, armVars, Slotted, Ended
  <2> DEFINE due(s) == IF <<s, c>> \in Opened THEN l[role_group(counters[s + 1])].c ELSE 0
  <2>2. ASSUME NEW s \in CtrSlots
        PROVE  /\ due(s) \in Nat /\ Credit(c, l, j, s) \in Nat
               /\ s < cfg.nslots => due(s) <= Credit(c, l, j, s) /\ Credit(c, l, j, s) <= 8 * due(s)
    <3>1. s \in Here(c) <=> <<s, c>> \in Opened
      BY <2>1 DEF Here, Parked
    <3>2. CASE s \notin Here(c)
      <4>1. due(s) = 0 /\ Credit(c, l, j, s) \in {0, j} /\ (s < cfg.nslots => Credit(c, l, j,
           s) = 0)
        BY <3>1, <3>2 DEF Credit, InUse
      <4> QED BY <4>1
    <3>3. CASE s \in Here(c)
      <4> DEFINE d == l[role_group(counters[s + 1])]
                 v == hw[c][s].now
      <4>1. park[<<s, c>>] = counters[s + 1]
        BY <2>1, <3>1, <3>3 DEF Parked
      <4>2. At(c, l, s).now = Plus(v, d) /\ At(c, l, s).last = hw[c][s].last
        BY <3>3, <4>1, SlotMoves
      <4>3. d.c \in Nat /\ d.en \in Nat /\ d.run \in 0..d.en /\ (d.run = 0 => d.c = 0)
        BY DEF role_group
      <4>4. v \in Reading
        BY DEF Levels, Counter
      <4>5. due(s) = d.c
        BY <3>1, <3>3
      <4> HIDE DEF d, v
      <4>6. CASE s < cfg.nslots
        <5>1. hw[c][s].last = v
          BY <4>6 DEF Levels, v
        <5>2. Credit(c, l, j, s) = Scaled(Plus(v, d), v)
          BY <3>3, <4>2, <4>6, <5>1 DEF Credit, InUse
        <5>3. /\ Scaled(Plus(v, d), v) \in Nat /\ d.c <= Scaled(Plus(v, d), v)
              /\ Scaled(Plus(v, d), v) <= 8 * d.c
          BY <4>3, <4>4, ScaledBounds
        <5> HIDE DEF due
        <5> QED BY <4>3, <4>5, <5>2, <5>3
      <4>7. CASE ~(s < cfg.nslots)
        <5>1. Credit(c, l, j, s) = j
          BY <4>7 DEF Credit, InUse
        <5> HIDE DEF due
        <5> QED BY <4>3, <4>5, <4>7, <5>1
      <4> QED BY <4>6, <4>7
    <3> QED BY <3>2, <3>3
  <2>3. CASE m
    <3>1. ctr' = [s \in CtrSlots |-> ctr[s] + Credit(c, l, j, s)]
      <4>1. ctr' = IF m THEN [s \in CtrSlots |-> ctr[s] + Credit(c, l, j, s)] ELSE ctr
        BY <1>13, TickIs
      <4> QED BY <2>3, <4>1, Zenon
    <3>2. owed' = [s \in CtrSlots |-> IF <<s, c>> \in Opened
                                       THEN owed[s] + l[role_group(counters[s + 1])].c ELSE owed[s]]
      <4>1. owed' = IF m THEN [s \in CtrSlots |-> IF <<s, c>> \in Opened
                                 THEN owed[s] + l[role_group(counters[s + 1])].c ELSE owed[s]] ELSE owed
        BY <1>13, TickIs
      <4> QED BY <2>3, <4>1, Zenon
    <3>3. \A s \in CtrSlots : owed'[s] = owed[s] + due(s)
      BY <3>2
    <3>4. \A s \in CtrSlots : ctr'[s] = ctr[s] + Credit(c, l, j, s)
      BY <3>1
    <3> HIDE DEF due
    <3>5. DOMAIN owed' = CtrSlots /\ DOMAIN ctr' = CtrSlots
      BY <3>1, <3>2
    <3>6. ctr' \in [CtrSlots -> Nat]
      BY <2>2, <3>1
    <3>7. owed' \in [CtrSlots -> Nat]
      <4>1. owed' = [s \in CtrSlots |-> owed[s] + due(s)]
        BY <3>2 DEF due
      <4> QED BY <2>2, <4>1
    <3>8. ASSUME NEW s \in CtrSlots, s < cfg'.nslots
          PROVE  owed'[s] <= ctr'[s] /\ ctr'[s] <= 8 * owed'[s]
      <4> DEFINE a == owed[s]
                 b == ctr[s]
                 y == due(s)
                 z == Credit(c, l, j, s)
      <4>1. a \in Nat /\ b \in Nat /\ y \in Nat /\ z \in Nat
        BY <2>2
      <4>2. a <= b /\ b <= 8 * a /\ y <= z /\ z <= 8 * y
        BY <2>1, <2>2, <3>8
      <4>3. owed'[s] = a + y /\ ctr'[s] = b + z
        BY <3>3, <3>4
      <4> HIDE DEF a, b, y, z
      <4> QED BY <4>1, <4>2, <4>3
    <3> QED BY <3>6, <3>7, <3>8
  <2>4. CASE ~m
    <3>1. ctr' = ctr /\ owed' = owed
      BY <1>13, <2>4, Zenon DEF Tick
    <3> QED BY <2>1, <3>1
  <2> QED BY <2>3, <2>4
<1>14. CASE UNCHANGED initVars
  BY <1>14 DEF initVars, armVars, bpfVars, InitGoto, Fail
<1> HIDE DEF ArmInv, ArmTypes, Progress, Resources, Config, Phases, Credited, Early
<1> QED BY <1>1, <1>2, <1>3, <1>4, <1>5, <1>6, <1>7, <1>8, <1>9, <1>10, <1>11, <1>12, <1>13, <1>14
        DEF ArmNext

------------------------------------------------------------------------------
(* What arming promises.                                                     *)

(* The invariant holds before capture_init.                                   *)
LEMMA ArmInitHolds == ArmInit => ArmInv
<1> SUFFICES ASSUME ArmInit PROVE ArmInv
  OBVIOUS
<1>1. ArmTypes
  <2>1. TRUE \in BOOLEAN /\ FALSE \in BOOLEAN
    BY Zenon
  <2>2. ini \in Progress
    BY DEF ArmInit, Progress, Phases
  <2>3. res \in Resources /\ cfg \in Config
    BY <2>1 DEF ArmInit, Resources, Config
  <2> QED BY <2>2, <2>3 DEF ArmInit, ArmTypes
<1>2. Stages /\ WalkerTold
  BY DEF ArmInit, Stages, WalkerTold, Early, Ended
<1>3. SamplersTold
  BY InitAssumption DEF ArmInit, SamplersTold, Sampled, Cpus, Early
<1>4. ThreadOK
  <2>1. FALSE \in BOOLEAN
    BY Zenon
  <2>2. -1 \in Int
    OBVIOUS
  <2>3. thr \in [call : Calls \cup {"none"}, n : Nat, off : Int, blocked : BOOLEAN]
    BY <2>1, <2>2 DEF ArmInit, Absent
  <2>4. tags \in [Calls -> Int] /\ gap \in BOOLEAN
    BY <2>1, <2>2 DEF ArmInit, Absent
  <2> QED BY <2>3, <2>4 DEF ThreadOK
<1>5. TagsOfCall /\ BlockOpen /\ BlockNamed
  BY DEF ArmInit, TagsOfCall, BlockOpen, BlockNamed
<1>6. Untouched /\ Credited
  BY DEF ArmInit, Untouched, Credited
<1>7. Levels
  <2>1. Zero \in Reading
    BY DEF Zero, Reading
  <2>2. [now |-> Zero, last |-> Zero] \in Counter
    BY <2>1 DEF Counter
  <2>3. hw \in [Cpus -> [CtrSlots -> Counter]]
    BY <2>2 DEF ArmInit
  <2>4. \A c \in Cpus, s \in CtrSlots : hw[c][s].last = hw[c][s].now
    BY DEF ArmInit
  <2> QED BY <2>3, <2>4 DEF Levels
<1>8. Slotted
  BY DEF ArmInit, Slotted, Early
<1> QED BY <1>1, <1>2, <1>3, <1>4, <1>5, <1>6, <1>7, <1>8 DEF ArmInv

(* One step of capture_init, the thread or a tick keeps the invariant.        *)
LEMMA ArmStep == ArmInv /\ [ArmNext]_initVars => ArmInv'
BY StagesStep, WalkerStep, ThreadStep, TagsStep, BlockOpenStep, NamedStep, UntouchedStep,
   SlottedStep, ArmTypesStep, SamplersStep, LevelsStep, CreditStep DEF ArmInv

(* The invariant of arming, for every recording, every table of CPU models,   *)
(* any number of CPUs and whichever calls the kernel refuses.                 *)
THEOREM ArmInvariant == ArmSpec => []ArmInv
BY ArmInitHolds, ArmStep, PTL DEF ArmSpec

(* No program is attached before it is told its target, every failure and a   *)
(* shutdown undo what was set up, and what a running capture reports of its   *)
(* precision, event, period and walker is so.                                 *)
THEOREM ArmedAsTold == ArmSpec => []ArmedTrue
<1>1. ArmInv => ArmedTrue
  <2> SUFFICES ASSUME ArmInv PROVE ArmedTrue
    OBVIOUS
  <2> USE DEF ArmInv
  <2>1. ini.pc \in Phases
    BY DEF ArmTypes, Progress
  <2>2. AimedOnly
    BY <2>1 DEF AimedOnly, Stages, Phases, Early, Ended
  <2>3. ReportedTrue
    <3> SUFFICES ASSUME ini.pc = "run"
                 PROVE  LET on == {c \in Cpus : got[c] # Absent}
                        IN /\ on # {} => precise = Min({got[c] : c \in on})
                           /\ on = {c \in Cpus : <<"tick", c>> \in links}
                           /\ on # {} => sampler.period >= 1 /\ sampler.leader = spec(run.focus).leader
                           /\ cfg.unwind = 1 => cfg.walker /\ res.loader
      BY DEF ReportedTrue
    <3> DEFINE on == {c \in Cpus : got[c] # Absent}
               S == {got[c] : c \in on}
    <3>1. on = {c \in Cpus : <<"tick", c>> \in links}
      BY DEF SamplersTold, Sampled, Ended
    <3>2. ASSUME on # {} PROVE precise = Min(S)
      <4>1. precise \in S
        BY <3>2 DEF SamplersTold, Sampled, ArmTypes, Absent
      <4>2. \A y \in S : precise <= y
        BY DEF SamplersTold, Sampled
      <4>3. S \subseteq Int
        BY DEF ArmTypes, Absent
      <4> HIDE DEF S
      <4>4. Min(S) \in S /\ \A y \in S : Min(S) <= y
        BY <4>1, <4>2 DEF Min
      <4> DEFINE x == Min(S)
      <4>5. x \in S /\ x <= precise /\ precise <= x /\ x \in Int /\ precise \in Int
        BY <4>1, <4>2, <4>3, <4>4
      <4> HIDE DEF x
      <4>6. x = precise
        BY <4>5
      <4> QED BY <4>6 DEF x
    <3>3. ASSUME on # {} PROVE sampler.period >= 1 /\ sampler.leader = spec(run.focus).leader
      BY <3>3, SamplerFacts DEF SamplersTold, Sampled, ArmTypes
    <3>4. cfg.unwind = 1 => cfg.walker /\ res.loader
      BY DEF WalkerTold, Ended
    <3> QED BY <3>1, <3>2, <3>3, <3>4
  <2> QED BY <2>2, <2>3 DEF ArmedTrue
<1> QED BY <1>1, ArmInvariant, PTL

(* What is shipped under a counter's name is that counter's: between what it  *)
(* did in the thread's own intervals and eight times that.                    *)
THEOREM CountsStayOwn == ArmSpec => []CountsOwn
<1>1. ArmInv => CountsOwn
  BY DEF ArmInv, Slotted, Credited, CountsOwn
<1> QED BY <1>1, ArmInvariant, PTL

(* A block is named after the call the thread blocks in, or not at all.       *)
THEOREM BlocksNamed == ArmSpec => []BlockNamed
<1>1. ArmInv => BlockNamed
  BY DEF ArmInv
<1> QED BY <1>1, ArmInvariant, PTL

------------------------------------------------------------------------------
(* The invariant of the capture.                                            *)

Files == Inodes \cup {NoInode}
Keys == [base : Slots, ino : Inodes]
Ids == {"none", "elf", "syn"} \X Nat
EntrySet == [id : Ids, aliases : SUBSET Ids, inode : Files, pinned : BOOLEAN]
EntryMaps == UNION {[D -> EntrySet] : D \in SUBSET Keys}
Registry == [entries : EntryMaps, fds : SUBSET Inodes, rng : Nat]

(* What an entry says of its module is so: its id is the mapped file's or a  *)
(* minted one, an alias is the file's, a descriptor is of the mapped inode   *)
(* and stays open, and an entry that is settled has one if the policy wants  *)
(* the file.                                                                 *)
EntryExact(e, k, held) ==
  /\ e.id = FileId(k.ino) \/ e.id[1] = "syn"
  /\ e.id # NoId
  /\ e.aliases \subseteq {FileId(k.ino)} \ {NoId}
  /\ e.inode \in {NoInode, k.ino}
  /\ e.inode # NoInode => e.inode \in held
  /\ e.pinned /\ should_hold(PathOf[k.ino]) => e.inode = k.ino
Exact(r) ==
  /\ r \in Registry
  /\ Cardinality(r.fds) <= FdCap
  /\ \A k \in DOMAIN r.entries : EntryExact(r.entries[k], k, r.fds)

(* Records in the ring and in hand name a place; the worker resolves a raw   *)
(* PC or installs a mapping only where its snapshot has a file.              *)
Frames == {<<>>, <<"res">>} \cup ({"id"} \X Ids) \cup ({"range"} \X Slots \X Inodes \X Ids)
Jobs == [st : {"none", "ids", "raw", "install", "observe", "emit"},
         type : {"none", "sample", "unwind", "off"}, slot : Slots \cup {0}, ino : Files,
         typed : BOOLEAN, live : BOOLEAN, todo : SUBSET Slots, ret : {"none", "raw", "emit"},
         reparsed : BOOLEAN, frame : Frames]
CacheMaps == UNION {[D -> Ids] : D \in SUBSET Keys}
Captures == [maps : [Slots -> Files], tried : BOOLEAN, recent : BOOLEAN, ids : SUBSET Ids,
             pending : SUBSET Ids, obs : SUBSET Keys, cool : SUBSET Keys,
             cache : CacheMaps, paths : SUBSET Ids]
Known(c) == \A k \in DOMAIN c.cache : c.cache[k] = FileId(k.ino)
Placed(j, c) ==
  /\ j.st # "none" => j.slot \in Slots /\ j.ino \in Inodes
  /\ j.st = "install" => j.todo # {} /\ j.ret # "none" /\ \A s \in j.todo : c.maps[s] # NoInode
  /\ j.st = "observe" => c.maps[j.slot] # NoInode
CapInv ==
  /\ vm \in [Slots -> Files] /\ disk \in [Paths -> Files]
  /\ ring \in Seq({j \in Jobs : j.slot \in Slots /\ j.ino \in Inodes})
  /\ job \in Jobs /\ cap \in Captures /\ Placed(job, cap) /\ Known(cap) /\ Exact(reg)

------------------------------------------------------------------------------
(* The registry's operations.                                               *)

(* A file's build id, and none, are ids; a minted one is neither.            *)
LEMMA IdFacts ==
  /\ NoId \in Ids
  /\ \A i \in Inodes : FileId(i) \in Ids /\ FileId(i)[1] # "syn"
  /\ \A n \in Nat : Synthetic(n) \in Ids /\ Synthetic(n) # NoId /\ Synthetic(n)[1] = "syn"
  /\ \A i \in Files : IdOf(i) \in Ids
  /\ NoInode \notin Inodes
BY RegistryAssumption DEF Ids, NoId, FileId, Synthetic, IdOf, Files, NoInode

(* A function with one more, or another, value.                              *)
LEMMA WithTyped ==
  ASSUME NEW K, NEW V, NEW f \in UNION {[D -> V] : D \in SUBSET K}, NEW k \in K, NEW v \in V
  PROVE  With(f, k, v) \in UNION {[D -> V] : D \in SUBSET K}
<1>1. PICK D \in SUBSET K : f \in [D -> V]
  OBVIOUS
<1>2. With(f, k, v) \in [D \cup {k} -> V]
  BY <1>1 DEF With
<1> QED BY <1>2

(* What a registry holds for a key of it.                                    *)
LEMMA EntryTyped ==
  ASSUME NEW r \in Registry, NEW k \in DOMAIN r.entries
  PROVE  k \in Keys /\ r.entries[k] \in EntrySet
BY DEF Registry, EntryMaps

(* A registry after an entry is added.                                       *)
LEMMA RegistryAdds ==
  ASSUME NEW r \in Registry, NEW n \in Nat, NEW en \in EntryMaps
  PROVE  /\ [r EXCEPT !.rng = n, !.entries = en] \in Registry
         /\ [r EXCEPT !.rng = n, !.entries = en].entries = en
         /\ [r EXCEPT !.rng = n, !.entries = en].fds = r.fds
BY DEF Registry

(* Settling the id of a key, with the file's id or a minted one.             *)
LEMMA IdForExact ==
  ASSUME NEW r, Exact(r), NEW k \in Keys, NEW h \in {NoId, FileId(k.ino)}
  PROVE  /\ Exact(id_for(r, k, h))
         /\ k \in DOMAIN id_for(r, k, h).entries
         /\ id_for(r, k, h).fds = r.fds
<1>1. CASE k \in DOMAIN r.entries
  BY <1>1 DEF id_for
<1>2. CASE k \notin DOMAIN r.entries
  <2> DEFINE id == IF h = NoId THEN Synthetic(r.rng) ELSE h
             n == IF h = NoId THEN r.rng + 1 ELSE r.rng
             e == Entry(id)
             en == With(r.entries, k, e)
             q == [r EXCEPT !.rng = n, !.entries = en]
  <2>1. r \in Registry /\ k.ino \in Inodes /\ r.rng \in Nat
    BY DEF Exact, Registry, Keys
  <2>2. id \in Ids /\ id # NoId /\ (id = FileId(k.ino) \/ id[1] = "syn")
    BY <2>1, IdFacts
  <2>3. n \in Nat
    BY <2>1
  <2>4. id_for(r, k, h) = q
    BY <1>2, <2>1 DEF id_for, Registry
  <2> HIDE DEF id, n
  <2>5. e \in EntrySet /\ EntryExact(e, k, r.fds)
    BY <2>1, <2>2 DEF Entry, EntrySet, EntryExact, Files, NoInode
  <2> HIDE DEF e
  <2>7. en \in EntryMaps
    BY <2>1, <2>5, WithTyped DEF Registry, EntryMaps
  <2>8. \A x \in DOMAIN en : EntryExact(en[x], x, r.fds)
    BY <2>5 DEF Exact, With
  <2>9. k \in DOMAIN en
    BY DEF With
  <2> HIDE DEF en
  <2>10. q \in Registry /\ q.entries = en /\ q.fds = r.fds
    BY <2>1, <2>3, <2>7, RegistryAdds, ZenonT(60)
  <2> HIDE DEF q
  <2> QED BY <2>4, <2>8, <2>9, <2>10 DEF Exact
<1> QED BY <1>1, <1>2

(* A descriptor is kept only of the mapped inode, and only below the cap.    *)
LEMMA PinIs ==
  ASSUME NEW r, NEW k, NEW file, NEW h, NEW v \in BOOLEAN
  PROVE  LET i == pin_open_file(r, k, file, h, v)
         IN i # NoInode => i = k.ino /\ (i \in r.fds \/ ~(Cardinality(r.fds) >= FdCap))
BY DEF pin_open_file

(* One more descriptor, below the cap.                                       *)
LEMMA CapKept ==
  ASSUME NEW S \in SUBSET Inodes, Cardinality(S) <= FdCap, NEW i \in Files,
         i # NoInode => i \in S \/ ~(Cardinality(S) >= FdCap)
  PROVE  /\ S \cup ({i} \ {NoInode}) \in SUBSET Inodes
         /\ Cardinality(S \cup ({i} \ {NoInode})) <= FdCap
<1>1. IsFiniteSet(S) /\ FdCap \in Nat
  BY RegistryAssumption, FS_Subset
<1>2. CASE i = NoInode \/ i \in S
  <2>1. S \cup ({i} \ {NoInode}) = S
    BY <1>2
  <2> QED BY <2>1
<1>3. CASE i # NoInode /\ i \notin S
  <2>1. S \cup ({i} \ {NoInode}) = S \cup {i} /\ i \in Inodes
    BY <1>3 DEF Files
  <2>2. Cardinality(S \cup {i}) = Cardinality(S) + 1 /\ Cardinality(S) \in Nat
    BY <1>1, <1>3, FS_AddElement, FS_CardinalityType
  <2> DEFINE c == Cardinality(S)
             d == Cardinality(S \cup {i})
  <2>3. d = c + 1 /\ c \in Nat /\ ~(c >= FdCap)
    BY <1>3, <2>2
  <2> HIDE DEF c, d
  <2>4. d <= FdCap
    BY <1>1, <2>3
  <2> QED BY <2>1, <2>4 DEF d
<1> QED BY <1>2, <1>3

(* finish_registration: what it makes of an entry.                           *)
LEMMA FinishExact ==
  ASSUME NEW k \in Keys, NEW S \in SUBSET Inodes, NEW e \in EntrySet, EntryExact(e, k, S),
         NEW h \in {NoId, FileId(k.ino)}, NEW a \in BOOLEAN, a => h # NoId,
         NEW i \in {NoInode, k.ino}, NEW hold \in BOOLEAN, hold <=> should_hold(PathOf[k.ino])
  PROVE  LET f == finish_registration(e, h, a, hold, i)
         IN f \in EntrySet /\ EntryExact(f, k, S \cup ({i} \ {NoInode}))
<1> DEFINE ino == IF i # NoInode THEN i ELSE e.inode
           al == IF i # NoInode /\ a THEN e.aliases \cup {h} ELSE e.aliases
           pin == e.pinned \/ ~hold \/ i # NoInode
           f == finish_registration(e, h, a, hold, i)
<1>1. k.ino \in Inodes /\ k.ino # NoInode
  BY IdFacts DEF Keys
<1>2. ino \in {NoInode, k.ino} /\ ino \in Files
  BY <1>1 DEF EntryExact, Files
<1>3. al \subseteq {FileId(k.ino)} \ {NoId} /\ al \in SUBSET Ids
  BY <1>1, IdFacts DEF EntryExact, EntrySet
<1>4. pin \in BOOLEAN
  BY DEF EntrySet
<1>5. ino # NoInode => ino \in S \cup ({i} \ {NoInode})
  BY DEF EntryExact
<1>6. pin /\ should_hold(PathOf[k.ino]) => ino = k.ino
  BY DEF EntryExact
<1>7. f = [e EXCEPT !.inode = ino, !.aliases = al, !.pinned = pin]
  BY DEF finish_registration, EntrySet
<1> HIDE DEF ino, al, pin
<1>8. f \in EntrySet /\ f.id = e.id /\ f.aliases = al /\ f.inode = ino /\ f.pinned = pin
  BY <1>2, <1>3, <1>4, <1>7 DEF EntrySet
<1> HIDE DEF f
<1>9. EntryExact(f, k, S \cup ({i} \ {NoInode}))
  BY <1>2, <1>3, <1>5, <1>6, <1>8 DEF EntryExact
<1> QED BY <1>8, <1>9 DEF f

(* Registering a module, with an open file or by path.                       *)
LEMMA OpenExact ==
  ASSUME NEW r, Exact(r), NEW k \in Keys, NEW h \in {NoId, FileId(k.ino)}, NEW file \in Files,
         NEW v \in BOOLEAN
  PROVE  /\ Exact(register_open(r, k, h, PathOf[k.ino], file, v))
         /\ k \in DOMAIN register_open(r, k, h, PathOf[k.ino], file, v).entries
<1> DEFINE p == PathOf[k.ino]
           q == id_for(r, k, h)
           e == q.entries[k]
           a == needs_alias(q, k, h)
           hold == should_hold(p)
           i == IF hold THEN pin_open_file(q, k, file, h, v) ELSE NoInode
           S == q.fds \cup ({i} \ {NoInode})
           f == finish_registration(e, h, a, hold, i)
           en == [q.entries EXCEPT ![k] = f]
           z == [q EXCEPT !.fds = S, !.entries = en]
<1>1. Exact(q) /\ k \in DOMAIN q.entries
  BY IdForExact
<1> HIDE DEF q
<1>2. q \in Registry /\ e \in EntrySet /\ EntryExact(e, k, q.fds)
      /\ q.fds \in SUBSET Inodes /\ Cardinality(q.fds) <= FdCap /\ k.ino \in Inodes
  BY <1>1, EntryTyped DEF Exact, Registry, Keys
<1>3. CASE e.pinned /\ ~a
  BY <1>1, <1>3 DEF register_open, q
<1>4. CASE ~(e.pinned /\ ~a)
  <2>1. register_open(r, k, h, p, file, v) = [q EXCEPT !.fds = S, !.entries[k] = f]
    BY <1>4 DEF register_open, q, Registry
  <2>2. a \in BOOLEAN /\ (a => h # NoId)
    BY DEF needs_alias
  <2>3. hold \in BOOLEAN
    BY DEF should_hold
  <2>4. i \in {NoInode, k.ino} /\ i \in Files
        /\ (i # NoInode => i \in q.fds \/ ~(Cardinality(q.fds) >= FdCap))
    BY <1>2, PinIs DEF Files
  <2> HIDE DEF i, a
  <2>5. S \in SUBSET Inodes /\ Cardinality(S) <= FdCap
    BY <1>2, <2>4, CapKept
  <2>6. f \in EntrySet /\ EntryExact(f, k, S)
    <3> HIDE DEF e, hold
    <3>1. hold <=> should_hold(PathOf[k.ino])
      BY DEF hold
    <3> QED BY <1>2, <2>2, <2>3, <2>4, <3>1, FinishExact
  <2> HIDE DEF f, S
  <2>7. [q EXCEPT !.fds = S, !.entries[k] = f] = z
    OBVIOUS
  <2>8. en \in EntryMaps /\ DOMAIN en = DOMAIN q.entries
    <3>1. PICK D \in SUBSET Keys : q.entries \in [D -> EntrySet]
      BY <1>2 DEF Registry, EntryMaps
    <3>2. en \in [D -> EntrySet]
      BY <2>6, <3>1
    <3> QED BY <3>1, <3>2 DEF EntryMaps
  <2>9. q.fds \subseteq S
    BY DEF S
  <2>10. \A x \in DOMAIN en : EntryExact(en[x], x, S)
    <3> TAKE x \in DOMAIN en
    <3>1. CASE x = k
      BY <1>1, <2>6, <2>8, <3>1
    <3>2. CASE x # k
      <4>1. en[x] = q.entries[x] /\ EntryExact(q.entries[x], x, q.fds)
        BY <1>1, <2>8, <3>2 DEF Exact
      <4> QED BY <2>9, <4>1 DEF EntryExact
    <3> QED BY <3>1, <3>2
  <2> HIDE DEF en
  <2>11. z \in Registry /\ z.entries = en /\ z.fds = S
    <3>1. q \in Registry /\ S \in SUBSET Inodes /\ en \in EntryMaps
      BY <1>2, <2>5, <2>8
    <3> QED BY <3>1 DEF Registry
  <2> HIDE DEF z
  <2>12. Exact(z) /\ k \in DOMAIN z.entries
    BY <1>1, <2>5, <2>8, <2>10, <2>11 DEF Exact
  <2> QED BY <2>1, <2>7, <2>12
<1> QED BY <1>3, <1>4

------------------------------------------------------------------------------
(* The steps of the capture.                                                *)

(* What is known of the target changes with the worker only.                 *)
captureVars == <<vm, disk, ring, job, cap, reg>>
CaptureIdle ==
  SdkStart \/ on_flush \/ on_stop \/ shutdown
    \/ WorkerTop \/ EndDrain \/ SwapFlush \/ AckFlush \/ SwapStop \/ AckStop

(* The tracing thread and the serving of requests touch none of it.          *)
LEMMA IdleKeeps == CaptureIdle => UNCHANGED captureVars
BY DEF CaptureIdle, captureVars, SdkStart, on_flush, on_stop, shutdown, WorkerTop, EndDrain,
   SwapFlush, AckFlush, SwapStop, AckStop, other, world, kernel

(* At the start nothing is known of the target.                              *)
LEMMA CapStart == Init => CapInv
<1> SUFFICES ASSUME Init PROVE CapInv
  OBVIOUS
<1> USE IdFacts, RegistryAssumption, BpfAssumption
<1>1. vm \in [Slots -> Files] /\ disk \in [Paths -> Files]
  BY DEF Init, Files
<1>2. ring = <<>> /\ ring \in Seq({j \in Jobs : j.slot \in Slots /\ j.ino \in Inodes})
  BY DEF Init
<1>3. job = NoJob /\ NoJob \in Jobs /\ NoJob.st = "none"
  BY DEF Init, NoJob, Jobs, Frames, Files
<1>4. cap = NewCapture /\ NewCapture \in Captures
  <2>1. Nothing \in CacheMaps
    <3>1. Nothing \in [{} -> Ids]
      BY DEF Nothing
    <3> QED BY <3>1 DEF CacheMaps
  <2>2. NewCapture.maps \in [Slots -> Files]
    BY DEF NewCapture, Files
  <2> QED BY <2>1, <2>2 DEF Init, NewCapture, Captures
<1>5. Known(cap) /\ Placed(job, cap)
  BY <1>3, <1>4 DEF Known, Placed, NewCapture, Nothing, NoJob
<1>6. Exact(reg)
  <2>1. reg = EmptyRegistry /\ DOMAIN reg.entries = {} /\ reg.fds = {}
    BY DEF Init, EmptyRegistry
  <2>2. reg.entries \in [{} -> EntrySet]
    BY <2>1 DEF EmptyRegistry
  <2>3. reg \in Registry
    BY <2>1, <2>2 DEF EmptyRegistry, Registry, EntryMaps
  <2> QED BY <2>1, <2>3, FS_EmptySet DEF Exact
<1> QED BY <1>1, <1>2, <1>3, <1>4, <1>5, <1>6 DEF CapInv

(* Reading the layout of the target: the mappings to visit have a file.      *)
LEMMA ScanStep ==
  ASSUME CapInv, NEW c \in Captures, Known(c), NEW j \in Jobs, j.slot \in Slots,
         j.ino \in Inodes, NEW ret \in {"raw", "emit"}, Scan(c, j, ret)
  PROVE  CapInv'
<1>1. PICK m \in {vm, c.maps} :
        LET todo == IF m = vm THEN {s \in Slots : m[s] # NoInode} ELSE {}
        IN /\ cap' = [c EXCEPT !.maps = m, !.tried = TRUE, !.recent = TRUE]
           /\ job' = [j EXCEPT !.ret = ret, !.todo = todo,
                               !.st = IF todo = {} THEN ret ELSE "install"]
  BY DEF Scan
<1> DEFINE todo == IF m = vm THEN {s \in Slots : m[s] # NoInode} ELSE {}
           st == IF todo = {} THEN ret ELSE "install"
<1>2. cap' = [c EXCEPT !.maps = m, !.tried = TRUE, !.recent = TRUE]
      /\ job' = [j EXCEPT !.ret = ret, !.todo = todo, !.st = st]
  BY <1>1
<1>3. m \in [Slots -> Files]
  BY DEF CapInv, Captures
<1>4. todo \in SUBSET Slots /\ \A s \in todo : m[s] # NoInode
  OBVIOUS
<1>5. st \in {"raw", "emit", "install"} /\ (st = "install" => todo # {})
  OBVIOUS
<1> HIDE DEF todo, st
<1>6. cap' \in Captures /\ cap'.maps = m /\ cap'.cache = c.cache
  BY <1>2, <1>3 DEF Captures
<1>7. job' \in Jobs /\ job'.st = st /\ job'.todo = todo /\ job'.slot = j.slot /\ job'.ino = j.ino
      /\ job'.ret = ret
  BY <1>2, <1>4, <1>5 DEF Jobs
<1>8. Placed(job, cap)'
  BY <1>4, <1>5, <1>6, <1>7 DEF Placed
<1>9. Known(cap)'
  BY <1>6 DEF Known
<1>10. UNCHANGED <<vm, disk, ring, reg>>
  BY DEF Scan, rest, world, kernel
<1> QED BY <1>6, <1>7, <1>8, <1>9, <1>10 DEF CapInv

(* observe_build_ids.                                                        *)
LEMMA IdsStep == ASSUME CapInv, ObserveBuildIds PROVE CapInv'
<1> DEFINE id == FileId(job.ino)
           after == IF job.type = "unwind" THEN "raw" ELSE "emit"
           c == [cap EXCEPT !.ids = @ \cup {id}]
<1>1. /\ job \in Jobs /\ job.st = "ids" /\ job.slot \in Slots /\ job.ino \in Inodes
      /\ cap \in Captures /\ Known(cap)
  BY DEF CapInv, ObserveBuildIds, Placed
<1>2. id \in Ids /\ after \in {"raw", "emit"}
  BY <1>1, IdFacts
<1>3. \/ Scan(c, job, after) \/ Scan(cap, job, after)
      \/ job' = [job EXCEPT !.st = after] /\ UNCHANGED <<cap, reg, rest>>
  BY DEF ObserveBuildIds, Goto
<1> HIDE DEF id, after
<1>4. c \in Captures /\ Known(c)
  BY <1>1, <1>2 DEF Captures, Known
<1> HIDE DEF c
<1>5. CASE Scan(c, job, after)
  BY <1>1, <1>2, <1>4, <1>5, ScanStep
<1>6. CASE Scan(cap, job, after)
  BY <1>1, <1>2, <1>6, ScanStep
<1>7. CASE job' = [job EXCEPT !.st = after] /\ UNCHANGED <<cap, reg, rest>>
  <2>1. job' \in Jobs /\ job'.st = after /\ job'.slot = job.slot /\ job'.ino = job.ino
    BY <1>1, <1>2, <1>7 DEF Jobs
  <2>2. Placed(job, cap)'
    BY <1>1, <1>2, <2>1 DEF Placed
  <2> QED BY <1>7, <2>1, <2>2 DEF CapInv, Known, rest, world, kernel
<1> QED BY <1>3, <1>5, <1>6, <1>7

(* A raw PC.                                                                 *)
LEMMA RawStep == ASSUME CapInv, FindRaw PROVE CapInv'
<1> DEFINE j == [job EXCEPT !.reparsed = TRUE]
<1>1. /\ job \in Jobs /\ job.st = "raw" /\ job.slot \in Slots /\ job.ino \in Inodes
      /\ cap \in Captures /\ Known(cap)
  BY DEF CapInv, FindRaw, Placed
<1>2. j \in Jobs /\ j.slot = job.slot /\ j.ino = job.ino
  BY <1>1 DEF Jobs
<1>3. \/ Scan(cap, job, "raw") \/ Scan(cap, j, "raw")
      \/ /\ cap.maps[job.slot] # NoInode /\ job' = [job EXCEPT !.st = "observe"]
         /\ UNCHANGED <<cap, reg, rest>>
      \/ job' = [job EXCEPT !.st = "emit", !.frame = <<"res">>] /\ UNCHANGED <<cap, reg, rest>>
  BY DEF FindRaw, Goto
<1> HIDE DEF j
<1>4. CASE Scan(cap, job, "raw")
  BY <1>1, <1>4, ScanStep
<1>5. CASE Scan(cap, j, "raw")
  BY <1>1, <1>2, <1>5, ScanStep
<1>6. CASE /\ cap.maps[job.slot] # NoInode /\ job' = [job EXCEPT !.st = "observe"]
           /\ UNCHANGED <<cap, reg, rest>>
  <2>1. job' \in Jobs /\ job'.st = "observe" /\ job'.slot = job.slot /\ job'.ino = job.ino
    BY <1>1, <1>6 DEF Jobs
  <2>2. Placed(job, cap)'
    BY <1>1, <1>6, <2>1 DEF Placed
  <2> QED BY <1>6, <2>1, <2>2 DEF CapInv, Known, rest, world, kernel
<1>7. CASE job' = [job EXCEPT !.st = "emit", !.frame = <<"res">>] /\ UNCHANGED <<cap, reg, rest>>
  <2>1. <<"res">> \in Frames
    BY DEF Frames
  <2>2. job' \in Jobs /\ job'.st = "emit" /\ job'.slot = job.slot /\ job'.ino = job.ino
    BY <1>1, <1>7, <2>1 DEF Jobs
  <2>3. Placed(job, cap)'
    BY <1>1, <1>7, <2>2 DEF Placed
  <2> QED BY <1>7, <2>2, <2>3 DEF CapInv, Known, rest, world, kernel
<1> QED BY <1>3, <1>4, <1>5, <1>6, <1>7

(* A set of numbers has a least one.                                         *)
LEMMA Least ==
  ASSUME NEW T, T \subseteq Nat, T # {}
  PROVE  \E x \in T : \A y \in T : x <= y
<1>1. PICK x \in T : \A y \in T : ~(<<y, x>> \in OpToRel(<, Nat))
  BY NatLessThanWellFounded, WFMin, Zenon
<1>2. \A y \in T : ~(y < x)
  BY <1>1, Zenon DEF OpToRel
<1>3. \A y \in T : x <= y
  BY <1>2
<1> QED BY <1>3

(* A file that was opened as the exact mapping is the mapped one.            *)
LEMMA OpenedIs ==
  ASSUME NEW s, NEW i \in Inodes, NEW x \in open_exact_mapping(s, i)
  PROVE  x \in {NoInode, i} /\ x \in Files /\ IdOf(x) \in {NoId, FileId(i)}
BY DEF open_exact_mapping, Files, IdOf

(* The registry after a mapping was registered.                              *)
LEMMA RegisterExact ==
  ASSUME CapInv, NEW s \in Slots, NEW i \in Inodes, NEW h \in {NoId, FileId(i)},
         NEW x \in {NoInode, i}
  PROVE  LET r == Register(Key(s, i), h, PathOf[i], x)
         IN Exact(r) /\ Key(s, i) \in DOMAIN r.entries
<1> DEFINE k == Key(s, i)
<1>1. k \in Keys /\ k.ino = i
  BY DEF Key, Keys
<1> HIDE DEF k
<1>2. Exact(reg) /\ disk[PathOf[i]] \in Files /\ x \in Files /\ IdOf(x) \in {NoId, FileId(i)}
  BY BpfAssumption DEF CapInv, Files, IdOf
<1>3. CASE x # NoInode
  <2>1. Register(k, h, PathOf[i], x) = register_open(reg, k, IdOf(x), PathOf[k.ino], x, FALSE)
    BY <1>1, <1>3 DEF Register, register_exact_file
  <2> QED BY <1>1, <1>2, <2>1, OpenExact DEF k
<1>4. CASE x = NoInode
  <2>1. Register(k, h, PathOf[i], x)
        = register_open(reg, k, h, PathOf[k.ino], disk[PathOf[i]], TRUE)
    BY <1>1, <1>4 DEF Register, register_exact
  <2> QED BY <1>1, <1>2, <2>1, OpenExact DEF k
<1> QED BY <1>3, <1>4 DEF k

(* The ids that were read, with one more.                                    *)
LEMMA KnownMore ==
  ASSUME NEW c \in CacheMaps, NEW k \in Keys, \A y \in DOMAIN c : c[y] = FileId(y.ino)
  PROVE  /\ With(c, k, FileId(k.ino)) \in CacheMaps
         /\ \A y \in DOMAIN With(c, k, FileId(k.ino)) :
              With(c, k, FileId(k.ino))[y] = FileId(y.ino)
<1>1. FileId(k.ino) \in Ids
  BY IdFacts DEF Keys
<1>2. With(c, k, FileId(k.ino)) \in CacheMaps
  BY <1>1, WithTyped DEF CacheMaps
<1> QED BY <1>2 DEF With

(* install_maps, one mapping.                                                *)
LEMMA InstallStep == ASSUME CapInv, install_maps PROVE CapInv'
<1> DEFINE s == CHOOSE x \in job.todo : \A y \in job.todo : x <= y
           i == cap.maps[s]
           key == Key(s, i)
           path == PathOf[i]
           looked == key \in DOMAIN cap.cache
           wanted == cap.ids # {} \/ key \in cap.obs
<1>1. /\ job \in Jobs /\ cap \in Captures /\ Known(cap) /\ job.slot \in Slots /\ job.ino \in Inodes
      /\ job.todo # {} /\ job.todo \subseteq Slots /\ job.ret \in {"raw", "emit"}
      /\ \A x \in job.todo : cap.maps[x] # NoInode
  BY DEF CapInv, install_maps, Placed, Jobs
<1>2. s \in job.todo
  <2>1. job.todo \subseteq Nat
    BY <1>1, BpfAssumption
  <2> QED BY <1>1, <2>1, Least
<1> HIDE DEF s
<1>3. s \in Slots /\ i \in Inodes /\ key \in Keys /\ key.ino = i
  BY <1>1, <1>2 DEF Captures, Files, Key, Keys
<1>4. PICK exact \in IF ~looked /\ wanted THEN open_exact_mapping(s, i) ELSE {NoInode} :
        LET id == IF looked THEN cap.cache[key] ELSE IdOf(exact)
            sampled == key \in cap.obs \/ (id # NoId /\ id \in cap.ids)
            due == sampled /\ needs_exact_retry(reg, key, id, path)
        IN \E file \in IF ~due \/ exact # NoInode THEN {exact} ELSE open_exact_mapping(s, i) :
             /\ reg' = IF due THEN Register(key, id, path, file) ELSE reg
             /\ cap' = [cap EXCEPT
                  !.cache = IF exact # NoInode THEN With(@, key, id) ELSE @,
                  !.paths = IF id # NoId THEN @ \cup {id} ELSE @,
                  !.pending = IF ~sampled \/ id = NoId THEN @
                              ELSE IF needs_exact_retry(reg', key, id, path)
                                   THEN @ \cup {id} ELSE @ \ {id}]
             /\ job' = [job EXCEPT !.todo = @ \ {s},
                                   !.st = IF job.todo = {s} THEN job.ret ELSE @]
  BY Zenon DEF install_maps, s
<1> DEFINE id == IF looked THEN cap.cache[key] ELSE IdOf(exact)
           sampled == key \in cap.obs \/ (id # NoId /\ id \in cap.ids)
           due == sampled /\ needs_exact_retry(reg, key, id, path)
           cache == IF exact # NoInode THEN With(cap.cache, key, id) ELSE cap.cache
           paths == IF id # NoId THEN cap.paths \cup {id} ELSE cap.paths
           pending == IF ~sampled \/ id = NoId THEN cap.pending
                      ELSE IF needs_exact_retry(reg', key, id, path)
                           THEN cap.pending \cup {id} ELSE cap.pending \ {id}
<1>5. PICK file \in IF ~due \/ exact # NoInode THEN {exact} ELSE open_exact_mapping(s, i) :
        /\ reg' = IF due THEN Register(key, id, path, file) ELSE reg
        /\ cap' = [cap EXCEPT !.cache = cache, !.paths = paths, !.pending = pending]
        /\ job' = [job EXCEPT !.todo = @ \ {s}, !.st = IF job.todo = {s} THEN job.ret ELSE @]
  BY <1>4
<1>6. exact \in {NoInode, i} /\ (exact # NoInode => ~looked) /\ IdOf(exact) \in {NoId, FileId(i)}
      /\ (exact = i => IdOf(exact) = FileId(i))
  BY <1>3, OpenedIs, IdFacts DEF IdOf
<1>7. id \in {NoId, FileId(i)} /\ (exact # NoInode => id = FileId(i)) /\ id \in Ids
  BY <1>1, <1>3, <1>6, IdFacts DEF Known
<1>8. file \in {NoInode, i}
  BY <1>3, <1>6, OpenedIs
<1> HIDE DEF id, looked, wanted, i
<1>9. Exact(reg')
  BY <1>3, <1>5, <1>7, <1>8, RegisterExact DEF CapInv
<1> HIDE DEF key
<1>10. /\ cache \in CacheMaps
       /\ \A y \in DOMAIN cache : cache[y] = FileId(y.ino)
  <2>1. CASE exact # NoInode
    <3>1. cache = With(cap.cache, key, FileId(key.ino))
      BY <1>3, <1>7, <2>1
    <3>2. cap.cache \in CacheMaps /\ \A y \in DOMAIN cap.cache : cap.cache[y] = FileId(y.ino)
      BY <1>1 DEF Captures, Known
    <3> QED BY <1>3, <3>1, <3>2, KnownMore
  <2>2. CASE exact = NoInode
    BY <1>1, <2>2 DEF Captures, Known
  <2> QED BY <2>1, <2>2
<1>11. paths \in SUBSET Ids /\ pending \in SUBSET Ids
  BY <1>1, <1>7 DEF Captures
<1> HIDE DEF cache, paths, pending, sampled, due
<1>12. cap' \in Captures /\ cap'.cache = cache /\ cap'.maps = cap.maps
  BY <1>1, <1>5, <1>10, <1>11 DEF Captures
<1>13. Known(cap)'
  BY <1>10, <1>12 DEF Known
<1> DEFINE todo == job.todo \ {s}
           st == IF job.todo = {s} THEN job.ret ELSE job.st
<1>14. job' = [job EXCEPT !.todo = todo, !.st = st]
  BY <1>5
<1>15. todo \in SUBSET Slots /\ st \in {"raw", "emit", "install"} /\ (st = "install" => todo # {})
       /\ \A x \in todo : cap.maps[x] # NoInode
  BY <1>1, <1>2 DEF install_maps
<1> HIDE DEF todo, st
<1>16. job' \in Jobs /\ job'.st = st /\ job'.todo = todo /\ job'.slot = job.slot
       /\ job'.ino = job.ino /\ job'.ret = job.ret
  BY <1>1, <1>14, <1>15 DEF Jobs
<1>17. Placed(job, cap)'
  BY <1>1, <1>12, <1>15, <1>16 DEF Placed
<1>18. UNCHANGED <<vm, disk, ring>>
  BY ZenonT(60) DEF install_maps, rest, world, kernel
<1> QED BY <1>9, <1>12, <1>13, <1>16, <1>17, <1>18 DEF CapInv

(* observe_mapping.                                                          *)
LEMMA ObserveStep == ASSUME CapInv, observe_mapping PROVE CapInv'
<1> DEFINE s == job.slot
           i == cap.maps[s]
           key == Key(s, i)
           path == PathOf[i]
           cached == CachedId(key)
           Frame(id, r) == IF id # NoId THEN <<"id", id>> ELSE <<"range", s, i, r.entries[key].id>>
<1>1. /\ job \in Jobs /\ cap \in Captures /\ Known(cap) /\ s \in Slots /\ job.ino \in Inodes
      /\ i # NoInode
  BY DEF CapInv, observe_mapping, Placed
<1>2. i \in Inodes /\ key \in Keys /\ key.ino = i /\ path = PathOf[key.ino]
  BY <1>1 DEF Captures, Files, Key, Keys
<1>3. cached \in {NoId, FileId(i)}
  BY <1>1, <1>2 DEF CachedId, Known
<1>4. ASSUME NEW id \in {NoId, FileId(i)}, NEW r, Exact(r), key \in DOMAIN r.entries
      PROVE  Frame(id, r) \in Frames
  <2>1. r.entries[key].id \in Ids
    BY <1>4, EntryTyped DEF Exact, EntrySet
  <2>2. id \in Ids
    BY <1>2, IdFacts
  <2> HIDE DEF i
  <2> QED BY <1>1, <1>2, <2>1, <2>2 DEF Frames
<1>5. ASSUME NEW f \in Frames, job' = [job EXCEPT !.st = "emit", !.frame = f]
      PROVE  job' \in Jobs /\ (\A c : Placed(job', c))
  <2>1. job' \in Jobs /\ job'.st = "emit" /\ job'.slot = job.slot /\ job'.ino = job.ino
    BY <1>1, <1>5 DEF Jobs
  <2> QED BY <1>1, <2>1 DEF Placed
<1>6. UNCHANGED <<vm, disk, ring>>
  BY DEF observe_mapping, rest, world, kernel
<1> HIDE DEF i, s
<1>7. CASE /\ reg' = IF cached = NoId THEN id_for(reg, key, NoId) ELSE reg
           /\ job' = [job EXCEPT !.st = "emit", !.frame = Frame(cached, reg')]
           /\ UNCHANGED cap
  <2>1. Exact(reg') /\ (cached = NoId => key \in DOMAIN reg'.entries)
    BY <1>2, <1>7, IdForExact DEF CapInv
  <2>2. Frame(cached, reg') \in Frames
    <3>1. CASE cached = NoId
      BY <1>3, <1>4, <2>1, <3>1
    <3>2. CASE cached # NoId
      <4>1. cached \in Ids
        BY <1>2, <1>3, IdFacts
      <4> QED BY <3>2, <4>1 DEF Frames
    <3> QED BY <3>1, <3>2
  <2> HIDE DEF Frame
  <2>3. job' \in Jobs /\ Placed(job, cap)'
    BY <1>5, <1>7, <2>2
  <2> QED BY <1>6, <1>7, <2>1, <2>3 DEF CapInv, Known
<1>8. ASSUME NEW exact \in open_exact_mapping(s, i),
             reg' = Register(key, IdOf(exact), path, exact),
             cap' = [cap EXCEPT !.obs = @ \cup {key}, !.cool = @ \cup {key},
                       !.cache = IF exact # NoInode THEN With(@, key, IdOf(exact)) ELSE @,
                       !.ids = IF IdOf(exact) # NoId THEN @ \cup {IdOf(exact)} ELSE @,
                       !.paths = IF IdOf(exact) # NoId THEN @ \cup {IdOf(exact)} ELSE @],
             job' = [job EXCEPT !.st = "emit", !.frame = Frame(IdOf(exact), reg')]
      PROVE  CapInv'
  <2> DEFINE id == IdOf(exact)
             cache == IF exact # NoInode THEN With(cap.cache, key, id) ELSE cap.cache
             ids == IF id # NoId THEN cap.ids \cup {id} ELSE cap.ids
             paths == IF id # NoId THEN cap.paths \cup {id} ELSE cap.paths
             obs == cap.obs \cup {key}
             cool == cap.cool \cup {key}
  <2>1. exact \in {NoInode, i} /\ id \in {NoId, FileId(i)} /\ (exact # NoInode => id = FileId(i))
        /\ id \in Ids
    BY <1>2, OpenedIs, IdFacts DEF IdOf
  <2>2. Exact(reg') /\ key \in DOMAIN reg'.entries
    BY <1>1, <1>2, <1>8, <2>1, RegisterExact
  <2>3. Frame(id, reg') \in Frames
    BY <1>4, <2>1, <2>2
  <2> HIDE DEF Frame
  <2>4. job' \in Jobs /\ Placed(job, cap)'
    BY <1>5, <1>8, <2>3
  <2>5. cap' = [cap EXCEPT !.obs = obs, !.cool = cool, !.cache = cache, !.ids = ids,
                           !.paths = paths]
    BY <1>8
  <2> HIDE DEF id, key
  <2>6. cache \in CacheMaps /\ \A y \in DOMAIN cache : cache[y] = FileId(y.ino)
    <3>1. CASE exact # NoInode
      <4>1. cache = With(cap.cache, key, FileId(key.ino))
        BY <1>2, <2>1, <3>1
      <4>2. cap.cache \in CacheMaps /\ \A y \in DOMAIN cap.cache : cap.cache[y] = FileId(y.ino)
        BY <1>1 DEF Captures, Known
      <4> QED BY <1>2, <4>1, <4>2, KnownMore
    <3>2. CASE exact = NoInode
      BY <1>1, <3>2 DEF Captures, Known
    <3> QED BY <3>1, <3>2
  <2>7. ids \in SUBSET Ids /\ paths \in SUBSET Ids /\ obs \in SUBSET Keys /\ cool \in SUBSET Keys
    BY <1>1, <1>2, <2>1 DEF Captures
  <2> HIDE DEF cache, ids, paths, obs, cool
  <2>8. cap' \in Captures /\ cap'.cache = cache
    BY <1>1, <2>5, <2>6, <2>7 DEF Captures
  <2> QED BY <1>6, <2>2, <2>4, <2>6, <2>8 DEF CapInv, Known
<1>9. \/ /\ reg' = IF cached = NoId THEN id_for(reg, key, NoId) ELSE reg
         /\ job' = [job EXCEPT !.st = "emit", !.frame = Frame(cached, reg')]
         /\ UNCHANGED cap
      \/ \E exact \in open_exact_mapping(s, i) :
           /\ reg' = Register(key, IdOf(exact), path, exact)
           /\ cap' = [cap EXCEPT !.obs = @ \cup {key}, !.cool = @ \cup {key},
                       !.cache = IF exact # NoInode THEN With(@, key, IdOf(exact)) ELSE @,
                       !.ids = IF IdOf(exact) # NoId THEN @ \cup {IdOf(exact)} ELSE @,
                       !.paths = IF IdOf(exact) # NoId THEN @ \cup {IdOf(exact)} ELSE @]
           /\ job' = [job EXCEPT !.st = "emit", !.frame = Frame(IdOf(exact), reg')]
  BY Zenon DEF observe_mapping, s, i
<1> QED BY <1>7, <1>8, <1>9, ZenonT(60)

(* The next record.                                                          *)
LEMMA EventStep == ASSUME CapInv, on_event PROVE CapInv'
<1>1. /\ ring # <<>> /\ ring' = Tail(ring) /\ job \in Jobs /\ job.st = "none" /\ cap \in Captures
      /\ UNCHANGED <<vm, disk, reg>>
  BY DEF on_event, CapInv, world
<1> DEFINE R == {j \in Jobs : j.slot \in Slots /\ j.ino \in Inodes}
           st == IF Head(ring).typed THEN "ids" ELSE "raw"
<1>2. ring \in Seq(R)
  BY DEF CapInv
<1> HIDE DEF R
<1>3. Head(ring) \in R /\ ring' \in Seq(R)
  BY <1>1, <1>2
<1>4. Head(ring) \in Jobs /\ Head(ring).slot \in Slots /\ Head(ring).ino \in Inodes
  BY <1>3 DEF R
<1>5. job' \in {job, [Head(ring) EXCEPT !.st = st]}
  BY DEF on_event
<1>6. st \in {"ids", "raw"}
  OBVIOUS
<1> HIDE DEF st
<1>7. job' \in Jobs /\ \A c : Placed(job', c)
  <2>1. CASE job' = job
    BY <1>1, <2>1 DEF Placed
  <2>2. CASE job' = [Head(ring) EXCEPT !.st = st]
    <3>1. job' \in Jobs /\ job'.st = st /\ job'.slot = Head(ring).slot /\ job'.ino = Head(ring).ino
      BY <1>4, <1>6, <2>2 DEF Jobs
    <3> QED BY <1>4, <1>6, <3>1 DEF Placed
  <2> QED BY <1>5, <2>1, <2>2
<1>8. PICK r \in {cap.recent, FALSE}, c \in {cap.cool, {}} :
        cap' = [cap EXCEPT !.recent = r, !.cool = c]
  BY DEF on_event
<1>9. r \in BOOLEAN /\ c \in SUBSET Keys
  BY <1>1, <1>8 DEF Captures
<1>10. cap' \in Captures /\ cap'.cache = cap.cache
  BY <1>1, <1>8, <1>9 DEF Captures
<1> QED BY <1>1, <1>3, <1>7, <1>10 DEF CapInv, Known, R

(* A record is put into the ring.                                            *)
LEMMA SampleStep ==
  ASSUME CapInv, NEW s \in Slots, NEW t \in BOOLEAN, NEW ty \in {"sample", "unwind", "off"},
         Sample(ty, s, t)
  PROVE  CapInv'
<1> DEFINE R == {j \in Jobs : j.slot \in Slots /\ j.ino \in Inodes}
           live == flag.active /\ sdk.pc = "on"
           x == [NoJob EXCEPT !.type = ty, !.slot = s, !.ino = vm[s], !.typed = t, !.live = live]
<1>1. ring' = Append(ring, x) /\ UNCHANGED <<vm, disk, job, cap, reg>> /\ vm[s] # NoInode
  BY DEF Sample, world
<1>2. vm[s] \in Inodes /\ vm[s] \in Files
  BY <1>1 DEF CapInv, Files
<1>3. NoJob \in Jobs
  BY DEF NoJob, Jobs, Frames, Files
<1>4. live \in BOOLEAN
  OBVIOUS
<1> HIDE DEF live
<1>5. x \in R
  BY <1>2, <1>3, <1>4 DEF Jobs
<1>6. ring \in Seq(R)
  BY DEF CapInv
<1> HIDE DEF x, R
<1>7. ring' \in Seq(R)
  BY <1>1, <1>5, <1>6
<1> QED BY <1>1, <1>7 DEF CapInv, R, Placed, Known

(* The target changes its mappings, or a file is rebuilt.                    *)
LEMMA WorldStep ==
  ASSUME CapInv,
         \/ \E s \in Slots : Dlclose(s) \/ \E p \in Paths : Dlopen(s, p)
         \/ \E p \in Paths, i \in Inodes \cup {NoInode} : Rebuild(p, i)
  PROVE  CapInv'
<1>1. CASE \E s \in Slots : Dlclose(s)
  BY <1>1 DEF CapInv, Dlclose, Files, kernel, Placed, Known
<1>2. CASE \E s \in Slots, p \in Paths : Dlopen(s, p)
  BY <1>2 DEF CapInv, Dlopen, Files, kernel, Placed, Known
<1>3. CASE \E p \in Paths, i \in Inodes \cup {NoInode} : Rebuild(p, i)
  BY <1>3 DEF CapInv, Rebuild, Files, kernel, Placed, Known
<1> QED BY <1>1, <1>2, <1>3

(* Every step of the capture keeps its invariant.                            *)
LEMMA CapStep == ASSUME CapInv, [Next]_vars PROVE CapInv'
<1>1. CASE CaptureIdle
  BY <1>1, IdleKeeps DEF captureVars, CapInv, Placed, Known
<1>2. CASE Emit
  <2>1. job' = NoJob /\ NoJob \in Jobs /\ NoJob.st = "none" /\ UNCHANGED <<vm, disk, ring, cap, reg>>
    BY <1>2 DEF Emit, NoJob, Jobs, Frames, Files, world, kernel
  <2> QED BY <2>1 DEF CapInv, Placed, Known
<1>3. CASE UNCHANGED vars
  BY <1>3 DEF vars, CapInv, Placed, Known
<1>4. CASE \E s \in Slots, t \in BOOLEAN :
             \E ty \in {"sample", "unwind", "off"} : Sample(ty, s, t)
  BY <1>4, SampleStep
<1>5. CASE TargetStep
  BY <1>4, <1>5, WorldStep DEF TargetStep
<1>6. CASE WorkerStep
  BY <1>1, <1>2, <1>6, EventStep, IdsStep, InstallStep, RawStep, ObserveStep
     DEF WorkerStep, CaptureIdle
<1> QED BY <1>1, <1>3, <1>5, <1>6 DEF Next, CaptureIdle

(* The invariant of the capture: what the registry says of every module is   *)
(* true, however the target's mappings and files change under the worker.    *)
THEOREM CaptureInvariant == Spec => []CapInv
BY CapStart, CapStep, PTL DEF Spec

(* What is known and held is the mapped file itself, whatever was rebuilt or *)
(* remapped meanwhile, and at most FdCap files are held.                     *)
THEOREM HeldExact == Spec => []HeldIsExact
<1>1. CapInv => HeldIsExact
  <2> SUFFICES ASSUME CapInv PROVE HeldIsExact
    OBVIOUS
  <2>1. \A k \in DOMAIN cap.cache : cap.cache[k] = FileId(k.ino)
    BY DEF CapInv, Known
  <2>2. ASSUME NEW h \in held_fd_paths(reg)
        PROVE  IF h[1][1] = "elf" THEN FileId(h[2]) = h[1]
               ELSE \E k \in DOMAIN reg.entries : reg.entries[k].id = h[1] /\ k.ino = h[2]
    <3>1. PICK k \in DOMAIN reg.entries :
            /\ reg.entries[k].inode \in reg.fds
            /\ \E id \in {reg.entries[k].id} \cup reg.entries[k].aliases :
                 h = <<id, reg.entries[k].inode>>
      BY DEF held_fd_paths
    <3> DEFINE e == reg.entries[k]
    <3> PICK id \in {e.id} \cup e.aliases : h = <<id, e.inode>>
      BY <3>1
    <3>2. EntryExact(e, k, reg.fds) /\ k.ino \in Inodes /\ reg.fds \subseteq Inodes
      BY EntryTyped DEF CapInv, Exact, Registry, Keys
    <3>3. h[1] = id /\ h[2] = k.ino
      BY <3>1, <3>2, IdFacts DEF EntryExact
    <3>4. CASE id = FileId(k.ino)
      <4>1. id[1] = "elf"
        BY <3>2, <3>1, <3>4 DEF EntryExact, FileId, NoId
      <4> QED BY <3>3, <3>4, <4>1
    <3>5. CASE id # FileId(k.ino)
      <4>1. id = e.id /\ id[1] = "syn"
        BY <3>1, <3>2, <3>5 DEF EntryExact
      <4> QED BY <3>3, <4>1
    <3> QED BY <3>4, <3>5
  <2> QED BY <2>1, <2>2 DEF HeldIsExact, CapInv, Exact
<1> QED BY <1>1, CaptureInvariant, PTL

(* A sampled mapping whose file the policy wants is held under every id its  *)
(* frames are emitted under, or its next sample tries again.                 *)
THEOREM SampledIsServed == Spec => []SampledServed
<1>1. CapInv => SampledServed
  <2> SUFFICES ASSUME CapInv, NEW k \in cap.obs \cap DOMAIN reg.entries,
                      should_hold(PathOf[k.ino]),
                      ~needs_exact_retry(reg, k, CachedId(k), PathOf[k.ino]),
                      NEW id \in {reg.entries[k].id, CachedId(k)} \ {NoId}
               PROVE  <<id, k.ino>> \in held_fd_paths(reg)
    BY DEF SampledServed
  <2> DEFINE e == reg.entries[k]
  <2>1. EntryExact(e, k, reg.fds) /\ k.ino \in Inodes
    BY EntryTyped DEF CapInv, Exact, Registry, Keys
  <2>2. e.pinned /\ ~needs_alias(reg, k, CachedId(k))
    BY DEF needs_exact_retry
  <2>3. e.inode = k.ino /\ e.inode \in reg.fds
    BY <2>1, <2>2, IdFacts DEF EntryExact
  <2>4. id \in {e.id} \cup e.aliases
    BY <2>2 DEF needs_alias
  <2> QED BY <2>3, <2>4 DEF held_fd_paths
<1> QED BY <1>1, CaptureInvariant, PTL

------------------------------------------------------------------------------
(* Acks.                                                                    *)

(* A record that was put into the ring during a session finds it still on;   *)
(* what a flush or a stop covers was sent by now.                            *)
LiveOn == \A n \in 1..Len(ring) : ring[n].live => flag.active
Workers == [pc : {"top", "drain", "flush", "stop", "done"}, phase : {"main", "flush", "stop"},
            fin : BOOLEAN, acks : Nat]
Flags == [active : BOOLEAN, need : SUBSET Seqs, flush : Nat, stop : BOOLEAN, exit : BOOLEAN]
Marks == [flush : Nat, stop : Nat]
AckInv ==
  /\ CapInv /\ LiveOn
  /\ w \in Workers /\ flag \in Flags /\ mark \in Marks /\ sent \in Nat
  /\ sdk \in [pc : {"idle", "start", "on", "stopping"}, n : Nat, flushes : Nat]
  /\ mark.flush <= sent /\ mark.stop <= sent

(* At the start nothing was sent and nothing is asked for.                   *)
LEMMA AckStart == Init => AckInv
<1> SUFFICES ASSUME Init PROVE AckInv
  OBVIOUS
<1>1. CapInv
  BY CapStart
<1>2. LiveOn
  BY DEF Init, LiveOn
<1>3. w \in Workers /\ flag \in Flags /\ mark \in Marks /\ sent \in Nat
      /\ sdk \in [pc : {"idle", "start", "on", "stopping"}, n : Nat, flushes : Nat]
      /\ mark.flush <= sent /\ mark.stop <= sent
  BY DEF Init, Workers, Flags, Marks
<1> QED BY <1>1, <1>2, <1>3 DEF AckInv

(* The tracing thread turns a session on; the worker turns it off when it    *)
(* has found the ring empty.                                                 *)
LEMMA SdkSteps ==
  ASSUME AckInv, SdkStart \/ on_flush \/ on_stop \/ shutdown
  PROVE  /\ UNCHANGED <<ring, sent, w, job>> /\ flag' \in Flags /\ mark' \in Marks
         /\ (flag.active => flag'.active) /\ mark'.flush <= sent /\ mark'.stop <= sent
         /\ sdk' \in [pc : {"idle", "start", "on", "stopping"}, n : Nat, flushes : Nat]
<1> USE DEF AckInv, Flags, Marks
<1>1. CASE SdkStart
  <2>1. CASE /\ sdk' = [sdk EXCEPT !.pc = "start", !.n = @ + 1]
             /\ flag' = [flag EXCEPT !.need = Seqs]
    <3>1. flag' \in Flags /\ flag'.active = flag.active
      BY <2>1
    <3> DEFINE n == sdk.n + 1
    <3>2. sdk' = [sdk EXCEPT !.pc = "start", !.n = n] /\ n \in Nat
      BY <2>1
    <3> HIDE DEF n
    <3>3. sdk' \in [pc : {"idle", "start", "on", "stopping"}, n : Nat, flushes : Nat]
      BY <3>2
    <3> QED BY <1>1, <3>1, <3>3 DEF SdkStart, kernel
  <2>2. CASE sdk' = [sdk EXCEPT !.pc = "on"] /\ flag' = [flag EXCEPT !.active = TRUE]
    <3>1. TRUE \in BOOLEAN
      OBVIOUS
    <3> QED BY <1>1, <2>2, <3>1 DEF SdkStart, kernel
  <2> QED BY <1>1, <2>1, <2>2 DEF SdkStart, on_start
<1>2. CASE on_flush
  BY <1>2 DEF on_flush, kernel
<1>3. CASE on_stop
  <2>1. /\ UNCHANGED <<ring, sent, w, job>> /\ sdk' = [sdk EXCEPT !.pc = "stopping"]
        /\ flag' = [flag EXCEPT !.stop = TRUE] /\ mark' = [mark EXCEPT !.stop = sent]
    BY <1>3 DEF on_stop, kernel
  <2>2. TRUE \in BOOLEAN
    OBVIOUS
  <2>3. flag' \in Flags /\ flag'.active = flag.active
    BY <2>1, <2>2
  <2>4. mark' \in Marks /\ mark'.flush <= sent /\ mark'.stop <= sent
    BY <2>1
  <2> QED BY <2>1, <2>3, <2>4
<1>4. CASE shutdown
  BY <1>4 DEF shutdown, kernel
<1> QED BY <1>1, <1>2, <1>3, <1>4

(* The worker serves a request: it acks on an empty ring only.               *)
LEMMA ServeSteps ==
  ASSUME AckInv, WorkerTop \/ EndDrain \/ SwapFlush \/ AckFlush \/ SwapStop \/ AckStop
  PROVE  /\ UNCHANGED <<ring, sent, job>> /\ flag' \in Flags /\ mark' \in Marks /\ w' \in Workers
         /\ ring # <<>> /\ flag.active => flag'.active
         /\ mark'.flush <= sent /\ mark'.stop <= sent
         /\ sdk' \in [pc : {"idle", "start", "on", "stopping"}, n : Nat, flushes : Nat]
         /\ w'.acks # w.acks =>
              /\ tail' = 0 /\ ring = <<>> /\ job.st = "none"
<1> USE DEF AckInv, Flags, Marks, Workers
<1>1. CASE WorkerTop
  BY <1>1 DEF WorkerTop, other, kernel
<1>2. CASE EndDrain
  BY <1>2 DEF EndDrain, other, kernel
<1>3. CASE SwapFlush
  BY <1>3 DEF SwapFlush, other, kernel
<1>4. CASE AckFlush
  <2>1. /\ UNCHANGED <<ring, sent, job, flag, sdk>> /\ ring = <<>> /\ job.st = "none"
        /\ tail' = 0 /\ mark' = [mark EXCEPT !.flush = 0]
        /\ w' = [w EXCEPT !.pc = "stop", !.acks = @ + 1]
    BY <1>4 DEF AckFlush, Drained, kernel
  <2>2. w' \in Workers
    <3> DEFINE n == w.acks + 1
    <3>1. w' = [w EXCEPT !.pc = "stop", !.acks = n] /\ n \in Nat
      BY <2>1
    <3> HIDE DEF n
    <3> QED BY <3>1
  <2>3. mark' \in Marks /\ mark'.flush <= sent /\ mark'.stop <= sent
    BY <2>1
  <2> QED BY <2>1, <2>2, <2>3
<1>5. CASE SwapStop
  BY <1>5 DEF SwapStop, other, kernel, AfterAcks
<1>6. CASE AckStop
  <2>1. /\ UNCHANGED <<ring, sent, job>> /\ flag' = [flag EXCEPT !.active = FALSE]
        /\ ring = <<>> /\ job.st = "none" /\ tail' = 0 /\ mark' = [mark EXCEPT !.stop = 0]
        /\ w' = [w EXCEPT !.pc = AfterAcks, !.acks = @ + 1] /\ sdk' = [sdk EXCEPT !.pc = "idle"]
    BY <1>6 DEF AckStop, Drained, kernel
  <2>2. flag' \in Flags
    BY <2>1
  <2>3. AfterAcks \in {"top", "done"}
    BY DEF AfterAcks
  <2>4. w' \in Workers
    <3> DEFINE pc == AfterAcks
               n == w.acks + 1
    <3>1. w' = [w EXCEPT !.pc = pc, !.acks = n] /\ pc \in {"top", "done"} /\ n \in Nat
      BY <2>1, <2>3
    <3> HIDE DEF pc, n
    <3> QED BY <3>1
  <2>5. mark' \in Marks /\ mark'.flush <= sent /\ mark'.stop <= sent
    BY <2>1
  <2> QED BY <2>1, <2>2, <2>4, <2>5
<1> QED BY <1>1, <1>2, <1>3, <1>4, <1>5, <1>6

(* The worker takes the next record, which is handled if the session is on.  *)
LEMMA TakeStep ==
  ASSUME AckInv, on_event
  PROVE  /\ UNCHANGED <<sent, sdk, mark, w>> /\ flag' \in Flags /\ flag'.active = flag.active
         /\ ring # <<>> /\ ring' = Tail(ring) /\ job.st = "none"
         /\ flag.active => job' # job
<1>1. /\ UNCHANGED <<sent, sdk, mark, w>> /\ ring # <<>> /\ ring' = Tail(ring)
      /\ job.st = "none"
  BY DEF on_event
<1>2. flag' \in Flags /\ flag'.active = flag.active
  <2>1. flag' = flag \/ \E q : flag' = [flag EXCEPT !.need = @ \ {q}]
    BY DEF on_event
  <2> QED BY <2>1 DEF AckInv, Flags
<1>3. ASSUME flag.active PROVE job' # job
  <2> DEFINE st == IF Head(ring).typed THEN "ids" ELSE "raw"
             R == {j \in Jobs : j.slot \in Slots /\ j.ino \in Inodes}
  <2>1. job' = [Head(ring) EXCEPT !.st = st]
    BY <1>3 DEF on_event
  <2>2. ring \in Seq(R)
    BY DEF AckInv, CapInv
  <2> HIDE DEF R
  <2>3. Head(ring) \in R
    BY <1>1, <2>2
  <2>4. st # "none"
    OBVIOUS
  <2> HIDE DEF st
  <2>5. job'.st = st
    BY <2>1, <2>3 DEF R, Jobs
  <2> QED BY <1>1, <2>4, <2>5
<1> QED BY <1>1, <1>2, <1>3

(* Every other step leaves the acks, and adds to the ring at most.           *)
Resolve == ObserveBuildIds \/ install_maps \/ FindRaw \/ observe_mapping \/ Emit
(* Resolving a record leaves the ring and the requests alone.                *)
LEMMA ResolveSteps == Resolve => UNCHANGED <<ring, sent, sdk, flag, mark, w>>
<1>1. ASSUME NEW c, NEW j, NEW ret, Scan(c, j, ret) PROVE UNCHANGED <<ring, sent, sdk, flag, mark, w>>
  BY <1>1 DEF Scan, rest, kernel
<1>2. ObserveBuildIds => UNCHANGED <<ring, sent, sdk, flag, mark, w>>
  BY <1>1 DEF ObserveBuildIds, rest, kernel
<1>3. FindRaw => UNCHANGED <<ring, sent, sdk, flag, mark, w>>
  BY <1>1, SMTT(30) DEF FindRaw, rest, kernel
<1>4. install_maps => UNCHANGED <<ring, sent, sdk, flag, mark, w>>
  BY ZenonT(60) DEF install_maps, rest, kernel
<1>5. observe_mapping => UNCHANGED <<ring, sent, sdk, flag, mark, w>>
  BY DEF observe_mapping, rest, kernel
<1>6. Emit => UNCHANGED <<ring, sent, sdk, flag, mark, w>>
  BY DEF Emit, kernel
<1> QED BY <1>2, <1>3, <1>4, <1>5, <1>6 DEF Resolve

Changed ==
  \/ \E s \in Slots : Dlclose(s) \/ \E p \in Paths : Dlopen(s, p)
  \/ \E p \in Paths, i \in Inodes \cup {NoInode} : Rebuild(p, i)
(* So do the changes of the target.                                          *)
LEMMA ChangedSteps == Changed => UNCHANGED <<ring, sent, sdk, flag, mark, w, job>>
BY DEF Changed, Dlclose, Dlopen, Rebuild, kernel

(* A record is appended, marked live only while the session is on.           *)
LEMMA SampleAdds ==
  ASSUME AckInv, NEW s \in Slots, NEW t \in BOOLEAN, NEW ty \in {"sample", "unwind", "off"},
         Sample(ty, s, t)
  PROVE  /\ UNCHANGED <<sdk, flag, mark, w, job>> /\ sent' = sent + 1
         /\ \E x \in Jobs : ring' = Append(ring, x) /\ (x.live => flag.active)
<1> DEFINE live == flag.active /\ sdk.pc = "on"
           x == [NoJob EXCEPT !.type = ty, !.slot = s, !.ino = vm[s], !.typed = t, !.live = live]
<1>1. ring' = Append(ring, x) /\ UNCHANGED <<sdk, flag, mark, w, job>> /\ sent' = sent + 1
  BY DEF Sample
<1>2. vm[s] \in Files /\ NoJob \in Jobs
  BY DEF AckInv, CapInv, NoJob, Jobs, Frames, Files
<1>3. live \in BOOLEAN /\ (live => flag.active)
  OBVIOUS
<1> HIDE DEF live
<1>4. x \in Jobs /\ x.live = live
  BY <1>2, <1>3 DEF Jobs
<1> QED BY <1>1, <1>3, <1>4

(* What is left of a sequence without its first element.                     *)
LEMMA TailLive ==
  ASSUME NEW S, NEW s \in Seq(S), s # <<>>
  PROVE  /\ \A n \in 1..Len(Tail(s)) : Tail(s)[n] = s[n + 1] /\ n + 1 \in 1..Len(s)
         /\ Head(s) = s[1] /\ 1 \in 1..Len(s) /\ Tail(s) # s
         /\ \A x \in S : Append(s, x) # Tail(s)
<1>1. Len(s) \in Nat /\ Len(s) >= 1 /\ Len(Tail(s)) = Len(s) - 1
  OBVIOUS
<1>2. \A n \in 1..Len(Tail(s)) : Tail(s)[n] = s[n + 1]
  OBVIOUS
<1>3. \A x \in S : Len(Append(s, x)) = Len(s) + 1
  OBVIOUS
<1> DEFINE l == Len(s)
           k == Len(Tail(s))
<1>4. l \in Nat /\ k = l - 1 /\ l >= 1
  BY <1>1
<1>5. Head(s) = s[1]
  OBVIOUS
<1> HIDE DEF l, k
<1>6. (\A n \in 1..k : n + 1 \in 1..l) /\ 1 \in 1..l /\ k # l /\ k # l + 1
  BY <1>4
<1> QED BY <1>2, <1>3, <1>5, <1>6 DEF l, k

(* Every step keeps the invariant of acks.                                   *)
LEMMA AckKept == ASSUME AckInv, [Next]_vars PROVE AckInv'
<1> DEFINE J == {j \in Jobs : j.slot \in Slots /\ j.ino \in Inodes}
<1>1. CapInv'
  BY CapStep DEF AckInv
<1>2. ring \in Seq(Jobs)
  <2>1. ring \in Seq(J) /\ J \subseteq Jobs
    BY DEF AckInv, CapInv
  <2> HIDE DEF J
  <2> QED BY <2>1
<1>3. CASE SdkStart \/ on_flush \/ on_stop \/ shutdown
  BY <1>1, <1>3, SdkSteps DEF AckInv, LiveOn
<1>4. CASE WorkerTop \/ EndDrain \/ SwapFlush \/ AckFlush \/ SwapStop \/ AckStop
  <2>1. CASE ring = <<>>
    BY <1>1, <1>4, <2>1, ServeSteps DEF AckInv, LiveOn
  <2>2. CASE ring # <<>>
    BY <1>1, <1>4, <2>2, ServeSteps DEF AckInv, LiveOn
  <2> QED BY <2>1, <2>2
<1>5. CASE on_event
  <2>1. LiveOn'
    BY <1>2, <1>5, TakeStep, TailLive, ZenonT(60) DEF AckInv, LiveOn
  <2> QED BY <1>1, <1>5, <2>1, TakeStep DEF AckInv
<1>6. CASE Resolve
  BY <1>1, <1>6, ResolveSteps DEF AckInv, LiveOn
<1>7. CASE Changed
  BY <1>1, <1>7, ChangedSteps DEF AckInv, LiveOn
<1>8. ASSUME NEW s \in Slots, NEW t \in BOOLEAN, NEW ty \in {"sample", "unwind", "off"},
             Sample(ty, s, t)
      PROVE  AckInv'
  <2>1. PICK x \in Jobs : ring' = Append(ring, x) /\ (x.live => flag.active)
    BY <1>8, SampleAdds
  <2>2. UNCHANGED <<sdk, flag, mark, w>> /\ sent' = sent + 1
    BY <1>8, SampleAdds
  <2>3. LiveOn'
    <3> SUFFICES ASSUME NEW n \in 1..Len(ring'), ring'[n].live PROVE flag.active
      BY <2>2 DEF LiveOn
    <3>1. (n \in 1..Len(ring) /\ ring'[n] = ring[n]) \/ ring'[n] = x
      BY <1>2, <2>1
    <3> QED BY <2>1, <3>1 DEF AckInv, LiveOn
  <2>4. mark'.flush <= sent' /\ mark'.stop <= sent' /\ sent' \in Nat
    BY <2>2 DEF AckInv, Marks
  <2> QED BY <1>1, <2>2, <2>3, <2>4 DEF AckInv
<1>9. CASE UNCHANGED vars
  BY <1>1, <1>9 DEF vars, AckInv, LiveOn
<1>10. CASE TargetStep
  BY <1>7, <1>8, <1>10 DEF TargetStep, Changed
<1>11. CASE WorkerStep
  BY <1>4, <1>5, <1>6, <1>11 DEF WorkerStep, Resolve
<1> QED BY <1>3, <1>9, <1>10, <1>11 DEF Next

(* What each step does to the acks and to a live record.                     *)
LEMMA AckedIsCovered == ASSUME AckInv, [Next]_vars PROVE AckCovered \/ UNCHANGED vars
<1> DEFINE J == {j \in Jobs : j.slot \in Slots /\ j.ino \in Inodes}
<1>1. ring \in Seq(Jobs)
  <2>1. ring \in Seq(J) /\ J \subseteq Jobs
    BY DEF AckInv, CapInv
  <2> HIDE DEF J
  <2> QED BY <2>1
<1>2. ring # <<>> => /\ Tail(ring) # ring /\ \A x \in Jobs : Append(ring, x) # Tail(ring)
                     /\ Head(ring) = ring[1] /\ 1 \in 1..Len(ring)
  BY <1>1, TailLive
<1>3. ASSUME UNCHANGED <<ring, w>> PROVE AckCovered
  BY <1>2, <1>3 DEF AckCovered
<1>4. CASE SdkStart \/ on_flush \/ on_stop \/ shutdown
  BY <1>3, <1>4, SdkSteps
<1>5. CASE WorkerTop \/ EndDrain \/ SwapFlush \/ AckFlush \/ SwapStop \/ AckStop
  <2>1. ring' = ring /\ (w'.acks # w.acks => tail' = 0 /\ ring = <<>> /\ job.st = "none")
    BY <1>5, ServeSteps
  <2>2. ring = <<>> => Len(ring) = 0
    OBVIOUS
  <2>3. ASSUME ring = <<>>, job.st = "none"
        PROVE  Handled >= (IF w.pc = "drain" /\ w.phase = "stop" THEN mark.stop ELSE mark.flush)
    BY <2>2, <2>3 DEF AckInv, Handled, Marks
  <2> QED BY <1>2, <2>1, <2>3 DEF AckCovered
<1>6. CASE on_event
  <2>1. w' = w /\ ring # <<>> /\ (flag.active => job' # job)
    BY <1>6, TakeStep
  <2>2. Head(ring).live => flag.active
    BY <1>2, <2>1 DEF AckInv, LiveOn
  <2> QED BY <2>1, <2>2 DEF AckCovered
<1>7. CASE Resolve
  BY <1>3, <1>7, ResolveSteps
<1>8. CASE Changed
  BY <1>3, <1>8, ChangedSteps
<1>9. ASSUME NEW s \in Slots, NEW t \in BOOLEAN, NEW ty \in {"sample", "unwind", "off"},
             Sample(ty, s, t)
      PROVE  AckCovered
  <2>1. PICK x \in Jobs : ring' = Append(ring, x)
    BY <1>9, SampleAdds
  <2>2. w' = w
    BY <1>9, SampleAdds
  <2> QED BY <1>2, <2>1, <2>2 DEF AckCovered
<1>10. CASE TargetStep
  BY <1>8, <1>9, <1>10 DEF TargetStep, Changed
<1>11. CASE WorkerStep
  BY <1>5, <1>6, <1>7, <1>11 DEF WorkerStep, Resolve
<1> QED BY <1>4, <1>10, <1>11 DEF Next

(* An ack covers every record that was in the ring when it was asked for,    *)
(* and no record of a session is dropped as if there were none.              *)
THEOREM AcksHeld == Spec => AckCovers
<1>1. Init => AckInv
  BY AckStart
<1>2. AckInv /\ [Next]_vars => AckInv'
  BY AckKept
<1>3. AckInv /\ [Next]_vars => [AckCovered]_vars
  BY AckedIsCovered
<1> QED BY <1>1, <1>2, <1>3, PTL DEF Spec, AckCovers
=============================================================================
