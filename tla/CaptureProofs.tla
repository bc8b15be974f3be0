---------------------------- MODULE CaptureProofs ----------------------------
(***************************************************************************)
(* Proofs about what the recorder captures: the heap worker (HeapWorker),  *)
(* the kperf consumers (Kperf), the scheduling timeline (SchedTimeline)    *)
(* and the heap dumps with their bundles (HeapDump).                       *)
(*                                                                         *)
(* The worker resets its event, looks at each request in turn and then     *)
(* sleeps; NoLostWakeup speaks of the last step only, so the invariant     *)
(* says the same of every step between a look and the sleep.  Of kperf:    *)
(* whichever sysctl of arm fails, it samples only with every filter set,   *)
(* and frames of a loaded image are lost for a bounded number of samples.  *)
(* Of the timeline: the pairs emitted and the switches buffered are at     *)
(* each moment what the events since the start came to, which one event    *)
(* more preserves, so a batch does and the place of the cut is of no       *)
(* account.  Of a dump: what was read and what is on its way make up what  *)
(* the inspector has sent; a tar is known by where its headers lie, and    *)
(* the reader, which starts at the first, can only get to the second.      *)
(***************************************************************************)
EXTENDS HeapWorker, Kperf, SchedTimeline, HeapDump, FiniteSetTheorems, FunctionTheorems, SequenceTheorems,
        WellFoundedInduction, TLAPS

------------------------------------------------------------------------------
(* The heap worker.                                                         *)

\* The capture as HeapCapture::start leaves it satisfies the invariant.
LEMMA InitWorkerInv == Init => WorkerInv
<1> SUFFICES ASSUME Init PROVE WorkerInv
  OBVIOUS
<1>1. /\ signaled \in BOOLEAN /\ setup_received \in BOOLEAN /\ running \in BOOLEAN
      /\ exit_requested \in BOOLEAN /\ pending_stopper \in BOOLEAN
      /\ ctrl_open \in BOOLEAN /\ attached \in BOOLEAN
  BY Zenon DEF Init
<1>2. /\ wpc = "setup_check" /\ pending_flusher = 0 /\ ~pending_stopper /\ ~ctrl_open
  BY Zenon DEF Init
<1>3. TypeOK
  BY <1>1, DrainAssumption, BoundAssumption DEF Init, TypeOK, SetupSteps
<1>4. HandlesOnce
  BY <1>2, BoundAssumption DEF Init, HandlesOnce, HoldsFlusher, HoldsStopper
<1>5. Heard /\ OpenInLoop /\ DrainBounded /\ StopReady
  BY <1>2 DEF Init, Heard, PastFlush, PastStop, OpenInLoop, DrainBounded, StopReady, HoldsStopper
<1> QED BY <1>3, <1>4, <1>5 DEF WorkerInv

\* What a trampoline stores it stores before it sets the event, and the worker
\* is awake from the store on; a handle it stores is one nobody has acked.
LEMMA CallbackStep == WorkerInv /\ (Service \/ CallbackSets) => WorkerInv'
<1> SUFFICES ASSUME WorkerInv, Service \/ CallbackSets
             PROVE  WorkerInv'
  OBVIOUS
<1> USE DrainAssumption, BoundAssumption
        DEF WorkerInv, TypeOK, Heard, HandlesOnce, OpenInLoop, DrainBounded, StopReady, Awake,
            PastFlush, PastStop, HoldsFlusher, HoldsStopper, SetupSteps, ParkSteps, LoopSteps,
            service, control, worker, data, acks, ring, Go, Local
<1>1. CASE on_setup
  BY <1>1 DEF on_setup
<1>2. CASE on_start
  BY <1>2 DEF on_start
<1>3. CASE on_flush
  BY <1>3 DEF on_flush
<1>4. CASE on_stop
  BY <1>4 DEF on_stop
<1>5. CASE CallbackSets
  BY <1>5 DEF CallbackSets
<1> QED BY <1>1, <1>2, <1>3, <1>4, <1>5 DEF Service

\* The recorder's shutdown requests the exit, sets the event and joins.
LEMMA ShutdownStep == WorkerInv /\ Recorder => WorkerInv'
<1> SUFFICES ASSUME WorkerInv, Recorder
             PROVE  WorkerInv'
  OBVIOUS
<1> USE DrainAssumption, BoundAssumption
        DEF WorkerInv, TypeOK, Heard, HandlesOnce, OpenInLoop, DrainBounded, StopReady, Awake,
            PastFlush, PastStop, HoldsFlusher, HoldsStopper, SetupSteps, ParkSteps, LoopSteps,
            service, control, worker, data, acks, ring, Go, Local
<1>1. CASE shutdown
  BY <1>1 DEF shutdown
<1>2. CASE ShutdownSets
  BY <1>2 DEF ShutdownSets
<1>3. CASE Join
  BY <1>3 DEF Join
<1> QED BY <1>1, <1>2, <1>3 DEF Recorder

\* The target writes and detaches without touching the worker's requests.
LEMMA TargetStep == WorkerInv /\ Target => WorkerInv'
<1> SUFFICES ASSUME WorkerInv, Target
             PROVE  WorkerInv'
  OBVIOUS
<1> USE DrainAssumption, BoundAssumption
        DEF WorkerInv, TypeOK, Heard, HandlesOnce, OpenInLoop, DrainBounded, StopReady, Awake,
            PastFlush, PastStop, HoldsFlusher, HoldsStopper, SetupSteps, ParkSteps, LoopSteps,
            service, control, worker, data, acks, ring, Go, Local
<1>1. CASE TargetWrites
  BY <1>1 DEF TargetWrites
<1>2. CASE TargetDetaches
  <2>1. attached' \in BOOLEAN /\ ~attached'
    BY <1>2, Zenon DEF TargetDetaches
  <2> QED BY <1>2, <2>1 DEF TargetDetaches
<1> QED BY <1>1, <1>2 DEF Target

\* wait_for_setup and the heavy setup phase.
LEMMA SetupStep == WorkerInv /\ Setup => WorkerInv'
<1> SUFFICES ASSUME WorkerInv, Setup
             PROVE  WorkerInv'
  OBVIOUS
<1> USE DrainAssumption, BoundAssumption
        DEF WorkerInv, TypeOK, Heard, HandlesOnce, OpenInLoop, DrainBounded, StopReady, Awake,
            PastFlush, PastStop, HoldsFlusher, HoldsStopper, SetupSteps, ParkSteps, LoopSteps,
            service, control, worker, data, acks, ring, Go, Local
<1>1. CASE SetupCheck
  BY <1>1 DEF SetupCheck
<1>2. CASE SetupReset
  <2>1. signaled' \in BOOLEAN /\ ~signaled'
    BY <1>2, Zenon DEF SetupReset, Reset
  <2> QED BY <1>2, <2>1 DEF SetupReset, Reset
<1>3. CASE SetupRecheck
  BY <1>3 DEF SetupRecheck
<1>4. CASE SetupWait
  BY <1>4 DEF SetupWait, Wait
<1>5. CASE SetupExit
  BY <1>5 DEF SetupExit, Exits
<1>6. CASE HeavyFails
  BY <1>6 DEF HeavyFails
<1>7. CASE HeavyAttaches
  BY <1>7 DEF HeavyAttaches
<1> QED BY <1>1, <1>2, <1>3, <1>4, <1>5, <1>6, <1>7 DEF Setup

\* park_until_exit: reset, look at each request, look for the exit again, sleep.
LEMMA ParkStep == WorkerInv /\ Park => WorkerInv'
<1> SUFFICES ASSUME WorkerInv, Park
             PROVE  WorkerInv'
  OBVIOUS
<1> USE DrainAssumption, BoundAssumption
        DEF WorkerInv, TypeOK, Heard, HandlesOnce, OpenInLoop, DrainBounded, StopReady, Awake,
            PastFlush, PastStop, HoldsFlusher, HoldsStopper, SetupSteps, ParkSteps, LoopSteps,
            service, control, worker, data, acks, ring, Go, Local
<1>1. CASE ParkReset
  <2>1. signaled' \in BOOLEAN /\ ~signaled'
    BY <1>1, Zenon DEF ParkReset, Reset
  <2> QED BY <1>1, <2>1 DEF ParkReset, Reset
<1>2. CASE ParkExit
  BY <1>2 DEF ParkExit, Exits
<1>3. CASE ParkFlush
  BY <1>3 DEF ParkFlush, TakeFlusher
<1>4. CASE ParkFlushDone
  BY <1>4 DEF ParkFlushDone, FlushDone
<1>5. CASE ParkStop
  <2>1. pending_stopper' \in BOOLEAN /\ ~pending_stopper'
    BY <1>5, Zenon DEF ParkStop, TakeStopper
  <2> QED BY <1>5, <2>1 DEF ParkStop, TakeStopper
<1>6. CASE ParkStopDone
  BY <1>6 DEF ParkStopDone, StopDone
<1>7. CASE ParkRunning
  <2>1. running' \in BOOLEAN /\ ~running'
    BY <1>7, Zenon DEF ParkRunning, StopRunning
  <2> QED BY <1>7, <2>1 DEF ParkRunning, StopRunning
<1>8. CASE ParkExit2
  BY <1>8 DEF ParkExit2, Exits
<1>9. CASE ParkWait
  BY <1>9, SMTT(30) DEF ParkWait, Wait
<1> QED BY <1>1, <1>2, <1>3, <1>4, <1>5, <1>6, <1>7, <1>8, <1>9 DEF Park

\* The main loop: reset, look, serve, look for the exit again, sleep.
LEMMA LoopStep == WorkerInv /\ Loop => WorkerInv'
<1> SUFFICES ASSUME WorkerInv, Loop
             PROVE  WorkerInv'
  OBVIOUS
<1> USE DrainAssumption, BoundAssumption
        DEF WorkerInv, TypeOK, Heard, HandlesOnce, OpenInLoop, DrainBounded, StopReady, Awake,
            PastFlush, PastStop, HoldsFlusher, HoldsStopper, SetupSteps, ParkSteps, LoopSteps,
            service, control, worker, data, acks, ring, Go, Local
<1>1. CASE LoopReset
  <2>1. signaled' \in BOOLEAN /\ ~signaled'
    BY <1>1, Zenon DEF LoopReset, Reset
  <2> QED BY <1>1, <2>1 DEF LoopReset, Reset
<1>2. CASE LoopExit
  BY <1>2 DEF LoopExit, Exits
<1>3. CASE LoopDrain
  <2>1. CASE running /\ StartDrain("poll", "flush")
    BY <2>1 DEF StartDrain
  <2>2. CASE Go("poll", "flush") /\ UNCHANGED signaled /\ Local
    BY <2>2
  <2> QED BY <1>3, <2>1, <2>2 DEF LoopDrain
<1>4. CASE DrainRecord
  BY <1>4 DEF DrainRecord
<1>5. CASE DrainEmpty
  BY <1>5 DEF DrainEmpty
<1>6. CASE LoopFlush
  BY <1>6 DEF LoopFlush, TakeFlusher
<1>7. CASE FlushDrain
  BY <1>7 DEF FlushDrain, StartDrain
<1>8. CASE FlushEmit
  BY <1>8 DEF FlushEmit, Emit
<1>9. CASE FlushAck
  BY <1>9 DEF FlushAck, FlushDone
<1>10. CASE LoopStop
  <2>1. pending_stopper' \in BOOLEAN /\ ~pending_stopper'
    BY <1>10, Zenon DEF LoopStop, TakeStopper
  <2> QED BY <1>10, <2>1 DEF LoopStop, TakeStopper
<1>11. CASE StopClose
  <2>1. ctrl_open' \in BOOLEAN /\ ~ctrl_open'
    BY <1>11, Zenon DEF StopClose
  <2> QED BY <1>11, <2>1 DEF StopClose
<1>12. CASE Settle
  BY <1>12 DEF Settle
<1>13. CASE StopDrain
  BY <1>13 DEF StopDrain, StartDrain
<1>14. CASE StopEmit
  BY <1>14 DEF StopEmit, Emit
<1>15. CASE StopAck
  BY <1>15 DEF StopAck, StopDone
<1>16. CASE StopClear
  <2>1. running' \in BOOLEAN /\ ~running'
    BY <1>16, Zenon DEF StopClear, StopRunning
  <2> QED BY <1>16, <2>1 DEF StopClear, StopRunning
<1>17. CASE LoopExit2
  BY <1>17 DEF LoopExit2, Exits
<1>18. CASE Choose
  BY <1>18 DEF Choose
<1>19. CASE WaitTimeout
  BY <1>19 DEF WaitTimeout
<1>20. CASE LoopWait
  BY <1>20 DEF LoopWait, Wait
<1>21. CASE CloseControl
  <2>1. ctrl_open' \in BOOLEAN /\ ~ctrl_open'
    BY <1>21, Zenon DEF CloseControl
  <2> QED BY <1>21, <2>1 DEF CloseControl
<1> QED BY <1>1, <1>2, <1>3, <1>4, <1>5, <1>6, <1>7, <1>8, <1>9, <1>10, <1>11, <1>12, <1>13, <1>14, <1>15, <1>16, <1>17, <1>18, <1>19, <1>20, <1>21 DEF Loop

\* Every step, and every step that leaves the capture alone, keeps WorkerInv.
LEMMA NextWorkerInv == WorkerInv /\ [Next]_vars => WorkerInv'
<1> SUFFICES ASSUME WorkerInv, [Next]_vars PROVE WorkerInv'
  OBVIOUS
<1>1. CASE Service \/ CallbackSets
  BY <1>1, CallbackStep
<1>2. CASE Recorder
  BY <1>2, ShutdownStep
<1>3. CASE Target
  BY <1>3, TargetStep
<1>4. CASE Worker
  BY <1>4, SetupStep, ParkStep, LoopStep DEF Worker
<1>5. CASE UNCHANGED vars
  BY <1>5 DEF vars, service, control, worker, data, acks, WorkerInv, TypeOK, Heard, HandlesOnce,
              OpenInLoop, DrainBounded, StopReady, Awake, HoldsFlusher, HoldsStopper
<1> QED BY <1>1, <1>2, <1>3, <1>4, <1>5 DEF Next

\* The invariant of the heap worker holds of every behaviour, for every number of
\* flushes and records and every drain limit.
THEOREM WorkerInvariant == Spec => []WorkerInv
<1>1. Init => WorkerInv
  BY InitWorkerInv
<1>2. WorkerInv /\ [Next]_vars => WorkerInv'
  BY NextWorkerInv
<1> QED BY <1>1, <1>2, PTL DEF Spec

\* The worker of HeapCapture never sleeps in Event::wait over a setup, a flush, a
\* stop or an exit that nobody is about to wake it for.
THEOREM WorkerNoLostWakeup == Spec => []NoLostWakeup
<1>1. WorkerInv => NoLostWakeup
  BY DEF WorkerInv, Heard, Awake, PastFlush, PastStop, NoLostWakeup
<1> QED BY <1>1, WorkerInvariant, PTL

\* No flusher or stopper handle reaches sismo_flush_done or sismo_stop_done twice,
\* or before the service handed it out.
THEOREM WorkerAckedOnce == Spec => []AckedOnce
<1>1. WorkerInv => AckedOnce
  BY DEF WorkerInv, HandlesOnce, AckedOnce
<1> QED BY <1>1, WorkerInvariant, PTL

\* A worker that has ended has closed its control connection to the target.
THEOREM WorkerReleasedAtExit == Spec => []ReleasedAtExit
<1>1. WorkerInv => ReleasedAtExit
  BY DEF WorkerInv, OpenInLoop, LoopSteps, ReleasedAtExit
<1> QED BY <1>1, WorkerInvariant, PTL

\* sismo_stop_done is called only when the profile in the trace accounts for every
\* record the worker booked and the target was told to detach.
THEOREM WorkerStopAckedLast == Spec => StopAckedLast
<1>1. ASSUME WorkerInv, [Next]_vars, stop_acks' # stop_acks
      PROVE  snapshot = booked /\ ~ctrl_open
  <2>1. CASE StopAck
    BY <1>1, <2>1 DEF WorkerInv, StopReady, HoldsStopper, StopAck, StopDone, Go
  <2>2. CASE ParkStopDone
    BY <1>1, <2>2 DEF WorkerInv, TypeOK, StopReady, HoldsStopper, ParkSteps, ParkStopDone, StopDone, Go
  <2>3. StopAck \/ ParkStopDone
    BY <1>1 DEF Next, vars, acks, data, control, worker, service, Local,
                Service, on_setup, on_start, on_flush, on_stop, CallbackSets,
                Recorder, shutdown, ShutdownSets, Join, Target, TargetWrites, TargetDetaches,
                Worker, Setup, SetupCheck, SetupReset, SetupRecheck, SetupWait, SetupExit,
                HeavyFails, HeavyAttaches, Park, ParkReset, ParkExit, ParkFlush, ParkFlushDone,
                ParkStop, ParkRunning, ParkExit2, ParkWait, Loop, LoopReset, LoopExit, LoopDrain,
                DrainRecord, DrainEmpty, LoopFlush, FlushDrain, FlushEmit, FlushAck, LoopStop,
                StopClose, Settle, StopDrain, StopEmit, StopClear, LoopExit2, Choose, WaitTimeout,
                LoopWait, CloseControl, Reset, Wait, Exits, TakeFlusher, TakeStopper, FlushDone,
                StopRunning, StartDrain, Emit
  <2> QED BY <2>1, <2>2, <2>3
<1>2. WorkerInv /\ [Next]_vars => [stop_acks' # stop_acks => snapshot = booked /\ ~ctrl_open]_vars
  BY <1>1
<1> QED BY <1>2, WorkerInvariant, PTL DEF Spec, StopAckedLast

\* The three together: the worker hears every request, acks none twice and ends
\* with the connection closed.
THEOREM WorkerSafety == Spec => []WorkerSafe
<1>1. NoLostWakeup /\ AckedOnce /\ ReleasedAtExit => WorkerSafe
  BY DEF WorkerSafe
<1> QED BY <1>1, WorkerNoLostWakeup, WorkerAckedOnce, WorkerReleasedAtExit, PTL

------------------------------------------------------------------------------
(* The sysctls of arm.                                                      *)

Names == {"reset", "action_count", "samplers", "ucallstack_depth", "kcallstack_depth",
          "filter_by_pid", "wait_threshold", "wait_action", "timer_count", "timer_period",
          "timer_action", "sampling"}
Knobs == Names \X Nat
Sampling == Knob("sampling", 0)
(* What every action of a sampler is configured with, and what triggers it.  *)
ActionKnobs(c) ==
  {Knob(n, ActionId(c)) : n \in {"samplers", "ucallstack_depth", "filter_by_pid"}}
    \cup (IF c = "on" THEN {Knob("kcallstack_depth", ActionId(c))} ELSE {})
TriggerKnobs(c) ==
  IF c = "on"
  THEN {Knob("timer_count", 0), Knob("timer_period", 0), Knob("timer_action", ActionId("on"))}
  ELSE {Knob("wait_threshold", 0), Knob("wait_action", ActionId("off"))}
AllKnobs ==
  {Knob("action_count", Cardinality(Wanted))}
    \cup UNION {ActionKnobs(c) \cup TriggerKnobs(c) : c \in Wanted}

(* While arm runs, what is set is what the sysctls up to here set; sampling  *)
(* is the last of them.                                                      *)
ArmedSoFar ==
  ctl.state = "arming" =>
    \E n \in 0..Len(ArmSteps) :
      /\ step = SubSeq(ArmSteps, n + 1, Len(ArmSteps))
      /\ ctl.set = {ArmSteps[i] : i \in 2..n} \ {Sampling}
      /\ ctl.sampling <=> n = Len(ArmSteps)
KnobInv ==
  /\ ctl \in [state : {"arming", "armed", "failed", "off"}, set : SUBSET Knobs,
              sampling : BOOLEAN]
  /\ ArmedSoFar
  /\ ctl.sampling => ctl.set = AllKnobs

(* Samples are counted from the last enumeration; a miss is one of them.     *)
Threshold(mods) == IF mods = {} THEN EmptyRetry ELSE ReloadEvery
DropInv ==
  /\ images \subseteq Slots
  /\ em \in [mods : SUBSET Slots, since : Nat, missed : Nat]
  /\ em.missed <= em.since /\ em.missed <= Threshold(em.mods)
  /\ ctl.state = "arming" => em = NewEmitter /\ \A t \in Threads : log[t] = <<>>

------------------------------------------------------------------------------
(* Sequences by what is in them.                                            *)

Rng(s) == {s[i] : i \in 1..Len(s)}
Rest(s) == {s[i] : i \in 2..Len(s)}

(* The elements of a concatenation.                                          *)
LEMMA Elements ==
  ASSUME NEW S, NEW s \in Seq(S), NEW t \in Seq(S)
  PROVE  /\ Len(s \o t) = Len(s) + Len(t)
         /\ \A i \in 1..Len(s) : (s \o t)[i] = s[i]
         /\ \A i \in 1..Len(t) : (s \o t)[Len(s) + i] = t[i]
OBVIOUS

(* What a concatenation holds, and what it holds after its first element.    *)
LEMMA Concat ==
  ASSUME NEW S, NEW s \in Seq(S), NEW t \in Seq(S)
  PROVE  /\ s \o t \in Seq(S)
         /\ Rng(s \o t) = Rng(s) \cup Rng(t)
         /\ Len(s) >= 1 => /\ Rest(s \o t) = Rest(s) \cup Rng(t)
                           /\ Len(s \o t) >= 1 /\ (s \o t)[1] = s[1]
<1> DEFINE z == s \o t
<1>1. z \in Seq(S) /\ Len(z) = Len(s) + Len(t)
      /\ \A i \in 1..Len(z) : z[i] = IF i <= Len(s) THEN s[i] ELSE t[i - Len(s)]
  OBVIOUS
<1>2. \A i \in 1..Len(t) : z[Len(s) + i] = t[i] /\ Len(s) + i \in 1..Len(z)
  OBVIOUS
<1>3. Len(s) \in Nat /\ Len(t) \in Nat
  OBVIOUS
<1> HIDE DEF z
<1>4. Rng(z) = Rng(s) \cup Rng(t)
  <2>1. ASSUME NEW i \in 1..Len(z) PROVE z[i] \in Rng(s) \cup Rng(t)
    BY <1>1, <1>3 DEF Rng
  <2>2. ASSUME NEW i \in 1..Len(s) PROVE s[i] \in Rng(z)
    BY <1>1, <1>3 DEF Rng
  <2>3. ASSUME NEW i \in 1..Len(t) PROVE t[i] \in Rng(z)
    BY <1>2 DEF Rng
  <2> QED BY <2>1, <2>2, <2>3 DEF Rng
<1>5. ASSUME Len(s) >= 1 PROVE Rest(z) = Rest(s) \cup Rng(t) /\ Len(z) >= 1 /\ z[1] = s[1]
  <2>1. ASSUME NEW i \in 2..Len(z) PROVE z[i] \in Rest(s) \cup Rng(t)
    BY <1>1, <1>3 DEF Rng, Rest
  <2>2. ASSUME NEW i \in 2..Len(s) PROVE s[i] \in Rest(z)
    BY <1>1, <1>3 DEF Rest
  <2>3. ASSUME NEW i \in 1..Len(t) PROVE t[i] \in Rest(z)
    <3>1. Len(s) + i \in 2..Len(z) /\ z[Len(s) + i] = t[i]
      BY <1>1, <1>2, <1>3, <1>5
    <3> QED BY <3>1 DEF Rest
  <2>4. Len(z) >= 1 /\ z[1] = s[1]
    BY <1>1, <1>3, <1>5
  <2> QED BY <2>1, <2>2, <2>3, <2>4 DEF Rng, Rest
<1> QED BY <1>1, <1>4, <1>5 DEF z

(* The same of a sequence that is written out.                               *)
LEMMA Listed ==
  /\ <<>> \in Seq(Knobs) /\ Rng(<<>>) = {}
  /\ \A a \in Knobs : <<a>> \in Seq(Knobs) /\ Rng(<<a>>) = {a}
  /\ \A a, b \in Knobs : /\ <<a, b>> \in Seq(Knobs) /\ Rng(<<a, b>>) = {a, b}
                         /\ Rest(<<a, b>>) = {b} /\ Len(<<a, b>>) = 2
  /\ \A a, b, c \in Knobs : <<a, b, c>> \in Seq(Knobs) /\ Rng(<<a, b, c>>) = {a, b, c}
BY DEF Rng, Rest

(* Every knob is one; none but the first and the last has their names.       *)
LEMMA KnobFacts ==
  /\ \A n \in Names, i \in Nat : Knob(n, i) \in Knobs /\ Knob(n, i)[1] = n /\ Knob(n, i)[2] = i
  /\ \A c \in Consumers : ActionId(c) \in {1, 2}
  /\ Cardinality(Wanted) \in Nat
<1>1. IsFiniteSet({"off", "on"})
  <2>1. IsFiniteSet({"off"})
    BY FS_Singleton
  <2>2. IsFiniteSet({"off"} \cup {"on"})
    BY <2>1, FS_AddElement
  <2>3. {"off", "on"} = {"off"} \cup {"on"}
    OBVIOUS
  <2> QED BY <2>2, <2>3
<1>2. Cardinality(Wanted) \in Nat
  BY <1>1, KperfAssumption, FS_Subset, FS_CardinalityType
<1> QED BY <1>2 DEF Knob, Knobs, Names, ActionId

(* configure: the knobs of an action.                                        *)
LEMMA ConfigureIs ==
  ASSUME NEW c \in Consumers
  PROVE  configure(c) \in Seq(Knobs) /\ Rng(configure(c)) = ActionKnobs(c)
<1> DEFINE id == ActionId(c)
           a == Knob("samplers", id)
           b == Knob("ucallstack_depth", id)
           k == Knob("kcallstack_depth", id)
           f == Knob("filter_by_pid", id)
           mid == IF c = "on" THEN <<k>> ELSE <<>>
           kset == IF c = "on" THEN {k} ELSE {}
           two == <<a, b>>
           one == <<f>>
           most == two \o mid
<1>1. a \in Knobs /\ b \in Knobs /\ k \in Knobs /\ f \in Knobs
  BY KnobFacts DEF Names
<1>2. configure(c) = most \o one
  BY DEF configure
<1>3. ActionKnobs(c) = {a, b, f} \cup kset
  BY DEF ActionKnobs
<1> HIDE DEF a, b, k, f
<1>4. mid \in Seq(Knobs) /\ Rng(mid) = kset
  BY <1>1, Listed
<1> HIDE DEF mid, kset
<1>5. two \in Seq(Knobs) /\ Rng(two) = {a, b} /\ one \in Seq(Knobs) /\ Rng(one) = {f}
  BY <1>1, Listed
<1> HIDE DEF two, one
<1>6. most \in Seq(Knobs) /\ Rng(most) = {a, b} \cup kset
  BY <1>4, <1>5, Concat
<1> HIDE DEF most
<1>7. configure(c) \in Seq(Knobs) /\ Rng(configure(c)) = ({a, b} \cup kset) \cup {f}
  BY <1>2, <1>5, <1>6, Concat
<1> QED BY <1>3, <1>7

(* The steps of one sampler, if it is wanted.                                *)
LEMMA IfIs ==
  ASSUME NEW c, NEW s \in Seq(Knobs)
  PROVE  If(c, s) \in Seq(Knobs) /\ Rng(If(c, s)) = IF c \in Wanted THEN Rng(s) ELSE {}
BY Listed DEF If

(* arm resets, sets every knob and then starts sampling.                     *)
LEMMA ArmStepsAre ==
  /\ ArmSteps \in Seq(Knobs) /\ Len(ArmSteps) >= 2
  /\ ArmSteps[1] = Knob("reset", 0)
  /\ ArmSteps[Len(ArmSteps)] = Sampling
  /\ Rest(ArmSteps) = AllKnobs \cup {Sampling}
  /\ \A i \in 2..Len(ArmSteps) - 1 : ArmSteps[i] \in AllKnobs
<1> DEFINE r == Knob("reset", 0)
           n == Knob("action_count", Cardinality(Wanted))
           wt == Knob("wait_threshold", 0)
           wa == Knob("wait_action", ActionId("off"))
           tc == Knob("timer_count", 0)
           tp == Knob("timer_period", 0)
           ta == Knob("timer_action", ActionId("on"))
           c1 == If("off", configure("off"))
           c2 == If("on", configure("on"))
           c3 == If("off", <<wt, wa>>)
           c4 == If("on", <<tc, tp, ta>>)
           s0 == <<r, n>>
           s1 == s0 \o c1
           s2 == s1 \o c2
           s3 == s2 \o c3
           s4 == s3 \o c4
           last == <<Sampling>>
           K(c, S) == IF c \in Wanted THEN S ELSE {}
           k1 == K("off", ActionKnobs("off"))
           k2 == K("on", ActionKnobs("on"))
           k3 == K("off", TriggerKnobs("off"))
           k4 == K("on", TriggerKnobs("on"))
<1>1. /\ r \in Knobs /\ n \in Knobs /\ wt \in Knobs /\ wa \in Knobs /\ tc \in Knobs
      /\ tp \in Knobs /\ ta \in Knobs /\ Sampling \in Knobs
  BY KnobFacts DEF Names, Consumers, Sampling
<1>2. ArmSteps = s4 \o last
  BY DEF ArmSteps, Sampling
<1>3. TriggerKnobs("off") = {wt, wa} /\ TriggerKnobs("on") = {tc, tp, ta}
  BY DEF TriggerKnobs
<1>4. AllKnobs = {n} \cup k1 \cup k2 \cup k3 \cup k4
  BY KperfAssumption DEF AllKnobs
<1> HIDE DEF r, n, wt, wa, tc, tp, ta, k1, k2, k3, k4
<1>5. c1 \in Seq(Knobs) /\ Rng(c1) = k1 /\ c2 \in Seq(Knobs) /\ Rng(c2) = k2
  BY ConfigureIs, IfIs DEF Consumers, k1, k2
<1>6. c3 \in Seq(Knobs) /\ Rng(c3) = k3
  <2>1. <<wt, wa>> \in Seq(Knobs) /\ Rng(<<wt, wa>>) = TriggerKnobs("off")
    BY <1>1, <1>3, Listed
  <2> QED BY <2>1, IfIs DEF k3
<1>7. c4 \in Seq(Knobs) /\ Rng(c4) = k4
  <2>1. <<tc, tp, ta>> \in Seq(Knobs) /\ Rng(<<tc, tp, ta>>) = {tc, tp, ta}
    BY <1>1 DEF Rng
  <2> QED BY <1>3, <2>1, IfIs DEF k4
<1> HIDE DEF c1, c2, c3, c4
<1>8. s0 \in Seq(Knobs) /\ Len(s0) >= 1 /\ s0[1] = r /\ Rest(s0) = {n}
  BY <1>1, Listed
<1> HIDE DEF s0
<1>9. s1 \in Seq(Knobs) /\ Len(s1) >= 1 /\ s1[1] = r /\ Rest(s1) = {n} \cup k1
  BY <1>5, <1>8, Concat
<1> HIDE DEF s1
<1>10. s2 \in Seq(Knobs) /\ Len(s2) >= 1 /\ s2[1] = r /\ Rest(s2) = {n} \cup k1 \cup k2
  BY <1>5, <1>9, Concat
<1> HIDE DEF s2
<1>11. s3 \in Seq(Knobs) /\ Len(s3) >= 1 /\ s3[1] = r /\ Rest(s3) = {n} \cup k1 \cup k2 \cup k3
  BY <1>6, <1>10, Concat
<1> HIDE DEF s3
<1>12. s4 \in Seq(Knobs) /\ Len(s4) >= 1 /\ s4[1] = r /\ Rest(s4) = AllKnobs
  BY <1>4, <1>7, <1>11, Concat
<1> HIDE DEF s4
<1>13. last \in Seq(Knobs) /\ Rng(last) = {Sampling} /\ Len(last) = 1 /\ last[1] = Sampling
  BY <1>1, Listed
<1> HIDE DEF last
<1>14. ArmSteps \in Seq(Knobs) /\ ArmSteps[1] = r /\ Rest(ArmSteps) = AllKnobs \cup {Sampling}
  BY <1>2, <1>12, <1>13, Concat
<1>15. Len(ArmSteps) = Len(s4) + 1 /\ ArmSteps[Len(s4) + 1] = Sampling
       /\ \A i \in 1..Len(s4) : ArmSteps[i] = s4[i]
  <2>1. s4 \in Seq(Knobs) /\ last \in Seq(Knobs) /\ Len(last) = 1 /\ last[1] = Sampling
    BY <1>12, <1>13
  <2>2. Len(s4 \o last) = Len(s4) + 1 /\ (s4 \o last)[Len(s4) + 1] = Sampling
    BY <2>1, Elements
  <2>3. \A i \in 1..Len(s4) : (s4 \o last)[i] = s4[i]
    BY <2>1, Elements
  <2> QED BY <1>2, <2>2, <2>3
<1>16. Len(s4) \in Nat
  BY <1>12
<1> DEFINE l == Len(s4)
           m == Len(ArmSteps)
<1>17. m = l + 1 /\ l \in Nat /\ l >= 1
  BY <1>12, <1>15, <1>16
<1>18. \A i \in 2..m - 1 : ArmSteps[i] \in AllKnobs
  <2> TAKE i \in 2..m - 1
  <2> HIDE DEF l, m
  <2>1. i \in 2..l /\ i \in 1..l
    BY <1>17
  <2>2. ArmSteps[i] = s4[i] /\ s4[i] \in Rest(s4)
    BY <1>15, <2>1 DEF l, Rest
  <2> QED BY <1>12, <2>2
<1> HIDE DEF l, m
<1>19. m >= 2
  BY <1>17
<1> QED BY <1>14, <1>15, <1>18, <1>19 DEF l, m, r

(* No knob of an action or a trigger is the first or the last step.          *)
LEMMA KnobsBetween ==
  AllKnobs \subseteq Knobs /\ \A k \in AllKnobs : k[1] \notin {"reset", "sampling"}
<1>1. ASSUME NEW c \in Consumers, NEW k \in ActionKnobs(c) \cup TriggerKnobs(c)
      PROVE  k \in Knobs /\ k[1] \notin {"reset", "sampling"}
  BY KnobFacts DEF ActionKnobs, TriggerKnobs, Names, Consumers
<1>2. LET k == Knob("action_count", Cardinality(Wanted))
      IN k \in Knobs /\ k[1] \notin {"reset", "sampling"}
  BY KnobFacts DEF Names
<1> QED BY <1>1, <1>2, KperfAssumption DEF AllKnobs, Consumers

------------------------------------------------------------------------------
(* The invariants.                                                          *)

(* Nothing is set at the start.                                              *)
LEMMA KnobStart == KperfInit => KnobInv
<1> SUFFICES ASSUME KperfInit PROVE KnobInv
  OBVIOUS
<1>1. ctl = [state |-> "arming", set |-> {}, sampling |-> FALSE] /\ step = ArmSteps
  BY DEF KperfInit
<1> DEFINE l == Len(ArmSteps)
<1>2. ArmSteps \in Seq(Knobs) /\ l \in Nat /\ l >= 2
  BY ArmStepsAre
<1>3. step = SubSeq(ArmSteps, 0 + 1, l)
  BY <1>1, <1>2
<1>4. {ArmSteps[i] : i \in 2..0} \ {Sampling} = {}
  OBVIOUS
<1> HIDE DEF l
<1>5. 0 \in 0..l /\ 0 # l
  BY <1>2
<1>6. ArmedSoFar
  BY <1>1, <1>3, <1>4, <1>5 DEF ArmedSoFar, l
<1> QED BY <1>1, <1>6 DEF KnobInv

(* Taking the head of what is left of a list of steps.                        *)
LEMMA SuffixStep ==
  ASSUME NEW S, NEW A \in Seq(S), NEW n \in 0..Len(A), SubSeq(A, n + 1, Len(A)) # <<>>
  PROVE  LET s == SubSeq(A, n + 1, Len(A))
         IN  n < Len(A) /\ Head(s) = A[n + 1] /\ Tail(s) = SubSeq(A, (n + 1) + 1, Len(A))
<1> DEFINE s == SubSeq(A, n + 1, Len(A))
<1>1. Len(A) \in Nat /\ n \in Nat /\ n <= Len(A)
  OBVIOUS
<1>2. n < Len(A)
  <2> SUFFICES ASSUME n = Len(A) PROVE FALSE
    BY <1>1
  <2> QED BY <1>1
<1>3. s \in Seq(S) /\ Len(s) = Len(A) - n /\ \A i \in 1..Len(A) - n : s[i] = A[n + i]
  BY <1>1, <1>2
<1>4. Head(s) = A[n + 1]
  BY <1>1, <1>2, <1>3
<1> DEFINE t == SubSeq(A, (n + 1) + 1, Len(A))
<1>5. t \in Seq(S) /\ Len(t) = Len(A) - (n + 1) /\ \A i \in 1..Len(A) - (n + 1) : t[i] = A[(n + 1) + i]
  BY <1>1, <1>2
<1>6. Tail(s) \in Seq(S) /\ Len(Tail(s)) = Len(A) - (n + 1) /\ \A i \in 1..Len(A) - (n + 1) : Tail(s)[i] = s[i + 1]
  <2> HIDE DEF s
  <2>1. s # <<>>
    BY <1>1, <1>2, <1>3
  <2> QED BY <1>1, <1>2, <1>3, <2>1
<1>7. \A i \in 1..Len(A) - (n + 1) : Tail(s)[i] = t[i]
  <2> SUFFICES ASSUME NEW i \in 1..Len(A) - (n + 1) PROVE Tail(s)[i] = t[i]
    OBVIOUS
  <2> HIDE DEF s, t
  <2>1. i + 1 \in 1..Len(A) - n /\ n + (i + 1) = (n + 1) + i
    BY <1>1
  <2> QED BY <1>3, <1>5, <1>6, <2>1
<1>8. Tail(s) = t
  <2> HIDE DEF s, t
  <2> QED BY <1>5, <1>6, <1>7, SeqEqual
<1> QED BY <1>2, <1>4, <1>8

(* One sysctl, or its failure.                                               *)
LEMMA ArmStep == ASSUME KnobInv, arm PROVE KnobInv'
<1> DEFINE A == ArmSteps
           l == Len(A)
           Up(n) == {A[i] : i \in 2..n} \ {Sampling}
<1>1. A \in Seq(Knobs) /\ l \in Nat /\ l >= 2 /\ A[1] = Knob("reset", 0) /\ A[l] = Sampling
      /\ (\A i \in 2..l - 1 : A[i] \in AllKnobs) /\ {A[i] : i \in 2..l} = AllKnobs \cup {Sampling}
  BY ArmStepsAre DEF Rest
<1>2. ctl \in [state : {"arming", "armed", "failed", "off"}, set : SUBSET Knobs, sampling : BOOLEAN]
      /\ ctl.state = "arming"
  BY DEF KnobInv, arm
<1>3. PICK n \in 0..l : step = SubSeq(A, n + 1, l) /\ ctl.set = Up(n) /\ (ctl.sampling <=> n = l)
  BY <1>2 DEF KnobInv, ArmedSoFar
<1>4. Sampling \notin AllKnobs /\ AllKnobs \subseteq Knobs /\ Sampling[1] = "sampling"
      /\ \A k \in AllKnobs : k[1] # "reset" /\ k[1] # "sampling"
  BY KnobsBetween, KnobFacts DEF Sampling, Names
<1>5. CASE step # <<>> /\ step' = Tail(step) /\ ctl' = Set(Head(step))
  <2>1. n < l /\ Head(step) = A[n + 1] /\ Tail(step) = SubSeq(A, (n + 1) + 1, l)
    BY <1>1, <1>3, <1>5, SuffixStep DEF l
  <2> DEFINE m == n + 1
             k == A[m]
  <2> HIDE DEF A
  <2>2. m \in 1..l /\ m \in 0..l
    BY <1>1, <1>3, <2>1 DEF l
  <2>3. step' = SubSeq(A, m + 1, l)
    BY <1>5, <2>1
  <2>4. ctl'.state = "arming" /\ ctl' \in [state : {"arming", "armed", "failed", "off"},
                                          set : SUBSET Knobs, sampling : BOOLEAN]
        /\ ctl'.set = Up(m) /\ (ctl'.sampling <=> m = l) /\ (m = l => ctl'.set = AllKnobs)
    <3>1. ~ctl.sampling
      BY <1>3, <2>1
    <3> HIDE DEF l
    <3>2. CASE m = 1
      <4>1. k = Knob("reset", 0) /\ m # l /\ Up(m) = {}
        BY <1>1, <2>2, <3>2
      <4>2. k[1] = "reset"
        BY <4>1, KnobFacts DEF Names
      <4>3. ctl' = [ctl EXCEPT !.set = {}]
        BY <1>5, <2>1, <4>2 DEF Set
      <4> QED BY <1>2, <3>1, <4>1, <4>3
    <3>3. CASE m = l
      <4>1. k = Sampling /\ k[1] = "sampling"
        BY <1>1, <1>4, <3>3
      <4>2. ctl' = [ctl EXCEPT !.sampling = TRUE]
        BY <1>5, <2>1, <4>1 DEF Set
      <4>3. Up(m) = AllKnobs
        BY <1>1, <1>4, <3>3
      <4>4. Up(n) = Up(m)
        <5>1. \A i \in 2..m : i \in 2..n \/ i = m
          BY <1>3, <2>2
        <5>2. \A i \in 2..n : i \in 2..m
          BY <1>3, <2>2
        <5> QED BY <4>1, <5>1, <5>2
      <4> QED BY <1>2, <1>3, <3>3, <4>2, <4>3, <4>4
    <3>4. CASE m # 1 /\ m # l
      <4>1. m \in 2..l - 1
        BY <1>1, <2>2, <3>4
      <4>2. k \in AllKnobs /\ k # Sampling /\ k[1] # "reset" /\ k[1] # "sampling" /\ k \in Knobs
        BY <1>1, <1>4, <4>1
      <4>3. ctl' = [ctl EXCEPT !.set = @ \cup {k}]
        BY <1>5, <2>1, <4>2 DEF Set
      <4>4. Up(m) = Up(n) \cup {k}
        <5>1. \A i \in 2..m : i \in 2..n \/ i = m
          BY <1>3, <2>2
        <5>2. \A i \in 2..n : i \in 2..m
          BY <1>3, <2>2
        <5>3. m \in 2..m
          BY <4>1, <1>1
        <5> QED BY <4>2, <5>1, <5>2, <5>3
      <4> HIDE DEF k, Up
      <4> QED BY <1>2, <1>3, <3>1, <3>4, <4>2, <4>3, <4>4
    <3> QED BY <3>2, <3>3, <3>4
  <2> HIDE DEF m, k
  <2> QED BY <2>2, <2>3, <2>4 DEF KnobInv, ArmedSoFar, A, l
<1>6. CASE step # <<>> /\ ctl' = [ctl EXCEPT !.state = "failed"]
  BY <1>2, <1>6 DEF KnobInv, ArmedSoFar
<1>7. CASE step = <<>> /\ ctl' = [ctl EXCEPT !.state = "armed"]
  BY <1>2, <1>7 DEF KnobInv, ArmedSoFar
<1> QED BY <1>5, <1>6, <1>7 DEF arm

(* Whatever was set before a step of arm failed, kperf samples only with the *)
(* whole list set.                                                           *)
THEOREM KnobsHeld == KperfSpec => []KnobInv
<1>1. KnobInv /\ [KperfNext]_kperfVars => KnobInv'
  <2> SUFFICES ASSUME KnobInv, [KperfNext]_kperfVars PROVE KnobInv'
    OBVIOUS
  <2>1. CASE disarm
    BY <2>1 DEF disarm, KnobInv, ArmedSoFar
  <2>2. CASE UNCHANGED <<step, ctl>>
    BY <2>2 DEF KnobInv, ArmedSoFar
  <2>3. CASE UNCHANGED kperfVars
    BY <2>2, <2>3 DEF kperfVars
  <2>4. CASE \E s \in Slots : Dlopen(s)
    BY <2>2, <2>4 DEF Dlopen
  <2>5. CASE \E t \in Threads : drain_event(t) \/ Lose(t)
    BY <2>2, <2>5 DEF drain_event, Lose
  <2>6. CASE \E c \in Wanted, t \in Threads, s \in Slots, un \in UserLens, kn \in KernLens :
               kperf_sample(c, t, s, un, kn)
    BY <2>2, <2>6 DEF kperf_sample
  <2> QED BY <2>1, <2>3, <2>4, <2>5, <2>6, ArmStep DEF KperfNext
<1> QED BY <1>1, KnobStart, PTL DEF KperfSpec

(* The knobs that trigger an action.                                         *)
LEMMA TriggersAre ==
  LET T == {k \in AllKnobs : k[1] \in {"wait_action", "timer_action"}}
  IN /\ T = {Knob(IF c = "on" THEN "timer_action" ELSE "wait_action", ActionId(c)) : c \in Wanted}
     /\ Cardinality(T) = Cardinality(Wanted)
<1> DEFINE T == {k \in AllKnobs : k[1] \in {"wait_action", "timer_action"}}
           offKnob == Knob("wait_action", ActionId("off"))
           onKnob == Knob("timer_action", ActionId("on"))
<1>1. T = {Knob(IF c = "on" THEN "timer_action" ELSE "wait_action", ActionId(c)) : c \in Wanted}
  <2>1. \A c \in Wanted : c \in {"off", "on"} /\ ActionId(c) \in Nat
    BY KperfAssumption, KnobFacts DEF Consumers
  <2>2. ASSUME NEW c \in Wanted, NEW k \in ActionKnobs(c)
        PROVE  k[1] \notin {"wait_action", "timer_action"}
    BY <2>1, KnobFacts DEF ActionKnobs, Names
  <2>3. ASSUME NEW c \in Wanted, NEW k \in TriggerKnobs(c), k[1] \in {"wait_action", "timer_action"}
        PROVE  k = Knob(IF c = "on" THEN "timer_action" ELSE "wait_action", ActionId(c))
    BY <2>1, <2>3, KnobFacts DEF TriggerKnobs, Names
  <2>4. ASSUME NEW c \in Wanted
        PROVE  LET k == Knob(IF c = "on" THEN "timer_action" ELSE "wait_action", ActionId(c))
               IN k \in TriggerKnobs(c) /\ k[1] \in {"wait_action", "timer_action"}
    BY <2>1, KnobFacts DEF TriggerKnobs, Names
  <2>5. Knob("action_count", Cardinality(Wanted))[1] = "action_count"
    BY KnobFacts DEF Names
  <2> QED BY <2>2, <2>3, <2>4, <2>5 DEF AllKnobs
<1>2. offKnob # onKnob
  BY DEF Knob
<1>3. Wanted \in {{"off"}, {"on"}, {"off", "on"}}
  BY KperfAssumption
<1> HIDE DEF T
<1>4. CASE Wanted = {"off"}
  <2>1. T = {offKnob}
    BY <1>1, <1>4
  <2> QED BY <1>1, <1>4, <2>1, FS_Singleton DEF T
<1>5. CASE Wanted = {"on"}
  <2>1. T = {onKnob}
    BY <1>1, <1>5
  <2> QED BY <1>1, <1>5, <2>1, FS_Singleton DEF T
<1>6. CASE Wanted = {"off", "on"}
  <2>1. T = {offKnob} \cup {onKnob} /\ Wanted = {"off"} \cup {"on"}
    BY <1>1, <1>6
  <2> HIDE DEF offKnob, onKnob
  <2>2. Cardinality({offKnob} \cup {onKnob}) = Cardinality({offKnob}) + 1
        /\ Cardinality({"off"} \cup {"on"}) = Cardinality({"off"}) + 1
    BY <1>2, FS_Singleton, FS_AddElement
  <2>3. Cardinality({offKnob}) = 1 /\ Cardinality({"off"}) = 1
    BY FS_Singleton
  <2> QED BY <1>1, <2>1, <2>2, <2>3 DEF T
<1> QED BY <1>3, <1>4, <1>5, <1>6

(* While kperf samples, every action that a trigger starts takes user stacks *)
(* of the target only, and each wanted sampler has its own trigger.          *)
THEOREM SamplingIsFiltered == KperfSpec => []SamplingFiltered
<1>1. KnobInv => SamplingFiltered
  <2> SUFFICES ASSUME KnobInv, ctl.sampling PROVE SamplingFiltered
    BY DEF SamplingFiltered
  <2>1. ctl.set = AllKnobs
    BY DEF KnobInv
  <2>2. ASSUME NEW k \in AllKnobs, k[1] \in {"wait_action", "timer_action"}
        PROVE  {Knob("samplers", k[2]), Knob("filter_by_pid", k[2])} \subseteq AllKnobs
    <3>1. PICK c \in Wanted : k = Knob(IF c = "on" THEN "timer_action" ELSE "wait_action", ActionId(c))
      BY <2>2, TriggersAre
    <3>2. k[2] = ActionId(c)
      BY <3>1 DEF Knob
    <3>3. {Knob("samplers", ActionId(c)), Knob("filter_by_pid", ActionId(c))} \subseteq ActionKnobs(c)
      BY DEF ActionKnobs
    <3> QED BY <3>2, <3>3 DEF AllKnobs
  <2> QED BY <2>1, <2>2, TriggersAre DEF SamplingFiltered
<1> QED BY <1>1, KnobsHeld, PTL

------------------------------------------------------------------------------
(* The module table.                                                        *)

(* One sample: a miss is counted only below the threshold.                   *)
LEMMA EmitBounded ==
  ASSUME DropInv, NEW smp, NEW e \in emit(em, smp)
  PROVE  /\ e \in [mods : SUBSET Slots, since : Nat, missed : Nat]
         /\ e.missed <= e.since /\ e.missed <= Threshold(e.mods)
<1> USE KperfAssumption
<1>1. CASE smp = NoSample
  BY <1>1 DEF emit, DropInv
<1>2. CASE smp # NoSample
  <2>1. PICK x \in IF Due(em, smp) THEN {images, {}} ELSE {em.mods} :
          e = [mods |-> x, since |-> IF Due(em, smp) THEN 0 ELSE em.since + 1,
               missed |-> IF ~Misses(x, smp) \/ Due(em, smp) THEN 0 ELSE em.missed + 1]
    BY <1>2 DEF emit
  <2>2. CASE Due(em, smp)
    <3>1. x \in SUBSET Slots
      BY <2>2 DEF DropInv
    <3> QED BY <2>1, <2>2, <3>1 DEF Threshold
  <2>3. CASE ~Due(em, smp)
    <3>1. x = em.mods /\ x \in SUBSET Slots /\ em.since \in Nat /\ em.missed \in Nat
          /\ em.missed <= em.since
      BY <2>3 DEF DropInv
    <3>2. CASE ~Misses(x, smp)
      BY <2>1, <2>3, <3>1, <3>2 DEF Threshold
    <3>3. CASE Misses(x, smp)
      <4>1. em.since + 1 <= Threshold(em.mods)
        BY <2>3, <3>1, <3>3 DEF Due, Threshold
      <4> QED BY <2>1, <2>3, <3>1, <3>3, <4>1 DEF Threshold
    <3> QED BY <3>2, <3>3
  <2> QED BY <2>2, <2>3
<1> QED BY <1>1, <1>2

(* Every step keeps the bound on misses.                                     *)
LEMMA DropStep == ASSUME DropInv, [KperfNext]_kperfVars PROVE DropInv'
<1> USE KperfAssumption
<1>1. CASE arm
  <2>1. UNCHANGED <<images, log>> /\ ctl.state = "arming" /\ em = NewEmitter
    BY <1>1 DEF arm, target, DropInv
  <2>2. CASE UNCHANGED em
    BY <2>1, <2>2 DEF DropInv
  <2>3. CASE /\ ctl' = [ctl EXCEPT !.state = "armed"]
             /\ \E m \in {images, {}} : em' = [em EXCEPT !.mods = m]
    <3> PICK m \in {images, {}} : em' = [NewEmitter EXCEPT !.mods = m]
      BY <2>1, <2>3
    <3>1. m \in SUBSET Slots /\ em' = [mods |-> m, since |-> 0, missed |-> 0]
      BY DEF DropInv, NewEmitter
    <3>2. ctl'.state # "arming"
      BY <2>1, <2>3
    <3> QED BY <2>1, <3>1, <3>2 DEF DropInv, Threshold
  <2> QED BY <1>1, <2>2, <2>3 DEF arm
<1>2. CASE disarm
  BY <1>2 DEF disarm, DropInv, NewEmitter, Threshold
<1>3. ASSUME NEW s \in Slots, Dlopen(s) PROVE DropInv'
  BY <1>3 DEF Dlopen, DropInv
<1>4. ASSUME NEW t \in Threads, drain_event(t) PROVE DropInv'
  <2>1. PICK smp : em' \in emit(em, smp)
    BY <1>4 DEF drain_event
  <2>2. log[t] # <<>> /\ UNCHANGED <<ctl, images>>
    BY <1>4 DEF drain_event
  <2> QED BY <2>1, <2>2, EmitBounded DEF DropInv
<1>5. ASSUME NEW t \in Threads, Lose(t) PROVE DropInv'
  BY <1>5 DEF Lose, DropInv
<1>6. ASSUME NEW c \in Wanted, NEW t \in Threads, NEW s \in Slots, NEW un \in UserLens,
             NEW kn \in KernLens, kperf_sample(c, t, s, un, kn)
      PROVE  DropInv'
  <2>1. ctl.state = "armed" /\ UNCHANGED <<ctl, images, em>>
    BY <1>6 DEF kperf_sample
  <2> QED BY <2>1 DEF DropInv
<1>7. CASE UNCHANGED kperfVars
  BY <1>7 DEF kperfVars, DropInv
<1> QED BY <1>1, <1>2, <1>3, <1>4, <1>5, <1>6, <1>7 DEF KperfNext

(* Frames of a loaded image are lost for at most ReloadEvery samples between *)
(* two enumerations, EmptyRetry while the last one found nothing.            *)
THEOREM DropsAreBounded == KperfSpec => []DropsBounded
<1>1. KperfInit => DropInv
  BY KperfAssumption DEF KperfInit, DropInv, NewEmitter, Threshold
<1>2. DropInv /\ [KperfNext]_kperfVars => DropInv'
  BY DropStep
<1>3. DropInv => DropsBounded
  BY DEF DropInv, DropsBounded, Threshold
<1> QED BY <1>1, <1>2, <1>3, PTL DEF KperfSpec

------------------------------------------------------------------------------
(* The scheduling timeline.                                                 *)

(* A nonempty set of natural numbers has a least member: the one way an      *)
(* induction is made here, by the smallest case that would fail.             *)
LEMMA Least ==
  ASSUME NEW T, T \subseteq Nat, T # {}
  PROVE  \E x \in T : \A y \in T : x <= y
<1>1. PICK x \in T : \A y \in T : ~(<<y, x>> \in OpToRel(<, Nat))
  BY NatLessThanWellFounded, WFMin, Zenon
<1>2. \A y \in T : ~(y < x)
  BY <1>1, Zenon DEF OpToRel
<1>3. \A y \in T : x <= y
  BY <1>2
<1> QED BY <1>3

(* The data.                                                                 *)
SwitchEvents ==
  [csc : {"MACH_SCHED", "PERF"}, code : {"SWITCH"}, cpu : Cpus, outgoing : Tids, incoming : Tids]
DispatchEvents ==
  [csc : {"MACH_SCHED"}, code : {"DISPATCH"}, cpu : Cpus, outgoing : Tids, bits : StateBits]
Events == SwitchEvents \cup DispatchEvents
States == {"STOPPED", "UNINTERRUPTIBLE_SLEEP", "INTERRUPTIBLE_SLEEP", "RUNNABLE"}
Pairs == [ts : Nat, cpu : Cpus, outgoing : Tids, incoming : Tids, state : States]
Buffered == [pending : [Cpus -> PendingSwitch \cup {None}], out : Seq(Pairs)]

SchedAt(tr, n) == tr[n].csc = "MACH_SCHED"
SwitchAt(tr, n) == SchedAt(tr, n) /\ tr[n].code = "SWITCH"
DispatchAt(tr, n) == SchedAt(tr, n) /\ tr[n].code = "DISPATCH"
Moves(tr, n) == SwitchAt(tr, n) /\ tr[n].outgoing # tr[n].incoming

(* No scheduler event of CPU c after i, up to n.                             *)
NoneAfter(tr, c, i, n) == \A m \in i + 1..n : SchedAt(tr, m) => tr[m].cpu # c
LastSwitch(tr, c, i, n) == SwitchAt(tr, i) /\ tr[i].cpu = c /\ NoneAfter(tr, c, i, n)
Ends(tr, i, j) == /\ i < j /\ SwitchAt(tr, i) /\ DispatchAt(tr, j) /\ tr[i].cpu = tr[j].cpu
                  /\ NoneAfter(tr, tr[i].cpu, i, j - 1)

(* After a switch the next scheduler event of its CPU is the dispatch of the *)
(* thread switched out.                                                      *)
Alternates(tr) ==
  \A i, j \in 1..Len(tr) :
    i < j /\ SchedAt(tr, j) /\ LastSwitch(tr, tr[j].cpu, i, j - 1)
      => DispatchAt(tr, j) /\ tr[j].outgoing = tr[i].outgoing

(* A CPU whose last scheduler event is a switch owes the dispatch of its     *)
(* outgoing thread.                                                          *)
HalfIs(tr, h) ==
  \A c \in Cpus, i \in 1..Len(tr) : LastSwitch(tr, c, i, Len(tr)) => h[c] = tr[i].outgoing

(* What is buffered of switch i, and what the pair of switch i and dispatch  *)
(* j shows.                                                                  *)
HeldOf(tr, i) == [ts |-> i, outgoing |-> tr[i].outgoing, incoming |-> tr[i].incoming]
PairOf(tr, i, j) ==
  [ts |-> i, cpu |-> tr[j].cpu, outgoing |-> tr[j].outgoing, incoming |-> tr[i].incoming,
   state |-> outgoing_task_state(tr[j].bits)]

(* The dispatches among lo + 1 .. n that complete a switch of these events,  *)
(* a self-switch left out.                                                   *)
Completed(tr, lo, n) == {j \in lo + 1..n : \E i \in lo + 1..j : Ends(tr, i, j) /\ Moves(tr, i)}
Upto(R, j) == Cardinality({m \in R : m <= j})

(* o holds their pairs, one each, in order.                                  *)
Exact(tr, o, lo, n) ==
  /\ Len(o) = Cardinality(Completed(tr, lo, n))
  /\ \A j \in Completed(tr, lo, n), i \in lo + 1..n :
       Ends(tr, i, j) => o[Upto(Completed(tr, lo, n), j)] = PairOf(tr, i, j)

(* st is what the consumer holds once it took the events lo + 1 .. n of tr.  *)
Paired(tr, st, lo, n) ==
  /\ st \in Buffered
  /\ \A c \in Cpus : st.pending[c] # None =>
       \E i \in lo + 1..n : LastSwitch(tr, c, i, n) /\ Moves(tr, i) /\ st.pending[c] = HeldOf(tr, i)
  /\ \A c \in Cpus, i \in lo + 1..n :
       LastSwitch(tr, c, i, n) /\ Moves(tr, i) => st.pending[c] = HeldOf(tr, i)
  /\ Exact(tr, st.out, lo, n)

(* The states a thread is shown in when it is switched out.                  *)
LEMMA StatesOf == \A b : outgoing_task_state(b) \in States
  BY DEF outgoing_task_state, States

(* What an event of the ring is; a scheduler event is a switch or a          *)
(* dispatch.                                                                 *)
LEMMA EventIs ==
  ASSUME NEW tr \in Seq(Events), NEW n \in 1..Len(tr)
  PROVE  /\ tr[n] \in Events /\ tr[n].cpu \in Cpus /\ tr[n].outgoing \in Tids
         /\ tr[n].code = "SWITCH" => tr[n].incoming \in Tids
         /\ SchedAt(tr, n) => (SwitchAt(tr, n) \/ DispatchAt(tr, n))
         /\ ~(SwitchAt(tr, n) /\ DispatchAt(tr, n))
<1>1. tr[n] \in Events
  OBVIOUS
<1> QED BY <1>1 DEF Events, SwitchEvents, DispatchEvents, SchedAt, SwitchAt, DispatchAt

(* A buffered switch is never mistaken for an empty slot.                    *)
LEMMA HeldTyped ==
  ASSUME NEW tr \in Seq(Events), NEW n \in 1..Len(tr), SwitchAt(tr, n)
  PROVE  HeldOf(tr, n) \in PendingSwitch /\ HeldOf(tr, n) # None
<1>1. tr[n].outgoing \in Tids /\ tr[n].incoming \in Tids
  BY EventIs DEF SwitchAt
<1>2. HeldOf(tr, n) \in PendingSwitch
  BY <1>1 DEF HeldOf, PendingSwitch
<1> QED BY <1>2, TimelineAssumption

(* The dispatches that complete a switch are finitely many.                  *)
LEMMA CompletedIs ==
  ASSUME NEW tr, NEW lo \in Nat, NEW n \in Nat
  PROVE  /\ IsFiniteSet(Completed(tr, lo, n)) /\ Cardinality(Completed(tr, lo, n)) \in Nat
         /\ \A j \in Completed(tr, lo, n) : j \in lo + 1..n
<1>1. Completed(tr, lo, n) \in SUBSET (lo + 1..n)
  BY DEF Completed
<1>2. IsFiniteSet(lo + 1..n)
  <2>1. lo + 1 \in Int /\ n \in Int
    OBVIOUS
  <2> QED BY <2>1, FS_Interval
<1> QED BY <1>1, <1>2, FS_Subset, FS_CardinalityType

(* The switch a dispatch ends is the only one.                               *)
LEMMA EndsOne ==
  ASSUME NEW tr, NEW i \in Nat, NEW k \in Nat, NEW j \in Nat, Ends(tr, i, j), Ends(tr, k, j)
  PROVE  i = k
<1>1. \A a, b \in Nat : Ends(tr, a, j) /\ Ends(tr, b, j) => ~(a < b)
  <2> SUFFICES ASSUME NEW a \in Nat, NEW b \in Nat, Ends(tr, a, j), Ends(tr, b, j), a < b PROVE FALSE
    OBVIOUS
  <2>1. b \in a + 1..j - 1
    BY DEF Ends
  <2> QED BY <2>1 DEF Ends, NoneAfter, SwitchAt
<1> QED BY <1>1

(* What is said of the first n events is said of them alone.                 *)
LEMMA SameEnds ==
  ASSUME NEW tr, NEW tr2, NEW n \in Nat, \A m \in 1..n : tr2[m] = tr[m]
  PROVE  /\ \A m \in 1..n : /\ SchedAt(tr, m) <=> SchedAt(tr2, m)
                            /\ SwitchAt(tr, m) <=> SwitchAt(tr2, m)
                            /\ DispatchAt(tr, m) <=> DispatchAt(tr2, m)
                            /\ Moves(tr, m) <=> Moves(tr2, m)
         /\ \A c : \A i \in 1..n, k \in 0..n : NoneAfter(tr, c, i, k) <=> NoneAfter(tr2, c, i, k)
         /\ \A c : \A i \in 1..n : LastSwitch(tr, c, i, n) <=> LastSwitch(tr2, c, i, n)
         /\ \A i, j \in 1..n : Ends(tr, i, j) <=> Ends(tr2, i, j)
<1>1. \A m \in 1..n : /\ SchedAt(tr, m) <=> SchedAt(tr2, m)
                      /\ SwitchAt(tr, m) <=> SwitchAt(tr2, m)
                      /\ DispatchAt(tr, m) <=> DispatchAt(tr2, m)
                      /\ Moves(tr, m) <=> Moves(tr2, m)
  BY DEF SchedAt, SwitchAt, DispatchAt, Moves
<1>2. ASSUME NEW c, NEW i \in 1..n, NEW k \in 0..n PROVE NoneAfter(tr, c, i, k) <=> NoneAfter(tr2, c, i, k)
  <2>1. \A m \in i + 1..k : m \in 1..n
    OBVIOUS
  <2>2. \A m \in i + 1..k : tr2[m] = tr[m] /\ (SchedAt(tr, m) <=> SchedAt(tr2, m))
    BY <1>1, <2>1
  <2> QED BY <2>2, Zenon DEF NoneAfter
<1>3. ASSUME NEW c, NEW i \in 1..n PROVE LastSwitch(tr, c, i, n) <=> LastSwitch(tr2, c, i, n)
  BY <1>1, <1>2 DEF LastSwitch
<1>4. ASSUME NEW i \in 1..n, NEW j \in 1..n PROVE Ends(tr, i, j) <=> Ends(tr2, i, j)
  <2>1. j - 1 \in 0..n /\ tr2[i] = tr[i] /\ tr2[j] = tr[j]
    OBVIOUS
  <2>2. NoneAfter(tr, tr[i].cpu, i, j - 1) <=> NoneAfter(tr2, tr2[i].cpu, i, j - 1)
    BY <1>2, <2>1
  <2> QED BY <1>1, <2>1, <2>2 DEF Ends
<1> QED BY <1>1, <1>2, <1>3, <1>4

(* Later events do not change what the earlier ones came to.                 *)
LEMMA PairedSame ==
  ASSUME NEW tr, NEW tr2, NEW lo \in Nat, NEW n \in Nat, \A m \in 1..n : tr2[m] = tr[m],
         NEW st, Paired(tr, st, lo, n)
  PROVE  Paired(tr2, st, lo, n)
<1>1. \A i \in lo + 1..n : i \in 1..n /\ tr2[i] = tr[i] /\ HeldOf(tr2, i) = HeldOf(tr, i)
  BY DEF HeldOf
<1>2. \A i, j \in lo + 1..n : PairOf(tr2, i, j) = PairOf(tr, i, j)
  BY <1>1 DEF PairOf
<1>3. \A i, j \in lo + 1..n : Ends(tr, i, j) <=> Ends(tr2, i, j)
  <2>1. \A i, j \in 1..n : Ends(tr, i, j) <=> Ends(tr2, i, j)
    BY SameEnds
  <2> QED BY <1>1, <2>1
<1>4. /\ \A c : \A i \in lo + 1..n : LastSwitch(tr, c, i, n) <=> LastSwitch(tr2, c, i, n)
      /\ \A i \in lo + 1..n : Moves(tr, i) <=> Moves(tr2, i)
  <2>1. /\ \A c : \A i \in 1..n : LastSwitch(tr, c, i, n) <=> LastSwitch(tr2, c, i, n)
        /\ \A i \in 1..n : Moves(tr, i) <=> Moves(tr2, i)
    BY SameEnds
  <2> QED BY <1>1, <2>1
<1>5. Completed(tr, lo, n) = Completed(tr2, lo, n)
  <2>1. ASSUME NEW j \in lo + 1..n, NEW i \in lo + 1..j
        PROVE  Ends(tr, i, j) /\ Moves(tr, i) <=> Ends(tr2, i, j) /\ Moves(tr2, i)
    <3>1. i \in lo + 1..n
      OBVIOUS
    <3> QED BY <1>3, <1>4, <3>1
  <2> QED BY <2>1, Zenon DEF Completed
<1>6. Exact(tr2, st.out, lo, n)
  <2>1. \A j \in Completed(tr, lo, n) : j \in lo + 1..n
    BY CompletedIs
  <2>2. Exact(tr, st.out, lo, n)
    BY DEF Paired
  <2>3. ASSUME NEW j \in Completed(tr2, lo, n), NEW i \in lo + 1..n, Ends(tr2, i, j)
        PROVE  st.out[Upto(Completed(tr2, lo, n), j)] = PairOf(tr2, i, j)
    <3>1. j \in lo + 1..n /\ j \in Completed(tr, lo, n) /\ Ends(tr, i, j)
      BY <1>3, <1>5, <2>1, <2>3
    <3>2. st.out[Upto(Completed(tr, lo, n), j)] = PairOf(tr, i, j)
      BY <2>2, <3>1 DEF Exact
    <3> QED BY <1>2, <1>5, <3>1, <3>2
  <2> QED BY <1>5, <2>2, <2>3 DEF Exact
<1> QED BY <1>1, <1>4, <1>6 DEF Paired

(* The last of a set of numbers ranks last, and the others keep their rank.  *)
LEMMA RankKept ==
  ASSUME NEW R, R \subseteq Nat, IsFiniteSet(R), NEW x \in Nat, \A m \in R : m < x
  PROVE  /\ Cardinality(R) \in Nat
         /\ Cardinality(R \cup {x}) = Cardinality(R) + 1
         /\ \A j \in R : Upto(R, j) \in 1..Cardinality(R) /\ Upto(R \cup {x}, j) = Upto(R, j)
         /\ Upto(R \cup {x}, x) = Cardinality(R) + 1
<1>1. x \notin R
  OBVIOUS
<1>2. Cardinality(R) \in Nat /\ Cardinality(R \cup {x}) = Cardinality(R) + 1
  BY <1>1, FS_AddElement, FS_CardinalityType
<1>3. ASSUME NEW j \in R
      PROVE  Upto(R, j) \in 1..Cardinality(R) /\ Upto(R \cup {x}, j) = Upto(R, j)
  <2> DEFINE C == {m \in R : m <= j}
  <2>1. C \in SUBSET R /\ {m \in R \cup {x} : m <= j} = C /\ j \in C
    OBVIOUS
  <2> HIDE DEF C
  <2>2. IsFiniteSet(C) /\ Cardinality(C) <= Cardinality(R) /\ Cardinality(C) \in Nat
    BY <2>1, FS_Subset, FS_CardinalityType
  <2>3. Cardinality(C) # 0
    BY <2>1, <2>2, FS_EmptySet
  <2> QED BY <1>2, <2>1, <2>2, <2>3 DEF Upto, C
<1>4. {m \in R \cup {x} : m <= x} = R \cup {x}
  <2>1. \A m \in R \cup {x} : m <= x
    OBVIOUS
  <2> QED BY <2>1
<1> QED BY <1>2, <1>3, <1>4 DEF Upto

(* One event taken.                                                          *)
LEMMA EventApplied ==
  ASSUME NEW tr \in Seq(Events), Alternates(tr), NEW lo \in Nat, NEW n \in Nat, lo <= n, n + 1 <= Len(tr),
         NEW st, Paired(tr, st, lo, n)
  PROVE  Paired(tr, OnEvent(st, tr[n + 1], n + 1), lo, n + 1)
<1> DEFINE x == n + 1
           e == tr[x]
           st2 == OnEvent(st, e, x)
<1> SUFFICES Paired(tr, st2, lo, x)
  OBVIOUS
<1>1. /\ x \in 1..Len(tr) /\ x \in lo + 1..x /\ x - 1 = n
      /\ \A i \in lo + 1..n : i \in 1..Len(tr) /\ i \in lo + 1..x /\ i < x /\ i \in Nat
      /\ \A i \in lo + 1..x : i = x \/ i \in lo + 1..n
  OBVIOUS
<1>2. /\ e \in Events /\ e.cpu \in Cpus /\ e.outgoing \in Tids
      /\ SchedAt(tr, x) => (SwitchAt(tr, x) \/ DispatchAt(tr, x))
      /\ ~(SwitchAt(tr, x) /\ DispatchAt(tr, x))
  BY <1>1, EventIs
<1>3. st \in Buffered /\ st = [pending |-> st.pending, out |-> st.out]
      /\ st.pending \in [Cpus -> PendingSwitch \cup {None}] /\ st.out \in Seq(Pairs)
  BY DEF Paired, Buffered
<1>4. \A c \in Cpus, i \in lo + 1..n :
        LastSwitch(tr, c, i, x) <=> LastSwitch(tr, c, i, n) /\ ~(SchedAt(tr, x) /\ e.cpu = c)
  <2> SUFFICES ASSUME NEW c \in Cpus, NEW i \in lo + 1..n
               PROVE  LastSwitch(tr, c, i, x) <=> LastSwitch(tr, c, i, n) /\ ~(SchedAt(tr, x) /\ e.cpu = c)
    OBVIOUS
  <2>1. NoneAfter(tr, c, i, x) <=> NoneAfter(tr, c, i, n) /\ ~(SchedAt(tr, x) /\ e.cpu = c)
    <3>1. i + 1..x = (i + 1..n) \cup {x}
      BY <1>1
    <3> QED BY <3>1 DEF NoneAfter
  <2> QED BY <2>1 DEF LastSwitch
<1>5. \A c \in Cpus : LastSwitch(tr, c, x, x) <=> SwitchAt(tr, x) /\ e.cpu = c
  BY <1>1 DEF LastSwitch, NoneAfter
<1>6. \A i \in lo + 1..n : Ends(tr, i, x) <=> LastSwitch(tr, e.cpu, i, n) /\ DispatchAt(tr, x)
  BY <1>1 DEF Ends, LastSwitch
<1>7. ~Ends(tr, x, x) /\ \A j \in lo + 1..n : ~Ends(tr, x, j)
  BY <1>1 DEF Ends
<1>8. \A i \in lo + 1..n : SchedAt(tr, x) /\ LastSwitch(tr, e.cpu, i, n)
        => DispatchAt(tr, x) /\ e.outgoing = tr[i].outgoing
  BY <1>1 DEF Alternates
<1>9. /\ Completed(tr, lo, n) \subseteq Nat /\ IsFiniteSet(Completed(tr, lo, n))
      /\ \A j \in Completed(tr, lo, n) : j \in lo + 1..n /\ j < x
  BY <1>1, CompletedIs
<1>10. Completed(tr, lo, x) = IF \E i \in lo + 1..n : Ends(tr, i, x) /\ Moves(tr, i)
                         THEN Completed(tr, lo, n) \cup {x} ELSE Completed(tr, lo, n)
  <2>1. lo + 1..x = (lo + 1..n) \cup {x}
    BY <1>1
  <2>2. (\E i \in lo + 1..x : Ends(tr, i, x) /\ Moves(tr, i))
          <=> \E i \in lo + 1..n : Ends(tr, i, x) /\ Moves(tr, i)
    BY <1>1, <1>7
  <2> HIDE DEF x
  <2> QED BY <2>1, <2>2, Zenon DEF Completed
<1>11. Exact(tr, st.out, lo, n)
  BY DEF Paired
(* What does not end a real switch leaves the pairs as they are.             *)
<1>12. ASSUME \A i \in lo + 1..n : ~(Ends(tr, i, x) /\ Moves(tr, i))
       PROVE  Exact(tr, st.out, lo, x)
  <2>1. Completed(tr, lo, x) = Completed(tr, lo, n)
    BY <1>10, <1>12
  <2> QED BY <1>1, <1>7, <1>9, <1>11, <2>1 DEF Exact
<1>13. CASE ~SchedAt(tr, x)
  <2>1. st2 = st
    BY <1>13 DEF OnEvent, Filtered, SchedAt
  <2>2. Exact(tr, st.out, lo, x)
    BY <1>6, <1>12, <1>13 DEF DispatchAt
  <2>3. \A c \in Cpus : ~LastSwitch(tr, c, x, x)
    BY <1>5, <1>13 DEF SwitchAt
  <2> QED BY <1>1, <1>4, <1>13, <2>1, <2>2, <2>3 DEF Paired
<1>14. CASE SwitchAt(tr, x)
  <2>1. SchedAt(tr, x) /\ ~DispatchAt(tr, x) /\ st2 = OnSwitch(st, e, x)
    BY <1>2, <1>14 DEF OnEvent, Filtered, SchedAt, SwitchAt
  <2>2. \A i \in lo + 1..n : ~LastSwitch(tr, e.cpu, i, n)
    BY <1>8, <2>1
  <2>3. st.pending[e.cpu] = None
    BY <1>2, <2>2 DEF Paired
  <2>4. Exact(tr, st.out, lo, x)
    BY <1>6, <1>12, <2>1
  <2>5. CASE e.outgoing = e.incoming
    <3>1. st2 = st /\ ~Moves(tr, x)
      BY <2>1, <2>5 DEF OnSwitch, Moves
    <3>2. ASSUME NEW c \in Cpus, st.pending[c] # None
          PROVE  \E i \in lo + 1..x : LastSwitch(tr, c, i, x) /\ Moves(tr, i) /\ st.pending[c] = HeldOf(tr, i)
      BY <1>1, <1>4, <2>3, <3>2 DEF Paired
    <3>3. ASSUME NEW c \in Cpus, NEW i \in lo + 1..x, LastSwitch(tr, c, i, x), Moves(tr, i)
          PROVE  st.pending[c] = HeldOf(tr, i)
      BY <1>1, <1>4, <3>1, <3>3 DEF Paired
    <3> QED BY <1>3, <2>4, <3>1, <3>2, <3>3 DEF Paired
  <2>6. CASE e.outgoing # e.incoming
    <3> DEFINE p2 == [st.pending EXCEPT ![e.cpu] = HeldOf(tr, x)]
    <3>1. st2 = [pending |-> p2, out |-> st.out] /\ Moves(tr, x)
      BY <1>3, <1>14, <2>1, <2>6 DEF OnSwitch, Moves, HeldOf
    <3>2. /\ p2 \in [Cpus -> PendingSwitch \cup {None}] /\ p2[e.cpu] = HeldOf(tr, x)
          /\ \A c \in Cpus : c # e.cpu => p2[c] = st.pending[c]
      BY <1>1, <1>2, <1>3, <1>14, HeldTyped
    <3> HIDE DEF p2
    <3>3. ASSUME NEW c \in Cpus, p2[c] # None
          PROVE  \E i \in lo + 1..x : LastSwitch(tr, c, i, x) /\ Moves(tr, i) /\ p2[c] = HeldOf(tr, i)
      <4>1. CASE c = e.cpu
        BY <1>1, <1>5, <1>14, <3>1, <3>2, <4>1
      <4>2. CASE c # e.cpu
        <5>1. PICK i \in lo + 1..n : LastSwitch(tr, c, i, n) /\ Moves(tr, i) /\ st.pending[c] = HeldOf(tr, i)
          BY <3>2, <3>3, <4>2 DEF Paired
        <5> QED BY <1>1, <1>4, <3>2, <4>2, <5>1
      <4> QED BY <4>1, <4>2
    <3>4. ASSUME NEW c \in Cpus, NEW i \in lo + 1..x, LastSwitch(tr, c, i, x), Moves(tr, i)
          PROVE  p2[c] = HeldOf(tr, i)
      <4>1. CASE i = x
        BY <1>5, <3>2, <3>4, <4>1
      <4>2. CASE i \in lo + 1..n
        <5>1. LastSwitch(tr, c, i, n) /\ c # e.cpu
          BY <1>4, <2>1, <3>4, <4>2
        <5> QED BY <3>2, <3>4, <4>2, <5>1 DEF Paired
      <4> QED BY <1>1, <4>1, <4>2
    <3>5. st2 \in Buffered /\ st2.pending = p2 /\ st2.out = st.out
      BY <1>3, <3>1, <3>2 DEF Buffered
    <3> HIDE DEF st2
    <3> QED BY <2>4, <3>3, <3>4, <3>5 DEF Paired
  <2> QED BY <2>5, <2>6
<1>15. CASE DispatchAt(tr, x)
  <2>1. SchedAt(tr, x) /\ ~SwitchAt(tr, x) /\ st2 = OnDispatch(st, e)
    BY <1>2, <1>15 DEF OnEvent, Filtered, SchedAt, DispatchAt
  <2>2. \A c \in Cpus : ~LastSwitch(tr, c, x, x)
    BY <1>5, <2>1
  <2> DEFINE p == st.pending[e.cpu]
  <2>3. CASE p = None
    <3>1. st2 = st
      BY <2>1, <2>3 DEF OnDispatch
    <3>2. \A i \in lo + 1..n : ~(LastSwitch(tr, e.cpu, i, n) /\ Moves(tr, i))
      BY <1>1, <1>2, <2>3, HeldTyped DEF Paired, Moves
    <3>3. Exact(tr, st.out, lo, x)
      BY <1>6, <1>12, <3>2
    <3>4. ASSUME NEW c \in Cpus, st.pending[c] # None
          PROVE  \E i \in lo + 1..x : LastSwitch(tr, c, i, x) /\ Moves(tr, i) /\ st.pending[c] = HeldOf(tr, i)
      BY <1>1, <1>4, <2>3, <3>4 DEF Paired
    <3>5. ASSUME NEW c \in Cpus, NEW i \in lo + 1..x, LastSwitch(tr, c, i, x), Moves(tr, i)
          PROVE  st.pending[c] = HeldOf(tr, i)
      BY <1>1, <1>4, <2>2, <3>5 DEF Paired
    <3> QED BY <1>3, <3>1, <3>3, <3>4, <3>5 DEF Paired
  <2>4. CASE p # None
    <3>1. PICK i \in lo + 1..n : LastSwitch(tr, e.cpu, i, n) /\ Moves(tr, i) /\ p = HeldOf(tr, i)
      BY <1>2, <2>4 DEF Paired
    <3>2. Ends(tr, i, x) /\ e.outgoing = tr[i].outgoing
      BY <1>6, <1>8, <1>15, <2>1, <3>1
    <3> DEFINE q == PairOf(tr, i, x)
               p2 == [st.pending EXCEPT ![e.cpu] = None]
               o2 == Append(st.out, q)
    <3>3. st2 = [pending |-> p2, out |-> o2]
      <4>1. p.ts = i /\ p.outgoing = tr[i].outgoing /\ p.incoming = tr[i].incoming
        BY <3>1 DEF HeldOf
      <4> QED BY <2>1, <2>4, <3>2, <4>1 DEF OnDispatch, PairOf
    <3>4. q \in Pairs
      <4>1. tr[i].incoming \in Tids
        BY <1>1, <3>1, EventIs DEF Moves, SwitchAt
      <4> QED BY <1>1, <1>2, <4>1, StatesOf DEF PairOf, Pairs
    <3>5. /\ o2 \in Seq(Pairs) /\ Len(o2) = Len(st.out) + 1 /\ o2[Len(st.out) + 1] = q
          /\ \A k \in 1..Len(st.out) : o2[k] = st.out[k]
      BY <1>3, <3>4
    <3>6. /\ p2 \in [Cpus -> PendingSwitch \cup {None}] /\ p2[e.cpu] = None
          /\ \A c \in Cpus : c # e.cpu => p2[c] = st.pending[c]
      BY <1>2, <1>3
    <3> HIDE DEF p2, o2, q
    <3>7. st2 \in Buffered /\ st2.pending = p2 /\ st2.out = o2
      BY <3>3, <3>5, <3>6 DEF Buffered
    <3> HIDE DEF st2
    <3>8. Exact(tr, o2, lo, x)
      <4> DEFINE R == Completed(tr, lo, n)
      <4>1. Completed(tr, lo, x) = R \cup {x}
        BY <1>10, <3>1, <3>2
      <4>2. /\ Cardinality(R) \in Nat /\ Cardinality(R \cup {x}) = Cardinality(R) + 1
            /\ \A j \in R : Upto(R, j) \in 1..Cardinality(R) /\ Upto(R \cup {x}, j) = Upto(R, j)
            /\ Upto(R \cup {x}, x) = Cardinality(R) + 1
        <5> HIDE DEF R
        <5>1. R \subseteq Nat /\ IsFiniteSet(R) /\ x \in Nat /\ \A j \in R : j < x
          BY <1>1, <1>9 DEF R
        <5> HIDE DEF x
        <5> QED BY <5>1, RankKept
      <4>3. Len(st.out) = Cardinality(R)
        BY <1>11 DEF Exact
      <4>4. ASSUME NEW j \in R \cup {x}, NEW k \in lo + 1..x, Ends(tr, k, j)
            PROVE  o2[Upto(R \cup {x}, j)] = PairOf(tr, k, j)
        <5>1. CASE j = x
          <6>1. k = i
            BY <1>1, <3>2, <4>4, <5>1, EndsOne
          <6> QED BY <3>5, <4>2, <4>3, <5>1, <6>1 DEF q
        <5>2. CASE j \in R
          <6>1. j \in lo + 1..n /\ k \in lo + 1..n
            BY <1>1, <1>7, <1>9, <4>4, <5>2
          <6>2. st.out[Upto(R, j)] = PairOf(tr, k, j)
            BY <1>11, <4>4, <5>2, <6>1 DEF Exact
          <6> QED BY <3>5, <4>2, <4>3, <5>2, <6>2
        <5> QED BY <5>1, <5>2
      <4> QED BY <3>5, <4>1, <4>2, <4>3, <4>4 DEF Exact
    <3>9. ASSUME NEW c \in Cpus, p2[c] # None
          PROVE  \E k \in lo + 1..x : LastSwitch(tr, c, k, x) /\ Moves(tr, k) /\ p2[c] = HeldOf(tr, k)
      <4>1. c # e.cpu
        BY <3>6, <3>9
      <4>2. PICK k \in lo + 1..n : LastSwitch(tr, c, k, n) /\ Moves(tr, k) /\ st.pending[c] = HeldOf(tr, k)
        BY <3>6, <3>9, <4>1 DEF Paired
      <4> QED BY <1>1, <1>4, <3>6, <4>1, <4>2
    <3>10. ASSUME NEW c \in Cpus, NEW k \in lo + 1..x, LastSwitch(tr, c, k, x), Moves(tr, k)
           PROVE  p2[c] = HeldOf(tr, k)
      <4>1. k \in lo + 1..n
        BY <1>1, <2>2, <3>10
      <4>2. LastSwitch(tr, c, k, n) /\ c # e.cpu
        BY <1>4, <2>1, <3>10, <4>1
      <4> QED BY <3>6, <3>10, <4>1, <4>2 DEF Paired
    <3> QED BY <3>7, <3>8, <3>9, <3>10 DEF Paired
  <2> QED BY <2>3, <2>4
<1> QED BY <1>2, <1>13, <1>14, <1>15

------------------------------------------------------------------------------
(* emit_batch starts from the state the last batch left.                     *)
Taken == [pending |-> pending, out |-> out]
Take(f, lo, n) == IF n = 0 THEN Taken ELSE OnEvent(f[n - 1], trace[lo + n], lo + n)

(* The recursion of emit_batch, unfolded once.                               *)
LEMMA EmitIs ==
  ASSUME NEW lo \in Nat, NEW hi \in Nat, lo <= hi
  PROVE  \E f : /\ f[0] = Taken
                /\ \A n \in 1..hi - lo : f[n] = OnEvent(f[n - 1], trace[lo + n], lo + n)
                /\ emit_batch(lo, hi) = f[hi - lo]
<1> DEFINE Good(k) == \E g : g = [n \in 0..k |-> Take(g, lo, n)]
           T == {k \in Nat : ~Good(k)}
           l == hi - lo
<1>1. Good(0)
  <2> DEFINE g == [n \in 0..0 |-> Taken]
  <2>1. g = [n \in 0..0 |-> Take(g, lo, n)]
    BY DEF Take
  <2> QED BY <2>1
<1>2. T = {}
  <2> SUFFICES ASSUME T # {} PROVE FALSE
    OBVIOUS
  <2>1. PICK k \in T : \A y \in T : k <= y
    <3>1. T \subseteq Nat
      OBVIOUS
    <3> HIDE DEF T
    <3> QED BY <3>1, Least
  <2>2. k \in Nat /\ k # 0 /\ k - 1 \in Nat /\ Good(k - 1) /\ ~Good(k)
    <3>1. k \in Nat /\ k # 0 /\ ~Good(k)
      BY <1>1
    <3>2. k - 1 \in Nat /\ ~(k <= k - 1)
      BY <3>1
    <3> QED BY <2>1, <3>1, <3>2
  <2>3. PICK g : g = [n \in 0..(k - 1) |-> Take(g, lo, n)]
    BY <2>2
  <2> DEFINE h == [n \in 0..k |-> Take(g, lo, n)]
  <2>4. \A n \in 0..(k - 1) : n \in 0..k /\ g[n] = h[n]
    <3>1. \A n \in 0..(k - 1) : n \in 0..k
      BY <2>2
    <3>2. \A n \in 0..(k - 1) : g[n] = Take(g, lo, n)
      BY <2>3, Zenon
    <3> QED BY <3>1, <3>2
  <2>5. \A n \in 0..k : n = 0 \/ n - 1 \in 0..(k - 1)
    BY <2>2
  <2>6. \A n \in 0..k : Take(g, lo, n) = Take(h, lo, n)
    BY <2>4, <2>5 DEF Take
  <2>7. h = [n \in 0..k |-> Take(h, lo, n)]
    BY <2>6
  <2> QED BY <2>2, <2>7
<1>3. l \in Nat
  OBVIOUS
<1>4. Good(l)
  BY <1>2, <1>3
<1> DEFINE f == CHOOSE g : g = [n \in 0..l |-> Take(g, lo, n)]
<1>5. f = [n \in 0..l |-> Take(f, lo, n)]
  BY <1>4
<1>6. emit_batch(lo, hi) = f[l]
  BY DEF emit_batch, Take, Taken
<1> HIDE DEF f, l
<1>7. \A n \in 0..l : f[n] = Take(f, lo, n)
  BY <1>5
<1>8. f[0] = Taken
  BY <1>3, <1>7 DEF Take
<1>9. \A n \in 1..l : f[n] = OnEvent(f[n - 1], trace[lo + n], lo + n)
  BY <1>3, <1>7 DEF Take
<1> QED BY <1>6, <1>8, <1>9 DEF l

(* While nothing was overwritten the consumer's state is what the events     *)
(* since the start came to.                                                  *)
SchedInv ==
  /\ trace \in Seq(Events) /\ Alternates(trace)
  /\ on \in [Cpus -> Tids] /\ half \in [Cpus -> Tids \cup {None}] /\ HalfIs(trace, half)
  /\ read \in 0..Len(trace) /\ first \in Nat
  /\ watching => first <= read
  /\ ~watching => pending = [c \in Cpus |-> None] /\ out = <<>>
  /\ watching /\ ~lost => Paired(trace, Taken, first, read)

(* A whole batch.                                                            *)
LEMMA BatchTaken ==
  ASSUME SchedInv, watching, ~lost, NEW hi \in read..Len(trace)
  PROVE  Paired(trace, emit_batch(read, hi), first, hi)
<1>1. /\ read \in Nat /\ hi \in Nat /\ read <= hi /\ Len(trace) \in Nat /\ first \in Nat
      /\ first <= read /\ hi <= Len(trace) /\ trace \in Seq(Events) /\ Alternates(trace)
  BY DEF SchedInv
<1>2. PICK f : /\ f[0] = Taken
               /\ \A n \in 1..hi - read : f[n] = OnEvent(f[n - 1], trace[read + n], read + n)
               /\ emit_batch(read, hi) = f[hi - read]
  BY <1>1, EmitIs
<1> DEFINE Good(n) == Paired(trace, f[n], first, read + n)
           T == {n \in 0..hi - read : ~Good(n)}
<1>3. Good(0)
  BY <1>1, <1>2 DEF SchedInv
<1>4. T = {}
  <2> SUFFICES ASSUME T # {} PROVE FALSE
    OBVIOUS
  <2>1. PICK n \in T : \A y \in T : n <= y
    <3>1. T \subseteq Nat
      OBVIOUS
    <3> HIDE DEF T
    <3> QED BY <3>1, Least
  <2> DEFINE k == n - 1
  <2>2. n \in 1..hi - read /\ k \in 0..hi - read /\ Good(k) /\ ~Good(n)
    <3>1. n \in 0..hi - read /\ n # 0 /\ ~Good(n)
      BY <1>3
    <3>2. n \in 1..hi - read /\ k \in 0..hi - read /\ ~(n <= k)
      BY <1>1, <3>1
    <3> QED BY <2>1, <3>1, <3>2
  <2>3. /\ read + k \in Nat /\ first <= read + k /\ (read + k) + 1 = read + n
        /\ (read + k) + 1 <= Len(trace)
    BY <1>1, <2>2
  <2>4. Paired(trace, f[k], first, read + k)
    BY <2>2
  <2> HIDE DEF k
  <2>5. Paired(trace, OnEvent(f[k], trace[(read + k) + 1], (read + k) + 1), first, (read + k) + 1)
    BY <1>1, <2>3, <2>4, EventApplied
  <2>6. f[n] = OnEvent(f[k], trace[read + n], read + n)
    BY <1>2, <2>2 DEF k
  <2> QED BY <2>2, <2>3, <2>5, <2>6
<1>5. hi - read \in 0..hi - read /\ read + (hi - read) = hi
  BY <1>1
<1>6. Good(hi - read)
  <2> HIDE DEF Good
  <2> QED BY <1>4, <1>5
<1> QED BY <1>2, <1>5, <1>6

(* An event of the kernel enters the ring.                                   *)
(* What entering the ring does to the trace.                                 *)
LEMMA LogSame ==
  ASSUME SchedInv, NEW e \in Events, Log(e)
  PROVE  /\ trace' \in Seq(Events) /\ Len(trace') = Len(trace) + 1 /\ Len(trace) \in Nat
         /\ trace'[Len(trace) + 1] = e /\ \A m \in 1..Len(trace) : trace'[m] = trace[m]
  BY DEF Log, SchedInv

LEMMA LogKeeps ==
  ASSUME SchedInv, NEW e \in Events, Log(e), UNCHANGED <<read, first, watching, lost, pending, out>>,
         on' \in [Cpus -> Tids], half' \in [Cpus -> Tids \cup {None}],
         \A c \in Cpus : c # e.cpu => half'[c] = half[c],
         e.csc = "MACH_SCHED" /\ e.code = "SWITCH" => half[e.cpu] = None /\ half'[e.cpu] = e.outgoing,
         e.csc = "MACH_SCHED" /\ e.code = "DISPATCH" => half[e.cpu] = e.outgoing,
         e.csc # "MACH_SCHED" => half' = half
  PROVE  SchedInv'
<1> DEFINE n == Len(trace)
           tr == trace'
<1>1. /\ tr \in Seq(Events) /\ Len(tr) = n + 1 /\ n \in Nat /\ tr[n + 1] = e
      /\ \A m \in 1..n : tr[m] = trace[m]
  BY LogSame
<1>2. /\ \A i \in 1..n + 1 : i = n + 1 \/ i \in 1..n
      /\ n + 1 \in 1..n + 1 /\ (n + 1) - 1 = n /\ n + 1 \notin 1..n
      /\ \A j \in 1..n : j - 1 \in 0..n
  BY <1>1
<1> HIDE DEF n, tr
<1>3. /\ e.cpu \in Cpus /\ e.outgoing \in Tids /\ e.outgoing # None
      /\ SchedAt(tr, n + 1) <=> e.csc = "MACH_SCHED"
      /\ SwitchAt(tr, n + 1) <=> e.csc = "MACH_SCHED" /\ e.code = "SWITCH"
      /\ DispatchAt(tr, n + 1) <=> e.csc = "MACH_SCHED" /\ e.code = "DISPATCH"
      /\ SchedAt(tr, n + 1) => (SwitchAt(tr, n + 1) \/ DispatchAt(tr, n + 1))
      /\ ~(SwitchAt(tr, n + 1) /\ DispatchAt(tr, n + 1))
  <2>1. e.cpu \in Cpus /\ e.outgoing \in Tids /\ e.code \in {"SWITCH", "DISPATCH"}
    BY DEF Events, SwitchEvents, DispatchEvents
  <2> QED BY <1>1, <2>1, TimelineAssumption DEF SchedAt, SwitchAt, DispatchAt
<1>4. /\ \A m \in 1..n : /\ SchedAt(trace, m) <=> SchedAt(tr, m)
                         /\ SwitchAt(trace, m) <=> SwitchAt(tr, m)
                         /\ DispatchAt(trace, m) <=> DispatchAt(tr, m)
      /\ \A c : \A i \in 1..n, k \in 0..n : NoneAfter(trace, c, i, k) <=> NoneAfter(tr, c, i, k)
  <2>1. /\ \A m \in 1..n : /\ SchedAt(trace, m) <=> SchedAt(tr, m)
                           /\ SwitchAt(trace, m) <=> SwitchAt(tr, m)
                           /\ DispatchAt(trace, m) <=> DispatchAt(tr, m)
                           /\ Moves(trace, m) <=> Moves(tr, m)
        /\ \A c : \A i \in 1..n, k \in 0..n : NoneAfter(trace, c, i, k) <=> NoneAfter(tr, c, i, k)
    BY <1>1, SameEnds
  <2> QED BY <2>1
<1>5. \A c : \A i \in 1..n, k \in 0..n : LastSwitch(tr, c, i, k) <=> LastSwitch(trace, c, i, k)
  BY <1>1, <1>4 DEF LastSwitch
<1>6. HalfIs(trace, half) /\ Alternates(trace)
  BY DEF SchedInv
<1>7. ASSUME NEW c \in Cpus, NEW i \in 1..n, LastSwitch(tr, c, i, n)
      PROVE  half[c] = tr[i].outgoing
  <2>1. n \in 0..n
    BY <1>1
  <2>2. LastSwitch(trace, c, i, n)
    BY <1>5, <1>7, <2>1
  <2> QED BY <1>1, <1>6, <2>2 DEF HalfIs, n
<1>8. Alternates(tr)
  <2> SUFFICES ASSUME NEW i \in 1..n + 1, NEW j \in 1..n + 1, i < j, SchedAt(tr, j),
                      LastSwitch(tr, tr[j].cpu, i, j - 1)
               PROVE  DispatchAt(tr, j) /\ tr[j].outgoing = tr[i].outgoing
    BY <1>1 DEF Alternates
  <2>1. CASE j \in 1..n
    <3>1. i \in 1..n /\ j - 1 \in 0..n
      BY <1>1, <2>1
    <3>2. SchedAt(trace, j) /\ LastSwitch(trace, trace[j].cpu, i, j - 1)
      BY <1>1, <1>4, <1>5, <2>1, <3>1
    <3>3. DispatchAt(trace, j) /\ trace[j].outgoing = trace[i].outgoing
      BY <1>6, <2>1, <3>1, <3>2 DEF Alternates, n
    <3> QED BY <1>1, <1>4, <2>1, <3>1, <3>3
  <2>2. CASE j = n + 1
    <3>1. i \in 1..n /\ LastSwitch(tr, e.cpu, i, n)
      BY <1>1, <1>2, <2>2
    <3>2. half[e.cpu] = tr[i].outgoing
      BY <1>3, <1>7, <3>1
    <3>3. tr[i].outgoing \in Tids
      BY <1>1, <1>2, <3>1, EventIs
    <3>4. half[e.cpu] # None
      BY <3>2, <3>3, TimelineAssumption
    <3> QED BY <1>1, <1>3, <2>2, <3>2, <3>4
  <2> QED BY <1>2, <2>1, <2>2
<1>9. HalfIs(tr, half')
  <2> SUFFICES ASSUME NEW c \in Cpus, NEW i \in 1..n + 1, LastSwitch(tr, c, i, n + 1)
               PROVE  half'[c] = tr[i].outgoing
    BY <1>1 DEF HalfIs
  <2>1. CASE i = n + 1
    BY <1>1, <1>3, <2>1 DEF LastSwitch
  <2>2. CASE i \in 1..n
    <3>1. n + 1 \in i + 1..n + 1 /\ \A m \in i + 1..n : m \in i + 1..n + 1
      BY <1>1, <2>2
    <3>2. LastSwitch(tr, c, i, n) /\ ~(SchedAt(tr, n + 1) /\ e.cpu = c)
      BY <1>1, <3>1 DEF LastSwitch, NoneAfter
    <3>3. half[c] = tr[i].outgoing
      BY <1>7, <2>2, <3>2
    <3> QED BY <1>3, <3>2, <3>3
  <2> QED BY <1>2, <2>1, <2>2
<1>10. read' \in 0..Len(trace')
  <2>1. read' = read /\ read \in 0..n /\ Len(trace') = n + 1
    BY <1>1 DEF SchedInv, tr, n
  <2> QED BY <1>1, <2>1
<1>11. watching' /\ ~lost' => Paired(tr, Taken', first', read')
  <2> SUFFICES ASSUME watching, ~lost PROVE Paired(tr, Taken, first, read)
    BY DEF Taken
  <2>1. read \in 0..n /\ first \in Nat /\ Paired(trace, Taken, first, read)
    BY DEF SchedInv, n
  <2>2. read \in Nat /\ \A m \in 1..read : tr[m] = trace[m]
    BY <1>1, <2>1
  <2> QED BY <2>1, <2>2, PairedSame
<1> QED BY <1>1, <1>8, <1>9, <1>10, <1>11 DEF SchedInv, tr

(* What the kernel does leaves the consumer's account of the past as it      *)
(* was.                                                                      *)
LEMMA KernelKeeps == ASSUME SchedInv, Kernel PROVE SchedInv'
<1> USE TimelineAssumption
<1>1. on \in [Cpus -> Tids] /\ half \in [Cpus -> Tids \cup {None}]
  BY DEF SchedInv
<1>2. ASSUME NEW c \in Cpus, NEW t \in Tids, Switch(c, t) PROVE SchedInv'
  <2> DEFINE e == [csc |-> "MACH_SCHED", code |-> "SWITCH", cpu |-> c, outgoing |-> on[c], incoming |-> t]
  <2>1. e \in Events
    BY <1>1 DEF Events, SwitchEvents
  <2>2. Log(e) /\ e.cpu = c /\ e.code = "SWITCH" /\ e.csc = "MACH_SCHED" /\ e.outgoing = on[c]
    BY <1>2 DEF Switch
  <2>3. /\ half[c] = None /\ half' = [half EXCEPT ![c] = on[c]] /\ on' = [on EXCEPT ![c] = t]
        /\ UNCHANGED <<read, first, watching, lost, pending, out>>
    BY <1>2 DEF Switch
  <2>4. /\ on' \in [Cpus -> Tids] /\ half' \in [Cpus -> Tids \cup {None}] /\ half'[c] = on[c]
        /\ \A d \in Cpus : d # c => half'[d] = half[d]
    BY <1>1, <2>3
  <2> HIDE DEF e
  <2> QED BY <2>1, <2>2, <2>3, <2>4, LogKeeps
<1>3. ASSUME NEW c \in Cpus, NEW t \in Tids, PerfFires(c, t) PROVE SchedInv'
  <2> DEFINE e == [csc |-> "PERF", code |-> "SWITCH", cpu |-> c, outgoing |-> on[c], incoming |-> t]
  <2>1. e \in Events
    BY <1>1 DEF Events, SwitchEvents
  <2>2. Log(e) /\ e.csc # "MACH_SCHED"
    BY <1>3 DEF PerfFires
  <2>3. UNCHANGED <<on, half, read, first, watching, lost, pending, out>>
    BY <1>3 DEF PerfFires
  <2> HIDE DEF e
  <2> QED BY <1>1, <2>1, <2>2, <2>3, LogKeeps
<1>4. ASSUME NEW c \in Cpus, NEW bits \in StateBits, Dispatch(c, bits) PROVE SchedInv'
  <2> DEFINE e == [csc |-> "MACH_SCHED", code |-> "DISPATCH", cpu |-> c, outgoing |-> half[c], bits |-> bits]
  <2>1. e \in Events
    BY <1>1, <1>4 DEF Events, DispatchEvents, Dispatch
  <2>2. Log(e) /\ e.cpu = c /\ e.code = "DISPATCH" /\ e.csc = "MACH_SCHED" /\ e.outgoing = half[c]
    BY <1>4 DEF Dispatch
  <2>3. /\ half' = [half EXCEPT ![c] = None] /\ UNCHANGED <<on, read, first, watching, lost, pending, out>>
    BY <1>4 DEF Dispatch
  <2>4. /\ on' \in [Cpus -> Tids] /\ half' \in [Cpus -> Tids \cup {None}]
        /\ \A d \in Cpus : d # c => half'[d] = half[d]
    BY <1>1, <2>3
  <2> HIDE DEF e
  <2> QED BY <2>1, <2>2, <2>3, <2>4, LogKeeps
<1>5. ASSUME UNCHANGED <<trace, on, half, read, lost, watching, first, pending, out>> PROVE SchedInv'
  BY <1>5 DEF SchedInv, Taken
<1>6. CASE Overwrite
  BY <1>6 DEF Overwrite, kernel, SchedInv
<1> QED BY <1>2, <1>3, <1>4, <1>5, <1>6 DEF Kernel, Spawn, Exit

(* The data source starts with nothing buffered, and a batch carries its     *)
(* account on from where the last one ended.                                 *)
LEMMA ConsumerKeeps ==
  ASSUME SchedInv, SchedStart \/ DrainOthers \/ on_drain \/ DrainWithoutMap
  PROVE  SchedInv'
<1> USE TimelineAssumption
<1>1. Len(trace) \in Nat /\ read \in 0..Len(trace)
  BY DEF SchedInv
<1>2. CASE SchedStart
  <2>1. /\ ~watching /\ watching' /\ first' = read /\ read \in Nat
        /\ UNCHANGED <<trace, on, half, read, lost, pending, out>>
    BY <1>1, <1>2 DEF SchedStart, kernel
  <2>2. pending = [c \in Cpus |-> None] /\ out = <<>>
    BY <2>1 DEF SchedInv
  <2>3. Paired(trace, Taken, read, read)
    <3>1. read + 1..read = {}
      BY <2>1
    <3>2. Completed(trace, read, read) = {}
      BY <3>1 DEF Completed
    <3>3. Cardinality({}) = 0
      BY FS_EmptySet
    <3>4. Taken \in Buffered /\ Taken.out = <<>> /\ \A c \in Cpus : Taken.pending[c] = None
      BY <2>2 DEF Taken, Buffered
    <3> QED BY <3>1, <3>2, <3>3, <3>4 DEF Paired, Exact
  <2> QED BY <2>1, <2>3 DEF SchedInv, Taken
<1>3. CASE DrainOthers
  BY <1>1, <1>3 DEF DrainOthers, kernel, SchedInv
<1>4. CASE on_drain \/ DrainWithoutMap
  <2>1. TakeBatch
    BY <1>4 DEF on_drain, DrainWithoutMap
  <2>2. PICK hi \in {read, IF Len(trace) - read > DRAIN_CAPACITY THEN read + DRAIN_CAPACITY
                           ELSE Len(trace)} :
          /\ read' = hi /\ pending' = emit_batch(read, hi).pending /\ out' = emit_batch(read, hi).out
    BY <2>1 DEF TakeBatch
  <2>3. hi \in read..Len(trace)
    BY <1>1
  <2>4. watching /\ UNCHANGED <<trace, on, half, lost, watching, first>>
    BY <2>1 DEF TakeBatch, kernel
  <2>5. hi \in 0..Len(trace) /\ first <= hi
    BY <1>1, <2>3, <2>4 DEF SchedInv
  <2>6. ASSUME ~lost PROVE Paired(trace, Taken', first, hi)
    <3>1. Paired(trace, emit_batch(read, hi), first, hi)
      BY <2>3, <2>4, <2>6, BatchTaken
    <3>2. emit_batch(read, hi) \in Buffered
      BY <3>1 DEF Paired
    <3>3. Taken' = emit_batch(read, hi)
      BY <2>2, <3>2 DEF Taken, Buffered
    <3> QED BY <3>1, <3>3
  <2> QED BY <2>2, <2>4, <2>5, <2>6 DEF SchedInv, Taken
<1> QED BY <1>2, <1>3, <1>4

(* The context switches of the property are those of the invariant.          *)
LEMMA TimelineIs == SchedInv => TimelineExact
<1> SUFFICES ASSUME SchedInv, watching, ~lost PROVE TimelineExact
  BY DEF TimelineExact
<1> DEFINE js == {j \in first + 1..read : \E i \in first + 1..j : Completes(i, j)}
           of(j) == CHOOSE i \in first + 1..j : Completes(i, j)
           real == {j \in js : trace[of(j)].outgoing # trace[of(j)].incoming}
<1>1. first \in Nat /\ read \in Nat /\ Paired(trace, Taken, first, read)
  BY DEF SchedInv
<1>2. \A i, j : Completes(i, j) <=> Ends(trace, i, j)
  BY DEF Completes, Ends, SwitchAt, DispatchAt, SchedAt, NoneAfter
<1>3. ASSUME NEW j \in first + 1..read, NEW i \in first + 1..j, Ends(trace, i, j)
      PROVE  of(j) = i
  <2>1. of(j) \in first + 1..j /\ Ends(trace, of(j), j)
    BY <1>2, <1>3
  <2> HIDE DEF of
  <2>2. i \in Nat /\ of(j) \in Nat /\ j \in Nat
    BY <1>1, <2>1
  <2> QED BY <1>3, <2>1, <2>2, EndsOne
<1>4. \A j \in js : j \in first + 1..read /\ of(j) \in first + 1..j /\ Ends(trace, of(j), j)
  BY <1>2
<1>5. real = Completed(trace, first, read)
  <2>1. ASSUME NEW j \in real PROVE j \in Completed(trace, first, read)
    <3>1. of(j) \in first + 1..j /\ Ends(trace, of(j), j) /\ j \in first + 1..read
      BY <1>4
    <3>2. Moves(trace, of(j))
      BY <3>1 DEF Moves, Ends
    <3> HIDE DEF of
    <3> QED BY <3>1, <3>2 DEF Completed
  <2>2. ASSUME NEW j \in Completed(trace, first, read) PROVE j \in real
    <3>1. PICK i \in first + 1..j : j \in first + 1..read /\ Ends(trace, i, j) /\ Moves(trace, i)
      BY DEF Completed
    <3>2. of(j) = i
      BY <1>3, <3>1
    <3>3. j \in js
      BY <1>2, <3>1
    <3> HIDE DEF of, js
    <3> QED BY <3>1, <3>2, <3>3 DEF Moves
  <2> HIDE DEF real
  <2> QED BY <2>1, <2>2
<1>6. Exact(trace, out, first, read)
  BY <1>1 DEF Paired, Taken
<1>7. ASSUME NEW j \in real
      PROVE  out[Cardinality({m \in real : m <= j})]
               = [ts |-> of(j), cpu |-> trace[j].cpu, outgoing |-> trace[j].outgoing,
                  incoming |-> trace[of(j)].incoming,
                  state |-> outgoing_task_state(trace[j].bits)]
  <2>1. j \in js
    OBVIOUS
  <2>2. of(j) \in first + 1..j /\ Ends(trace, of(j), j) /\ j \in first + 1..read
    BY <1>4, <2>1
  <2> HIDE DEF of, js, real
  <2>3. of(j) \in first + 1..read
    BY <1>1, <2>2
  <2>4. out[Upto(Completed(trace, first, read), j)] = PairOf(trace, of(j), j)
    BY <1>5, <1>6, <2>2, <2>3 DEF Exact
  <2> QED BY <1>5, <2>4 DEF Upto, PairOf
<1>8. Len(out) = Cardinality(real)
  BY <1>5, <1>6 DEF Exact
<1> HIDE DEF js, of, real
<1>9. Len(out) = Cardinality(real) /\ \A j \in real :
        LET n == Cardinality({m \in real : m <= j}) IN
        out[n] = [ts |-> of(j), cpu |-> trace[j].cpu, outgoing |-> trace[j].outgoing,
                  incoming |-> trace[of(j)].incoming,
                  state |-> outgoing_task_state(trace[j].bits)]
  BY <1>7, <1>8
<1> QED BY <1>9 DEF TimelineExact, js, of, real

(* With nothing overwritten the timeline is exactly the context switches     *)
(* completed since the start, in order, for any CPUs and threads, any batch  *)
(* size and any cut of the events into batches (ring_host.rs, emit_batch     *)
(* and drain_once).                                                          *)
THEOREM TimelineIsExact == SchedSpec => []TimelineExact
<1>1. SchedInit => SchedInv
  <2> SUFFICES ASSUME SchedInit PROVE SchedInv
    OBVIOUS
  <2>1. /\ trace = <<>> /\ Len(trace) = 0 /\ read = 0 /\ ~watching /\ first = 0 /\ on \in [Cpus -> Tids]
        /\ half = [c \in Cpus |-> None] /\ pending = [c \in Cpus |-> None] /\ out = <<>>
    BY DEF SchedInit
  <2>2. 1..Len(trace) = {}
    BY <2>1
  <2>3. trace \in Seq(Events) /\ Alternates(trace) /\ HalfIs(trace, half)
    BY <2>1, <2>2 DEF Alternates, HalfIs
  <2> QED BY <2>1, <2>3 DEF SchedInv
<1>2. SchedInv /\ [SchedNext]_schedVars => SchedInv'
  <2>1. SchedInv /\ UNCHANGED schedVars => SchedInv'
    BY DEF schedVars, kernel, SchedInv, Taken
  <2> QED BY <2>1, KernelKeeps, ConsumerKeeps DEF SchedNext
<1> QED BY <1>1, <1>2, TimelineIs, PTL DEF SchedSpec

------------------------------------------------------------------------------
(* The process tree deltas.                                                  *)

(* The data of the thread map.                                               *)
Known == Pids \cup {None}
(* What the consumer cached it announced, each thread with its process.      *)
TreeInv ==
  /\ map \in [Tids -> Known]
  /\ cache \in [threads : [Tids -> Known], processes : SUBSET Pids]
  /\ announced = cache
  /\ \A t \in Tids : cache.threads[t] # None => cache.threads[t] \in cache.processes

(* The kernel has no more threads and processes than one delta holds.        *)
FitsTheCaps ==
  /\ IsFiniteSet(Tids) /\ Cardinality(Tids) <= MAX_NEW_THREADS
  /\ IsFiniteSet(Pids) /\ Cardinality(Pids) <= MAX_NEW_PROCESSES

(* A listing of a finite set has every member.                               *)
LEMMA ListsAll ==
  ASSUME NEW S, IsFiniteSet(S), NEW s \in SetToSeqs(S)
  PROVE  /\ s \in [1..Cardinality(S) -> S] /\ Cardinality(S) \in Nat
         /\ \A x \in S : \E i \in 1..Cardinality(S) : s[i] = x
<1> DEFINE D == 1..Cardinality(S)
<1>1. Cardinality(S) \in Nat
  BY FS_CardinalityType
<1>2. s \in [D -> S] /\ \A i, j \in D : i # j => s[i] # s[j]
  BY DEF SetToSeqs
<1>3. IsFiniteSet(D) /\ Cardinality(D) = Cardinality(S)
  <2>1. 1 \in Int /\ Cardinality(S) \in Int /\ (1 > Cardinality(S) => Cardinality(S) = 0)
    BY <1>1
  <2> HIDE DEF D
  <2>2. IsFiniteSet(1..Cardinality(S)) /\ Cardinality(1..Cardinality(S)) = IF 1 > Cardinality(S) THEN 0 ELSE Cardinality(S)-1+1
    BY <2>1, FS_Interval
  <2> QED BY <1>1, <2>1, <2>2 DEF D
<1> HIDE DEF D
<1>4. s \in Injection(D, S)
  BY <1>2, Fun_IsInj
<1>5. s \in Surjection(D, S)
  BY <1>3, <1>4, FS_Injection
<1>6. \A x \in S : \E i \in D : s[i] = x
  BY <1>5 DEF Surjection
<1> QED BY <1>1, <1>2, <1>6 DEF D

(* Within the caps every new thread is staged, and every new process with    *)
(* the first of its new threads.                                             *)
LEMMA AllStaged ==
  ASSUME TreeInv, FitsTheCaps, NEW new \in SetToSeqs(Unknown)
  PROVE  /\ DOMAIN new = 1..Cardinality(Unknown)
         /\ \A t \in Tids : (\E i \in DOMAIN new : new[i] = t /\ i <= MAX_NEW_THREADS) <=> t \in Unknown
         /\ {map[new[i]] : i \in Staged(new)} = NewProcesses
<1> USE TimelineAssumption
<1> DEFINE k == Cardinality(Unknown)
<1>1. Unknown \in SUBSET Tids /\ NewProcesses \in SUBSET Pids
  BY DEF Unknown, NewProcesses, TreeInv, Known
<1>2. IsFiniteSet(Unknown) /\ k \in Nat /\ k <= MAX_NEW_THREADS
  <2>1. Cardinality(Tids) \in Nat
    BY FS_CardinalityType DEF FitsTheCaps
  <2>2. IsFiniteSet(Unknown) /\ k <= Cardinality(Tids)
    BY <1>1, FS_Subset DEF FitsTheCaps
  <2>3. k \in Nat
    BY <2>2, FS_CardinalityType
  <2> QED BY <2>1, <2>2, <2>3 DEF FitsTheCaps
<1>3. new \in [1..k -> Unknown] /\ \A t \in Unknown : \E i \in 1..k : new[i] = t
  BY <1>2, ListsAll
<1>4. DOMAIN new = 1..k
  BY <1>3
<1>5. \A i \in 1..k : i <= MAX_NEW_THREADS /\ i \in Nat
  BY <1>2
<1>6. \A t \in Tids : (\E i \in DOMAIN new : new[i] = t /\ i <= MAX_NEW_THREADS) <=> t \in Unknown
  <2>1. ASSUME NEW t \in Tids, NEW i \in DOMAIN new, new[i] = t PROVE t \in Unknown
    BY <1>3, <1>4, <2>1
  <2>2. ASSUME NEW t \in Unknown PROVE \E i \in DOMAIN new : new[i] = t /\ i <= MAX_NEW_THREADS
    BY <1>3, <1>4, <1>5
  <2> QED BY <2>1, <2>2
<1> DEFINE B == Bringers(new)
           f == [i \in B |-> map[new[i]]]
<1>7. B \in SUBSET (1..k)
  BY <1>4 DEF Bringers
<1>8. f \in Injection(B, NewProcesses)
  <2>1. f \in [B -> NewProcesses]
    BY DEF Bringers
  <2>2. ASSUME NEW i \in B, NEW j \in B, f[i] = f[j] PROVE i = j
    <3>1. map[new[i]] = map[new[j]] /\ i \in 1..k /\ j \in 1..k
      BY <2>2, <1>7
    <3>2. (i <= j /\ j <= i) \/ j \in 1..i - 1 \/ i \in 1..j - 1
      BY <1>2, <3>1
    <3>3. j \notin 1..i - 1 /\ i \notin 1..j - 1
      BY <3>1 DEF Bringers
    <3> QED BY <3>1, <3>2, <3>3, <1>2
  <2> HIDE DEF f, B
  <2> QED BY <2>1, <2>2, Fun_IsInj
<1>9. IsFiniteSet(B) /\ Cardinality(B) <= MAX_NEW_PROCESSES /\ Cardinality(B) \in Nat
  <2>1. Cardinality(Pids) \in Nat
    BY FS_CardinalityType DEF FitsTheCaps
  <2>2. IsFiniteSet(NewProcesses) /\ Cardinality(NewProcesses) <= Cardinality(Pids)
    BY <1>1, FS_Subset DEF FitsTheCaps
  <2> HIDE DEF f, B
  <2>3. IsFiniteSet(B) /\ Cardinality(B) <= Cardinality(NewProcesses)
    BY <1>8, <2>2, FS_Injection
  <2>4. Cardinality(B) \in Nat /\ Cardinality(NewProcesses) \in Nat
    BY <2>2, <2>3, FS_CardinalityType
  <2> QED BY <2>1, <2>2, <2>3, <2>4 DEF FitsTheCaps
<1>10. Staged(new) = B
  <2>1. ASSUME NEW i \in B PROVE Cardinality({j \in B : j <= i}) <= MAX_NEW_PROCESSES
    <3> DEFINE C == {j \in B : j <= i}
    <3>1. C \in SUBSET B
      OBVIOUS
    <3> HIDE DEF C, B, f
    <3>2. IsFiniteSet(C) /\ Cardinality(C) <= Cardinality(B)
      BY <1>9, <3>1, FS_Subset
    <3>3. Cardinality(C) \in Nat
      BY <3>2, FS_CardinalityType
    <3> QED BY <1>9, <3>2, <3>3 DEF C
  <2> QED BY <2>1 DEF Staged
<1>11. ASSUME NEW p \in NewProcesses PROVE \E i \in B : map[new[i]] = p
  <2>1. PICK t \in Unknown : map[t] = p
    BY DEF NewProcesses
  <2> DEFINE T == {i \in 1..k : map[new[i]] = p}
  <2>2. T \subseteq Nat /\ T # {}
    BY <1>3, <2>1
  <2>3. PICK i \in T : \A j \in T : i <= j
    <3> HIDE DEF T
    <3> QED BY <2>2, Least
  <2>4. \A j \in 1..i - 1 : j \in 1..k /\ ~(i <= j)
    BY <1>2
  <2>5. i \in DOMAIN new /\ map[new[i]] = p
    BY <1>4
  <2>6. \A j \in 1..i - 1 : map[new[j]] # p
    BY <2>3, <2>4
  <2> QED BY <2>5, <2>6 DEF Bringers
<1>12. {map[new[i]] : i \in B} = NewProcesses
  BY <1>11 DEF Bringers
<1> QED BY <1>4, <1>6, <1>10, <1>12

(* After a drain every thread in the map is cached under the process it      *)
(* has, and what is cached was announced.                                    *)
LEMMA TreeDrained ==
  ASSUME TreeInv, FitsTheCaps, on_drain
  PROVE  /\ TreeInv'
         /\ \A t \in Tids : map[t] # None =>
              announced'.threads[t] = map[t] /\ map[t] \in announced'.processes
<1> USE TimelineAssumption
<1>1. PICK new \in SetToSeqs(Unknown) :
        /\ cache' = [threads |-> [t \in Tids |-> IF t \in Unknown THEN map[t] ELSE cache.threads[t]],
                     processes |-> cache.processes \cup NewProcesses]
        /\ announced' =
             [threads |-> [t \in Tids |->
                  IF \E i \in DOMAIN new : new[i] = t /\ i <= MAX_NEW_THREADS
                  THEN map[t] ELSE announced.threads[t]],
              processes |-> announced.processes \cup {map[new[i]] : i \in Staged(new)}]
  BY DEF on_drain, refresh_and_emit_tree
<1>2. announced' = cache'
  <2>1. \A t \in Tids : (\E i \in DOMAIN new : new[i] = t /\ i <= MAX_NEW_THREADS) <=> t \in Unknown
    BY AllStaged
  <2>2. {map[new[i]] : i \in Staged(new)} = NewProcesses
    BY AllStaged
  <2>3. announced = cache
    BY DEF TreeInv
  <2>4. [t \in Tids |->
           IF \E i \in DOMAIN new : new[i] = t /\ i <= MAX_NEW_THREADS
           THEN map[t] ELSE announced.threads[t]]
        = [t \in Tids |-> IF t \in Unknown THEN map[t] ELSE cache.threads[t]]
    BY <2>1, <2>3, Zenon
  <2> QED BY <1>1, <2>2, <2>3, <2>4
<1>3. map' = map
  BY DEF on_drain, TakeBatch, kernel
<1>4. ASSUME NEW t \in Tids
      PROVE  /\ cache'.threads[t] = IF t \in Unknown THEN map[t] ELSE cache.threads[t]
             /\ t \in Unknown => map[t] # None /\ map[t] \in cache'.processes
             /\ map[t] # None /\ t \notin Unknown => cache.threads[t] = map[t]
  BY <1>1 DEF Unknown, IsNew, NewProcesses
<1>5. cache'.processes = cache.processes \cup NewProcesses
  BY <1>1
<1>6. NewProcesses \in SUBSET Pids
  BY DEF Unknown, NewProcesses, TreeInv, Known
<1>7. cache' \in [threads : [Tids -> Known], processes : SUBSET Pids]
  <2>1. [t \in Tids |-> IF t \in Unknown THEN map[t] ELSE cache.threads[t]] \in [Tids -> Known]
    BY DEF TreeInv
  <2>2. cache.processes \cup NewProcesses \in SUBSET Pids
    BY <1>6 DEF TreeInv
  <2> QED BY <1>1, <2>1, <2>2
<1>8. \A t \in Tids : cache'.threads[t] # None => cache'.threads[t] \in cache'.processes
  BY <1>4, <1>5 DEF TreeInv
<1>9. TreeInv'
  BY <1>2, <1>3, <1>7, <1>8 DEF TreeInv
<1>10. \A t \in Tids : map[t] # None => cache'.threads[t] = map[t]
  BY <1>4
<1> QED BY <1>2, <1>8, <1>9, <1>10

(* Only a drain changes the cache or what was announced.                     *)
LEMMA TreeStep ==
  ASSUME TreeInv, FitsTheCaps, [SchedNext]_schedVars
  PROVE  TreeInv'
<1> USE TimelineAssumption
<1>1. CASE Kernel
  <2>1. UNCHANGED <<cache, announced>>
    BY <1>1 DEF Kernel, Switch, PerfFires, Dispatch, Spawn, Exit, Overwrite
  <2>2. map' \in [Tids -> Known]
    <3>1. CASE UNCHANGED map
      BY <3>1 DEF TreeInv
    <3>2. ASSUME NEW t \in Tids, NEW p \in Known, map' = [map EXCEPT ![t] = p] PROVE map' \in [Tids -> Known]
      BY <3>2 DEF TreeInv
    <3> QED BY <1>1, <3>1, <3>2 DEF Kernel, Switch, PerfFires, Dispatch, Spawn, Exit, Overwrite, kernel, Known
  <2> QED BY <2>1, <2>2 DEF TreeInv
<1>2. CASE SchedStart \/ DrainOthers \/ DrainWithoutMap \/ UNCHANGED schedVars
  BY <1>2 DEF SchedStart, DrainOthers, DrainWithoutMap, TakeBatch, schedVars, kernel, TreeInv
<1>3. CASE on_drain
  BY <1>3, TreeDrained
<1> QED BY <1>1, <1>2, <1>3 DEF SchedNext

(* As long as one delta holds all there is, every thread and process of the  *)
(* thread map is announced by the drain that sees it, a tid that changed     *)
(* hands included; past the caps of refresh_and_emit_tree one is cached and  *)
(* never announced (ring_host.rs, refresh_and_emit_tree).                    *)
THEOREM ThreadsAnnounced == FitsTheCaps => (SchedSpec => SeenAnnounced)
<1> SUFFICES ASSUME FitsTheCaps PROVE SchedSpec => SeenAnnounced
  OBVIOUS
<1>1. SchedInit => TreeInv
  BY TimelineAssumption DEF SchedInit, TreeInv, Known, Nothing
<1>2. TreeInv /\ [SchedNext]_schedVars => TreeInv'
  BY TreeStep
<1>3. TreeInv /\ [SchedNext]_schedVars =>
        [on_drain => \A t \in Tids : map[t] # None =>
           announced'.threads[t] = map[t] /\ map[t] \in announced'.processes]_schedVars
  BY TreeDrained
<1> QED BY <1>1, <1>2, <1>3, PTL DEF SchedSpec, SeenAnnounced

------------------------------------------------------------------------------
(* Heap dumps and bundles.                                                  *)

(* Cells of a snapshot and of a message.                                     *)
PartCells == {"chunk"} \X Nat \X {1, 2}
Snap(n) == [k \in 1..2 * n |-> Part((k + 1) \div 2, IF k % 2 = 1 THEN 1 ELSE 2)]

(* The fields that no step adds or takes away, and the numbers that are read.*)
Shapes ==
  /\ DOMAIN fs = DumpFiles
  /\ DOMAIN dump = {"pc", "rt", "cand", "polls", "msg", "out", "todo", "stuck"}
  /\ DOMAIN ins = {"pc", "chunk", "frag", "extra"} /\ ins.chunk \in Nat /\ ins.frag \in {1, 2}
  /\ DOMAIN tgt = {"kind", "alive", "home", "len"} /\ tgt.len \in Nat
  /\ traceLen \in Nat

(* The runtime each step is taken for.                                       *)
Runtimes ==
  /\ dump.pc \in {"take", "probe"} => dump.rt = "none"
  /\ dump.pc \in {"remove", "jcmd", "writing", "create", "member", "rename"} => dump.rt = "jvm"
  /\ dump.pc \in {"signal", "poll", "handshake", "read", "flush", "place"} => dump.rt = "node"
  /\ dump.pc = "taken" => dump.rt \in {"jvm", "node"}

(* What is at the spooled dump's path.                                       *)
Spooled ==
  /\ dump.pc \in {"take", "probe", "remove"} => fs["tmp"] \in {Gone, Stale}
  /\ dump.pc = "jcmd" \/ (dump.pc = "writing" /\ ~tgt.home) =>
       fs["tmp"] \in {Gone, Stale} /\ (dump.stuck <=> fs["tmp"] # Gone)
  /\ dump.pc = "writing" /\ tgt.home => ~dump.stuck
  /\ dump.pc \in {"taken", "create", "member", "rename"} /\ dump.rt = "jvm" => fs["tmp"] = JvmDump
  /\ dump.pc \in {"taken", "place"} /\ dump.rt = "node" /\ ~lossy => fs["tmp"] = Snap(NChunks)

(* The messages: what was read and what is still to come of it make up what  *)
(* the inspector has sent.                                                   *)
Unasked ==
  dump.pc \in {"take", "probe", "remove", "jcmd", "writing", "signal", "poll", "handshake"} =>
    ins = Quiet /\ wire = <<>> /\ dump.msg = <<>> /\ dump.out = <<>>
Control == {Frame("ping", TRUE, <<>>), Frame("close", TRUE, <<>>)}
Note == Frame("text", TRUE, <<<<"note">>>>)
Reply == Frame("text", TRUE, <<<<"id1">>>>)
Read(n, m) == dump.out = Snap(n) /\ dump.msg = m
Half(i) == <<Part(i, 1)>>
InStep ==
  LET c == ins.chunk
  IN \/ /\ wire = <<>> \/ (\E f \in Control : wire = <<f>>)
        /\ ins.pc = "send" /\ Read(c - 1, IF ins.frag = 2 THEN Half(c) ELSE <<>>)
        /\ ins.frag = 2 => c <= NChunks
     \/ wire = <<Note>> /\ ins.pc = "send" /\ ins.frag = 1 /\ Read(c - 1, <<>>)
     \/ wire = <<Frame("text", FALSE, Half(c))>> /\ ins.pc = "send" /\ ins.frag = 2 /\ Read(c - 1, <<>>)
        /\ c <= NChunks
     \/ /\ wire = <<Frame("text", TRUE, <<Part(c - 1, 1), Part(c - 1, 2)>>)>>
        /\ ins.pc = "send" /\ ins.frag = 1 /\ c >= 2 /\ Read(c - 2, <<>>)
     \/ /\ wire = <<Frame("continuation", TRUE, <<Part(c - 1, 2)>>)>>
        /\ ins.pc = "send" /\ ins.frag = 1 /\ c >= 2 /\ Read(c - 2, Half(c - 1))
     \/ wire = <<Reply>> /\ ins.pc = "done" /\ Read(NChunks, <<>>)
Streamed ==
  /\ dump.pc = "read" /\ ~lossy => InStep /\ ins.chunk \in 1..NChunks + 1
  /\ dump.pc = "flush" /\ ~lossy => dump.out = Snap(NChunks)

(* The bundle grows by its members.                                          *)
WithMember(tar, name, content) == tar \o header_for(name, Len(content)) \o content \o Padding(Len(content))
OneMember == WithMember(<<>>, "trace", Cells("t", traceLen))
BothMembers == WithMember(OneMember, "tmp", JvmDump)
WholeBundle == BothMembers \o Zeros(2 * Block)
Bundled ==
  /\ dump.pc \in {"create", "member", "rename"} => fs["trace"] = Cells("t", traceLen)
  /\ dump.pc = "create" => dump.todo = 1
  /\ dump.pc = "member" =>
       \/ dump.todo = 1 /\ fs["bundle"] = <<>>
       \/ dump.todo = 2 /\ fs["bundle"] = OneMember
       \/ dump.todo = 3 /\ fs["bundle"] = BothMembers
  /\ dump.pc = "rename" => fs["bundle"] = WholeBundle
  /\ \/ fs["trace"] = Gone
     \/ fs["trace"] = Cells("t", traceLen)
     \/ dump.pc \in {"unlink", "end", "dead"} /\ dump.rt = "jvm" /\ fs["trace"] = WholeBundle

DumpInv == Shapes /\ Runtimes /\ Spooled /\ Unasked /\ Streamed /\ Bundled

------------------------------------------------------------------------------
(* A snapshot in cells.                                                      *)

LEMMA TwoIs ==
  ASSUME NEW S, NEW a \in S, NEW b \in S
  PROVE  <<a, b>> \in Seq(S) /\ Len(<<a, b>>) = 2 /\ <<a, b>>[1] = a /\ <<a, b>>[2] = b
  OBVIOUS

LEMMA JoinIs ==
  ASSUME NEW S, NEW a \in Seq(S), NEW b \in Seq(S)
  PROVE  /\ a \o b \in Seq(S) /\ Len(a \o b) = Len(a) + Len(b)
         /\ \A k \in 1..Len(a) : (a \o b)[k] = a[k]
         /\ \A k \in 1..Len(b) : (a \o b)[Len(a) + k] = b[k]
  OBVIOUS

Pair(i) == <<Part(i, 1), Part(i, 2)>>

LEMMA SnapIs ==
  ASSUME NEW n \in Nat
  PROVE  /\ Snap(n) \in Seq(PartCells) /\ Len(Snap(n)) = 2 * n
         /\ Pair(n + 1) \in Seq(PartCells)
         /\ Snap(n + 1) = Snap(n) \o Pair(n + 1)
<1>1. \A k \in 1..2 * (n + 1) : (k + 1) \div 2 \in Nat
  OBVIOUS
<1>2. \A i \in Nat, k \in {1, 2} : Part(i, k) \in PartCells
  BY DEF Part, PartCells
<1>3. Snap(n) \in Seq(PartCells) /\ Len(Snap(n)) = 2 * n
  <2>1. \A k \in 1..2 * n : Part((k + 1) \div 2, IF k % 2 = 1 THEN 1 ELSE 2) \in PartCells
    BY <1>1, <1>2
  <2> QED BY <2>1 DEF Snap
<1>4. Snap(n + 1) \in Seq(PartCells) /\ Len(Snap(n + 1)) = 2 * (n + 1)
  <2>1. \A k \in 1..2 * (n + 1) : Part((k + 1) \div 2, IF k % 2 = 1 THEN 1 ELSE 2) \in PartCells
    BY <1>1, <1>2
  <2> QED BY <2>1 DEF Snap
<1>5. Pair(n + 1) \in Seq(PartCells) /\ Len(Pair(n + 1)) = 2
      /\ Pair(n + 1)[1] = Part(n + 1, 1) /\ Pair(n + 1)[2] = Part(n + 1, 2)
  <2>1. Part(n + 1, 1) \in PartCells /\ Part(n + 1, 2) \in PartCells
    <3>1. n + 1 \in Nat /\ 1 \in {1, 2} /\ 2 \in {1, 2}
      OBVIOUS
    <3> QED BY <1>2, <3>1
  <2> QED BY <2>1, TwoIs DEF Pair
<1> DEFINE s == Snap(n) \o Pair(n + 1)
<1>6. s \in Seq(PartCells) /\ Len(s) = 2 * (n + 1)
      /\ (\A k \in 1..2 * n : s[k] = Snap(n)[k])
      /\ s[2 * n + 1] = Part(n + 1, 1) /\ s[2 * n + 2] = Part(n + 1, 2)
  <2> DEFINE a == Snap(n)
             b == Pair(n + 1)
  <2>1. a \in Seq(PartCells) /\ b \in Seq(PartCells) /\ Len(a) = 2 * n /\ Len(b) = 2
    BY <1>3, <1>5
  <2>2. s = a \o b
    OBVIOUS
  <2>8. b[1] = Part(n + 1, 1) /\ b[2] = Part(n + 1, 2)
    <3> HIDE DEF s, a
    <3> QED BY <1>5
  <2> HIDE DEF s, a, b
  <2>3. /\ a \o b \in Seq(PartCells) /\ Len(a \o b) = Len(a) + Len(b)
        /\ \A k \in 1..Len(a) : (a \o b)[k] = a[k]
        /\ \A k \in 1..Len(b) : (a \o b)[Len(a) + k] = b[k]
    <3>1. a \in Seq(PartCells) /\ b \in Seq(PartCells)
      BY <2>1
    <3> HIDE DEF PartCells
    <3> QED BY ONLY <3>1, JoinIs
  <2>4. 1 \in 1..Len(b) /\ 2 \in 1..Len(b)
    BY <2>1
  <2>5. s[2 * n + 1] = b[1] /\ s[2 * n + 2] = b[2]
    BY <2>1, <2>2, <2>3, <2>4
  <2>6. s \in Seq(PartCells) /\ Len(s) = 2 * (n + 1)
    BY <2>1, <2>2, <2>3
  <2>7. \A k \in 1..2 * n : s[k] = a[k]
    BY <2>1, <2>2, <2>3
  <2> QED BY <2>5, <2>6, <2>7, <2>8 DEF a
<1>7. ASSUME NEW k \in 1..2 * (n + 1) PROVE Snap(n + 1)[k] = s[k]
  <2>1. k \in 1..2 * n \/ k = 2 * n + 1 \/ k = 2 * n + 2
    OBVIOUS
  <2> HIDE DEF s
  <2>2. CASE k \in 1..2 * n
    BY <1>6, <2>2 DEF Snap
  <2>3. CASE k = 2 * n + 1
    <3>1. (k + 1) \div 2 = n + 1 /\ k % 2 = 1
      BY <2>3
    <3> QED BY <1>6, <2>3, <3>1 DEF Snap
  <2>4. CASE k = 2 * n + 2
    <3>1. (k + 1) \div 2 = n + 1 /\ k % 2 = 0
      BY <2>4
    <3> QED BY <1>6, <2>4, <3>1 DEF Snap
  <2> QED BY <2>1, <2>2, <2>3, <2>4
<1>8. Snap(n + 1) = s
  <2> HIDE DEF s
  <2> QED BY <1>4, <1>6, <1>7
<1> QED BY <1>3, <1>5, <1>8

LEMMA NoSnap == Snap(0) = <<>>
<1>1. Snap(0) \in Seq(PartCells) /\ Len(Snap(0)) = 0
  BY SnapIs
<1> QED BY <1>1

(* FlattenSeq unfolded.                                                      *)
FlatStep(f, s, i) == IF i = 1 THEN s[i] ELSE f[i - 1] \o s[i]
LEMMA SnapshotIs == Snapshot = Snap(NChunks)
<1> DEFINE s == [i \in 1..NChunks |-> <<Part(i, 1), Part(i, 2)>>]
<1>1. NChunks \in Nat /\ Len(s) = NChunks
  BY DumpAssumption
<1>2. \A i \in 1..NChunks : s[i] = Pair(i)
  BY DEF Pair
<1>3. Snapshot = FlattenSeq(s)
  BY DEF Snapshot
<1>4. CASE NChunks = 0
  <2>1. s = <<>>
    BY <1>4
  <2> HIDE DEF s
  <2> QED BY <1>1, <1>3, <1>4, <2>1, NoSnap DEF FlattenSeq
<1>5. CASE NChunks # 0
  <2> DEFINE g == [i \in 1..NChunks |-> Snap(i)]
             f == CHOOSE h : h = [i \in 1..NChunks |-> FlatStep(h, s, i)]
  <2>1. FlattenSeq(s) = f[NChunks]
    BY <1>1, <1>5 DEF FlattenSeq, FlatStep
  <2> HIDE DEF s
  <2>2. ASSUME NEW i \in 1..NChunks PROVE Snap(i) = IF i = 1 THEN s[i] ELSE Snap(i - 1) \o s[i]
    <3>1. i - 1 \in Nat /\ (i - 1) + 1 = i
      OBVIOUS
    <3>2. Snap(i) = Snap(i - 1) \o Pair(i)
      BY <3>1, SnapIs
    <3>3. CASE i = 1
      <4>1. Snap(0) = <<>> /\ Pair(1) \in Seq(PartCells)
        BY NoSnap, SnapIs
      <4>2. <<>> \o Pair(1) = Pair(1)
        BY <4>1
      <4> QED BY <1>2, <3>2, <3>3, <4>1, <4>2, SMTT(30)
    <3> QED BY <1>2, <3>2, <3>3
  <2>3. g = [i \in 1..NChunks |-> FlatStep(g, s, i)]
    <3>1. ASSUME NEW i \in 1..NChunks PROVE Snap(i) = FlatStep(g, s, i)
      <4>1. i = 1 \/ i - 1 \in 1..NChunks
        BY <1>1
      <4> QED BY <2>2, <4>1 DEF FlatStep
    <3> QED BY <3>1
  <2>4. f = [i \in 1..NChunks |-> FlatStep(f, s, i)]
    <3> HIDE DEF g
    <3> QED BY <2>3
  <2> HIDE DEF f
  <2>5. \A i \in 1..NChunks : f[i] = FlatStep(f, s, i)
    BY <2>4
  <2> DEFINE T == {i \in 1..NChunks : f[i] # Snap(i)}
  <2>6. T = {}
    <3> SUFFICES ASSUME T # {} PROVE FALSE
      OBVIOUS
    <3>1. PICK i \in T : \A y \in T : i <= y
      <4>1. T \subseteq Nat
        OBVIOUS
      <4> HIDE DEF T
      <4> QED BY <4>1, Least
    <3>2. i = 1 \/ (i - 1 \in 1..NChunks /\ ~(i <= i - 1))
      BY <1>1
    <3>3. i = 1 \/ f[i - 1] = Snap(i - 1)
      BY <3>1, <3>2
    <3>4. f[i] = Snap(i)
      BY <2>2, <2>5, <3>3 DEF FlatStep
    <3> QED BY <3>4
  <2>7. NChunks \in 1..NChunks
    BY <1>1, <1>5
  <2> QED BY <1>3, <2>1, <2>6, <2>7
<1> QED BY <1>4, <1>5

------------------------------------------------------------------------------
(* The steps, one part of the invariant after the other.                     *)

LEMMA ShapesStep ==
  ASSUME DumpInv, [DumpNext]_dumpVars
  PROVE  Shapes'
<1> USE DumpAssumption DEF DumpInv, Shapes
<1>1. CASE take_memory_deep_dump
  BY <1>1 DEF take_memory_deep_dump, At, Detects, outside
<1>2. CASE JcmdMissing
  BY <1>2 DEF JcmdMissing, At, To, Put, Unlink, outside, Dest, DumpFiles
<1>3. CASE JcmdFails
  BY <1>3 DEF JcmdFails, At, To, Put, Unlink, outside, Dest, DumpFiles
<1>4. CASE is_jvm
  BY <1>4 DEF is_jvm, At, To, Put, Unlink, outside, Dest, DumpFiles
<1>5. CASE RemoveDest
  BY <1>5 DEF RemoveDest, At, To, Put, Unlink, outside, Dest, DumpFiles
<1>6. CASE HeapDumpStarts
  BY <1>6 DEF HeapDumpStarts, At, To, Put, Unlink, outside, Dest, DumpFiles
<1>7. CASE HeapDumpWrites
  BY <1>7 DEF HeapDumpWrites, At, To, Put, Unlink, outside, Dest, DumpFiles
<1>8. CASE take_heap_dump
  BY <1>8 DEF take_heap_dump, At, To, Put, Unlink, outside, Dest, DumpFiles
<1>9. CASE Signal
  BY <1>9 DEF Signal, At, To, Put, Unlink, outside, Dest, DumpFiles
<1>10. CASE InspectorOpens
  BY <1>10 DEF InspectorOpens, At, To, Put, Unlink, outside, Dest, DumpFiles
<1>11. CASE wait_for_inspector
  BY <1>11 DEF wait_for_inspector, At, To, Put, Unlink, outside, Dest, DumpFiles
<1>12. CASE Handshake
  BY <1>12 DEF Handshake, At, To, Put, Unlink, outside, Dest, DumpFiles
<1>13. CASE SnapshotFails
  BY <1>13 DEF SnapshotFails, At, To, Put, Unlink, outside, Dest, DumpFiles
<1>14. CASE SendChunk
  <2>1. \/ ins' = [ins EXCEPT !.chunk = ins.chunk + 1]
        \/ ins' = [ins EXCEPT !.frag = 2]
        \/ ins' = [ins EXCEPT !.chunk = ins.chunk + 1, !.frag = 1]
    BY <1>14 DEF SendChunk
  <2>2. UNCHANGED <<tgt, fs, dump, traceLen>>
    BY <1>14 DEF SendChunk
  <2>3. DOMAIN ins' = {"pc", "chunk", "frag", "extra"} /\ ins'.chunk \in Nat /\ ins'.frag \in {1, 2}
    <3>1. CASE ins' = [ins EXCEPT !.chunk = ins.chunk + 1]
      BY <3>1
    <3>2. CASE ins' = [ins EXCEPT !.frag = 2]
      BY <3>2
    <3>3. CASE ins' = [ins EXCEPT !.chunk = ins.chunk + 1, !.frag = 1]
      BY <3>3
    <3> QED BY <2>1, <3>1, <3>2, <3>3
  <2> QED BY <2>2, <2>3
<1>15. CASE SendOther
  BY <1>15 DEF SendOther, At, To, Put, Unlink, outside, Dest, DumpFiles
<1>16. CASE SendResponse
  BY <1>16 DEF SendResponse, At, To, Put, Unlink, outside, Dest, DumpFiles
<1>17. CASE read_frame
  BY <1>17 DEF read_frame, At, To, Put, Unlink, outside, Dest, DumpFiles
<1>18. CASE FlushSnapshot
  BY <1>18 DEF FlushSnapshot, At, To, Put, Unlink, outside, Dest, DumpFiles
<1>19. CASE TraceSaved
  <2>1. CASE At("none") /\ dump' = [dump EXCEPT !.todo = 1, !.pc = "end"] /\ Put("trace", Cells("t", traceLen))
    BY <1>19, <2>1 DEF TraceSaved, At, To, Put, Unlink, outside, DumpFiles
  <2>2. CASE At("taken") /\ dump.rt = "jvm" /\ dump' = [dump EXCEPT !.todo = 1, !.pc = "create"]
             /\ Put("trace", Cells("t", traceLen))
    BY <1>19, <2>2 DEF TraceSaved, At, To, Put, Unlink, outside, DumpFiles
  <2>3. CASE At("taken") /\ dump.rt # "jvm" /\ dump' = [dump EXCEPT !.todo = 1, !.pc = "place"]
             /\ Put("trace", Cells("t", traceLen))
    BY <1>19, <2>3 DEF TraceSaved, At, To, Put, Unlink, outside, DumpFiles
  <2>4. CASE To("end") /\ fs' = [fs EXCEPT !["tmp"] = Gone]
    BY <1>19, <2>4 DEF TraceSaved, At, To, Put, outside, DumpFiles
  <2>5. CASE To("end") /\ fs' = fs
    BY <1>19, <2>5 DEF TraceSaved, At, To, Put, outside, DumpFiles
  <2> QED BY <1>19, <2>1, <2>2, <2>3, <2>4, <2>5 DEF TraceSaved, At, Unlink
<1>20. CASE place_sibling
  BY <1>20 DEF place_sibling, At, To, Put, Unlink, outside, Dest, DumpFiles
<1>21. CASE CreateBundle
  BY <1>21 DEF CreateBundle, At, To, Put, Unlink, outside, Dest, DumpFiles
<1>22. CASE WriteMember
  BY <1>22 DEF WriteMember, At, To, Put, Unlink, outside, Dest, DumpFiles
<1>23. CASE BundleFails
  BY <1>23 DEF BundleFails, At, To, Put, Unlink, outside, Dest, DumpFiles
<1>24. CASE EndArchive
  BY <1>24 DEF EndArchive, At, To, Put, Unlink, outside, Dest, DumpFiles
<1>25. CASE RenameBundle
  BY <1>25 DEF RenameBundle, At, To, Put, Unlink, outside, Dest, DumpFiles
<1>26. CASE RemoveTmp
  BY <1>26 DEF RemoveTmp, At, To, Put, Unlink, outside, Dest, DumpFiles
<1>27. CASE TargetExits
  BY <1>27 DEF TargetExits, At, To, Put, Unlink, outside, Dest, DumpFiles
<1>28. CASE RecorderDies
  BY <1>28 DEF RecorderDies, At, To, Put, Unlink, outside, Dest, DumpFiles
<1>29. CASE UNCHANGED dumpVars
  BY <1>29 DEF dumpVars
<1> QED BY <1>1, <1>2, <1>3, <1>4, <1>5, <1>6, <1>7, <1>8, <1>9, <1>10, <1>11, <1>12, <1>13,
       <1>14, <1>15, <1>16, <1>17, <1>18, <1>19, <1>20, <1>21, <1>22, <1>23, <1>24, <1>25,
       <1>26, <1>27, <1>28, <1>29 DEF DumpNext

LEMMA RuntimesStep ==
  ASSUME DumpInv, [DumpNext]_dumpVars
  PROVE  Runtimes'
<1> USE DEF DumpInv, Shapes, Runtimes
<1>1. CASE take_memory_deep_dump
  BY <1>1 DEF take_memory_deep_dump, At, Detects, outside
<1>2. CASE JcmdMissing
  BY <1>2 DEF JcmdMissing, At, To, Put, Unlink, outside, Dest, DumpFiles
<1>3. CASE JcmdFails
  BY <1>3 DEF JcmdFails, At, To, Put, Unlink, outside, Dest, DumpFiles
<1>4. CASE is_jvm
  BY <1>4 DEF is_jvm, At, To, Put, Unlink, outside, Dest, DumpFiles
<1>5. CASE RemoveDest
  BY <1>5 DEF RemoveDest, At, To, Put, Unlink, outside, Dest, DumpFiles
<1>6. CASE HeapDumpStarts
  BY <1>6 DEF HeapDumpStarts, At, To, Put, Unlink, outside, Dest, DumpFiles
<1>7. CASE HeapDumpWrites
  BY <1>7 DEF HeapDumpWrites, At, To, Put, Unlink, outside, Dest, DumpFiles
<1>8. CASE take_heap_dump
  BY <1>8 DEF take_heap_dump, At, To, Put, Unlink, outside, Dest, DumpFiles
<1>9. CASE Signal
  BY <1>9 DEF Signal, At, To, Put, Unlink, outside, Dest, DumpFiles
<1>10. CASE InspectorOpens
  BY <1>10 DEF InspectorOpens, At, To, Put, Unlink, outside, Dest, DumpFiles
<1>11. CASE wait_for_inspector
  BY <1>11 DEF wait_for_inspector, At, To, Put, Unlink, outside, Dest, DumpFiles
<1>12. CASE Handshake
  BY <1>12 DEF Handshake, At, To, Put, Unlink, outside, Dest, DumpFiles
<1>13. CASE SnapshotFails
  BY <1>13 DEF SnapshotFails, At, To, Put, Unlink, outside, Dest, DumpFiles
<1>14. CASE SendChunk
  BY <1>14 DEF SendChunk, At, To, Put, Unlink, outside, Dest, DumpFiles
<1>15. CASE SendOther
  BY <1>15 DEF SendOther, At, To, Put, Unlink, outside, Dest, DumpFiles
<1>16. CASE SendResponse
  BY <1>16 DEF SendResponse, At, To, Put, Unlink, outside, Dest, DumpFiles
<1>17. CASE read_frame
  BY <1>17 DEF read_frame, At, To, Put, Unlink, outside, Dest, DumpFiles
<1>18. CASE FlushSnapshot
  BY <1>18 DEF FlushSnapshot, At, To, Put, Unlink, outside, Dest, DumpFiles
<1>19. CASE TraceSaved
  BY <1>19, ZenonT(60) DEF TraceSaved, At, To, Put, Unlink, outside, Dest, DumpFiles
<1>20. CASE place_sibling
  BY <1>20 DEF place_sibling, At, To, Put, Unlink, outside, Dest, DumpFiles
<1>21. CASE CreateBundle
  BY <1>21 DEF CreateBundle, At, To, Put, Unlink, outside, Dest, DumpFiles
<1>22. CASE WriteMember
  BY <1>22 DEF WriteMember, At, To, Put, Unlink, outside, Dest, DumpFiles
<1>23. CASE BundleFails
  BY <1>23 DEF BundleFails, At, To, Put, Unlink, outside, Dest, DumpFiles
<1>24. CASE EndArchive
  BY <1>24 DEF EndArchive, At, To, Put, Unlink, outside, Dest, DumpFiles
<1>25. CASE RenameBundle
  BY <1>25 DEF RenameBundle, At, To, Put, Unlink, outside, Dest, DumpFiles
<1>26. CASE RemoveTmp
  BY <1>26 DEF RemoveTmp, At, To, Put, Unlink, outside, Dest, DumpFiles
<1>27. CASE TargetExits
  BY <1>27 DEF TargetExits, At, To, Put, Unlink, outside, Dest, DumpFiles
<1>28. CASE RecorderDies
  BY <1>28 DEF RecorderDies, At, To, Put, Unlink, outside, Dest, DumpFiles
<1>29. CASE UNCHANGED dumpVars
  BY <1>29 DEF dumpVars
<1> QED BY <1>1, <1>2, <1>3, <1>4, <1>5, <1>6, <1>7, <1>8, <1>9, <1>10, <1>11, <1>12, <1>13,
       <1>14, <1>15, <1>16, <1>17, <1>18, <1>19, <1>20, <1>21, <1>22, <1>23, <1>24, <1>25,
       <1>26, <1>27, <1>28, <1>29 DEF DumpNext

LEMMA SpooledStep ==
  ASSUME DumpInv, [DumpNext]_dumpVars
  PROVE  Spooled'
<1> USE DEF DumpInv, Shapes, Runtimes, Spooled, Streamed, JvmDump
<1>1. CASE take_memory_deep_dump
  BY <1>1 DEF take_memory_deep_dump, At, Detects, outside
<1>2. CASE JcmdMissing
  BY <1>2 DEF JcmdMissing, At, To, Put, Unlink, outside, Dest, DumpFiles
<1>3. CASE JcmdFails
  BY <1>3 DEF JcmdFails, At, To, Put, Unlink, outside, Dest, DumpFiles
<1>4. CASE is_jvm
  BY <1>4 DEF is_jvm, At, To, Put, Unlink, outside, Dest, DumpFiles
<1>5. CASE RemoveDest
  BY <1>5 DEF RemoveDest, At, To, Put, Unlink, outside, Dest, DumpFiles
<1>6. CASE HeapDumpStarts
  BY <1>6 DEF HeapDumpStarts, At, To, Put, Unlink, outside, Dest, DumpFiles
<1>7. CASE HeapDumpWrites
  BY <1>7 DEF HeapDumpWrites, At, To, Put, Unlink, outside, Dest, DumpFiles
<1>8. CASE take_heap_dump
  BY <1>8 DEF take_heap_dump, At, To, Put, Unlink, outside, Dest, DumpFiles
<1>9. CASE Signal
  BY <1>9 DEF Signal, At, To, Put, Unlink, outside, Dest, DumpFiles
<1>10. CASE InspectorOpens
  BY <1>10 DEF InspectorOpens, At, To, Put, Unlink, outside, Dest, DumpFiles
<1>11. CASE wait_for_inspector
  BY <1>11 DEF wait_for_inspector, At, To, Put, Unlink, outside, Dest, DumpFiles
<1>12. CASE Handshake
  BY <1>12 DEF Handshake, At, To, Put, Unlink, outside, Dest, DumpFiles
<1>13. CASE SnapshotFails
  BY <1>13 DEF SnapshotFails, At, To, Put, Unlink, outside, Dest, DumpFiles
<1>14. CASE SendChunk
  <2>1. UNCHANGED <<tgt, fs, dump>> /\ (lossy' \/ lossy' = lossy)
    BY <1>14 DEF SendChunk
  <2> QED BY <2>1
<1>15. CASE SendOther
  BY <1>15 DEF SendOther, At, To, Put, Unlink, outside, Dest, DumpFiles
<1>16. CASE SendResponse
  BY <1>16 DEF SendResponse, At, To, Put, Unlink, outside, Dest, DumpFiles
<1>17. CASE read_frame
  BY <1>17 DEF read_frame, At, To, Put, Unlink, outside, Dest, DumpFiles
<1>18. CASE FlushSnapshot
  BY <1>18 DEF FlushSnapshot, At, To, Put, Unlink, outside, Dest, DumpFiles
<1>19. CASE TraceSaved
  <2>1. CASE At("none") /\ dump' = [dump EXCEPT !.todo = 1, !.pc = "end"] /\ Put("trace", Cells("t", traceLen))
    BY <1>19, <2>1 DEF TraceSaved, At, To, Put, Unlink, outside, DumpFiles
  <2>2. CASE At("taken") /\ dump.rt = "jvm" /\ dump' = [dump EXCEPT !.todo = 1, !.pc = "create"]
             /\ Put("trace", Cells("t", traceLen))
    BY <1>19, <2>2 DEF TraceSaved, At, To, Put, Unlink, outside, DumpFiles
  <2>3. CASE At("taken") /\ dump.rt # "jvm" /\ dump' = [dump EXCEPT !.todo = 1, !.pc = "place"]
             /\ Put("trace", Cells("t", traceLen))
    BY <1>19, <2>3 DEF TraceSaved, At, To, Put, Unlink, outside, DumpFiles
  <2>4. CASE To("end") /\ fs' = [fs EXCEPT !["tmp"] = Gone]
    BY <1>19, <2>4 DEF TraceSaved, At, To, Put, outside, DumpFiles
  <2>5. CASE To("end") /\ fs' = fs
    BY <1>19, <2>5 DEF TraceSaved, At, To, Put, outside, DumpFiles
  <2> QED BY <1>19, <2>1, <2>2, <2>3, <2>4, <2>5 DEF TraceSaved, At, Unlink
<1>20. CASE place_sibling
  BY <1>20 DEF place_sibling, At, To, Put, Unlink, outside, Dest, DumpFiles
<1>21. CASE CreateBundle
  BY <1>21 DEF CreateBundle, At, To, Put, Unlink, outside, Dest, DumpFiles
<1>22. CASE WriteMember
  BY <1>22 DEF WriteMember, At, To, Put, Unlink, outside, Dest, DumpFiles
<1>23. CASE BundleFails
  BY <1>23 DEF BundleFails, At, To, Put, Unlink, outside, Dest, DumpFiles
<1>24. CASE EndArchive
  BY <1>24 DEF EndArchive, At, To, Put, Unlink, outside, Dest, DumpFiles
<1>25. CASE RenameBundle
  BY <1>25 DEF RenameBundle, At, To, Put, Unlink, outside, Dest, DumpFiles
<1>26. CASE RemoveTmp
  BY <1>26 DEF RemoveTmp, At, To, Put, Unlink, outside, Dest, DumpFiles
<1>27. CASE TargetExits
  BY <1>27 DEF TargetExits, At, To, Put, Unlink, outside, Dest, DumpFiles
<1>28. CASE RecorderDies
  BY <1>28 DEF RecorderDies, At, To, Put, Unlink, outside, Dest, DumpFiles
<1>29. CASE UNCHANGED dumpVars
  BY <1>29 DEF dumpVars
<1> QED BY <1>1, <1>2, <1>3, <1>4, <1>5, <1>6, <1>7, <1>8, <1>9, <1>10, <1>11, <1>12, <1>13,
       <1>14, <1>15, <1>16, <1>17, <1>18, <1>19, <1>20, <1>21, <1>22, <1>23, <1>24, <1>25,
       <1>26, <1>27, <1>28, <1>29 DEF DumpNext

LEMMA UnaskedStep ==
  ASSUME DumpInv, [DumpNext]_dumpVars
  PROVE  Unasked'
<1> USE DEF DumpInv, Shapes, Unasked
<1>1. CASE take_memory_deep_dump
  BY <1>1 DEF take_memory_deep_dump, At, Detects, outside
<1>2. CASE JcmdMissing
  BY <1>2 DEF JcmdMissing, At, To, Put, Unlink, outside, Dest, DumpFiles
<1>3. CASE JcmdFails
  BY <1>3 DEF JcmdFails, At, To, Put, Unlink, outside, Dest, DumpFiles
<1>4. CASE is_jvm
  BY <1>4 DEF is_jvm, At, To, Put, Unlink, outside, Dest, DumpFiles
<1>5. CASE RemoveDest
  BY <1>5 DEF RemoveDest, At, To, Put, Unlink, outside, Dest, DumpFiles
<1>6. CASE HeapDumpStarts
  BY <1>6 DEF HeapDumpStarts, At, To, Put, Unlink, outside, Dest, DumpFiles
<1>7. CASE HeapDumpWrites
  BY <1>7 DEF HeapDumpWrites, At, To, Put, Unlink, outside, Dest, DumpFiles
<1>8. CASE take_heap_dump
  BY <1>8 DEF take_heap_dump, At, To, Put, Unlink, outside, Dest, DumpFiles
<1>9. CASE Signal
  BY <1>9 DEF Signal, At, To, Put, Unlink, outside, Dest, DumpFiles
<1>10. CASE InspectorOpens
  BY <1>10 DEF InspectorOpens, At, To, Put, Unlink, outside, Dest, DumpFiles
<1>11. CASE wait_for_inspector
  BY <1>11 DEF wait_for_inspector, At, To, Put, Unlink, outside, Dest, DumpFiles
<1>12. CASE Handshake
  BY <1>12 DEF Handshake, At, To, Put, Unlink, outside, Dest, DumpFiles
<1>13. CASE SnapshotFails
  BY <1>13 DEF SnapshotFails, At, To, Put, Unlink, outside, Dest, DumpFiles
<1>14. CASE SendChunk
  <2>1. ins.pc = "send" /\ UNCHANGED dump
    BY <1>14 DEF SendChunk, Sends
  <2> QED BY <2>1 DEF Quiet
<1>15. CASE SendOther
  <2>1. ins.pc = "send" /\ UNCHANGED dump
    BY <1>15 DEF SendOther, Sends
  <2> QED BY <2>1 DEF Quiet
<1>16. CASE SendResponse
  <2>1. ins.pc = "send" /\ UNCHANGED dump
    BY <1>16 DEF SendResponse, Sends
  <2> QED BY <2>1 DEF Quiet
<1>17. CASE read_frame
  BY <1>17 DEF read_frame, At, To, Put, Unlink, outside, Dest, DumpFiles
<1>18. CASE FlushSnapshot
  BY <1>18 DEF FlushSnapshot, At, To, Put, Unlink, outside, Dest, DumpFiles
<1>19. CASE TraceSaved
  <2>1. CASE At("none") /\ dump' = [dump EXCEPT !.todo = 1, !.pc = "end"] /\ Put("trace", Cells("t", traceLen))
    BY <1>19, <2>1 DEF TraceSaved, At, To, Put, Unlink, outside, DumpFiles
  <2>2. CASE At("taken") /\ dump.rt = "jvm" /\ dump' = [dump EXCEPT !.todo = 1, !.pc = "create"]
             /\ Put("trace", Cells("t", traceLen))
    BY <1>19, <2>2 DEF TraceSaved, At, To, Put, Unlink, outside, DumpFiles
  <2>3. CASE At("taken") /\ dump.rt # "jvm" /\ dump' = [dump EXCEPT !.todo = 1, !.pc = "place"]
             /\ Put("trace", Cells("t", traceLen))
    BY <1>19, <2>3 DEF TraceSaved, At, To, Put, Unlink, outside, DumpFiles
  <2>4. CASE To("end") /\ fs' = [fs EXCEPT !["tmp"] = Gone]
    BY <1>19, <2>4 DEF TraceSaved, At, To, Put, outside, DumpFiles
  <2>5. CASE To("end") /\ fs' = fs
    BY <1>19, <2>5 DEF TraceSaved, At, To, Put, outside, DumpFiles
  <2> QED BY <1>19, <2>1, <2>2, <2>3, <2>4, <2>5 DEF TraceSaved, At, Unlink
<1>20. CASE place_sibling
  BY <1>20 DEF place_sibling, At, To, Put, Unlink, outside, Dest, DumpFiles
<1>21. CASE CreateBundle
  BY <1>21 DEF CreateBundle, At, To, Put, Unlink, outside, Dest, DumpFiles
<1>22. CASE WriteMember
  BY <1>22 DEF WriteMember, At, To, Put, Unlink, outside, Dest, DumpFiles
<1>23. CASE BundleFails
  BY <1>23 DEF BundleFails, At, To, Put, Unlink, outside, Dest, DumpFiles
<1>24. CASE EndArchive
  BY <1>24 DEF EndArchive, At, To, Put, Unlink, outside, Dest, DumpFiles
<1>25. CASE RenameBundle
  BY <1>25 DEF RenameBundle, At, To, Put, Unlink, outside, Dest, DumpFiles
<1>26. CASE RemoveTmp
  BY <1>26 DEF RemoveTmp, At, To, Put, Unlink, outside, Dest, DumpFiles
<1>27. CASE TargetExits
  BY <1>27 DEF TargetExits, At, To, Put, Unlink, outside, Dest, DumpFiles
<1>28. CASE RecorderDies
  BY <1>28 DEF RecorderDies, At, To, Put, Unlink, outside, Dest, DumpFiles
<1>29. CASE UNCHANGED dumpVars
  BY <1>29 DEF dumpVars
<1> QED BY <1>1, <1>2, <1>3, <1>4, <1>5, <1>6, <1>7, <1>8, <1>9, <1>10, <1>11, <1>12, <1>13,
       <1>14, <1>15, <1>16, <1>17, <1>18, <1>19, <1>20, <1>21, <1>22, <1>23, <1>24, <1>25,
       <1>26, <1>27, <1>28, <1>29 DEF DumpNext

------------------------------------------------------------------------------
(* The inspector's messages.                                                 *)

LEMMA OnesJoined ==
  ASSUME NEW x, NEW y
  PROVE  <<x>> \o <<y>> = <<x, y>> /\ <<x>> \o <<>> = <<x>>
<1>1. <<x>> \in Seq({x, y}) /\ <<y>> \in Seq({x, y})
  OBVIOUS
<1> DEFINE s == <<x>> \o <<y>>
           t == <<x, y>>
<1>2. s \in Seq({x, y}) /\ Len(s) = 2 /\ s[1] = x /\ s[2] = y
  BY <1>1
<1>3. t \in Seq({x, y}) /\ Len(t) = 2 /\ t[1] = x /\ t[2] = y
  OBVIOUS
<1> HIDE DEF s, t
<1>4. \A k \in 1..2 : s[k] = t[k]
  BY <1>2, <1>3
<1>5. s = t
  BY <1>2, <1>3, <1>4
<1>6. <<x>> \o <<>> = <<x>>
  BY <1>1
<1> QED BY <1>5, <1>6 DEF s, t

LEMMA ExtractIs ==
  /\ \A i \in Nat : extract_json_string(<<Part(i, 1), Part(i, 2)>>) = <<Part(i, 1), Part(i, 2)>>
  /\ extract_json_string(<<<<"note">>>>) = <<>> /\ ~Contains(<<<<"note">>>>, <<"id1">>)
  /\ extract_json_string(<<<<"id1">>>>) = <<>> /\ Contains(<<<<"id1">>>>, <<"id1">>)
<1>1. ASSUME NEW i \in Nat
      PROVE  extract_json_string(<<Part(i, 1), Part(i, 2)>>) = <<Part(i, 1), Part(i, 2)>>
  <2> DEFINE m == <<Part(i, 1), Part(i, 2)>>
  <2>1. m # <<>> /\ m[1] = Part(i, 1) /\ Last(m) = Part(i, 2)
    BY DEF Last
  <2> HIDE DEF m
  <2>2. IsChunk(m) /\ Last(m)[1] = "chunk" /\ Last(m)[3] = 2
    BY <2>1 DEF IsChunk, Part
  <2> QED BY <2>2 DEF extract_json_string, m
<1>2. ~IsChunk(<<<<"note">>>>) /\ ~IsChunk(<<<<"id1">>>>)
  BY DEF IsChunk
<1>3. <<"note">> # <<"id1">>
  OBVIOUS
<1>4. ~Contains(<<<<"note">>>>, <<"id1">>) /\ Contains(<<<<"id1">>>>, <<"id1">>)
  BY <1>3 DEF Contains
<1> QED BY <1>1, <1>2, <1>4 DEF extract_json_string

LEMMA AddedIs ==
  ASSUME NEW n \in Nat
  PROVE  /\ Snap(n) \o <<Part(n + 1, 1), Part(n + 1, 2)>> = Snap(n + 1)
         /\ Snap(n) \o <<>> = Snap(n)
         /\ Half(n) \o <<Part(n, 2)>> = <<Part(n, 1), Part(n, 2)>>
         /\ <<>> \o Half(n) = Half(n)
<1>1. Snap(n) \o <<Part(n + 1, 1), Part(n + 1, 2)>> = Snap(n + 1)
  BY SnapIs DEF Pair
<1>2. Snap(n) \o <<>> = Snap(n)
  <2>1. Snap(n) \in Seq(PartCells)
    BY SnapIs
  <2> HIDE DEF Snap, PartCells
  <2> QED BY <2>1
<1>3. Half(n) \o <<Part(n, 2)>> = <<Part(n, 1), Part(n, 2)>> /\ <<>> \o Half(n) = Half(n)
  <2>1. <<Part(n, 1)>> \o <<Part(n, 2)>> = <<Part(n, 1), Part(n, 2)>>
    BY OnesJoined, Zenon
  <2>2. ASSUME NEW x PROVE <<>> \o <<x>> = <<x>>
    <3>1. <<x>> \in Seq({x})
      OBVIOUS
    <3> QED BY <3>1
  <2> QED BY <2>1, <2>2 DEF Half
<1> QED BY <1>1, <1>2, <1>3

(* A frame is sent when the last has been read.                              *)
LEMMA SendsFrom ==
  ASSUME DumpInv, dump.pc = "read", ~lossy, NEW f, Sends(f)
  PROVE  /\ wire' = <<f>> /\ ins.pc = "send" /\ ins.chunk \in 1..NChunks + 1
         /\ Read(ins.chunk - 1, IF ins.frag = 2 THEN Half(ins.chunk) ELSE <<>>)
         /\ ins.frag = 2 => ins.chunk <= NChunks
<1>1. InStep /\ ins.chunk \in 1..NChunks + 1
  BY DEF DumpInv, Streamed
<1>2. \A x : Len(<<x>>) = 1
  OBVIOUS
<1>3. \A x : wire # <<x>>
  BY <1>2 DEF Sends
<1>4. /\ wire = <<>> /\ ins.pc = "send"
      /\ Read(ins.chunk - 1, IF ins.frag = 2 THEN Half(ins.chunk) ELSE <<>>)
      /\ ins.frag = 2 => ins.chunk <= NChunks
  BY <1>1, <1>3, Zenon DEF InStep
<1>5. Append(<<>>, f) = <<f>>
  OBVIOUS
<1> QED BY <1>1, <1>4, <1>5 DEF Sends

(* What is sent continues what was read.                                     *)
LEMMA StreamSent ==
  ASSUME DumpInv, SendChunk \/ SendOther \/ SendResponse
  PROVE  Streamed'
<1> USE DumpAssumption DEF DumpInv, Shapes
<1>1. UNCHANGED dump /\ (lossy' \/ lossy' = lossy \/ (lossy' = (lossy \/ ins.chunk <= NChunks)))
  BY DEF SendChunk, SendOther, SendResponse
<1>2. (dump.pc = "flush" /\ ~lossy => dump.out = Snap(NChunks))'
  BY <1>1 DEF Streamed
<1> SUFFICES ASSUME dump.pc = "read", ~lossy' PROVE InStep' /\ ins'.chunk \in 1..NChunks + 1
  BY <1>1, <1>2 DEF Streamed
<1>3. ~lossy
  BY <1>1
<1> DEFINE c == ins.chunk
           Sent == c \in 1..NChunks + 1 /\ ins.pc = "send"
<1>4. ASSUME NEW f, Sends(f), ins.frag = 1 PROVE wire' = <<f>> /\ Sent /\ Read(c - 1, <<>>)
  BY <1>3, <1>4, SendsFrom
<1>5. ASSUME NEW f, Sends(f), ins.frag = 2 PROVE wire' = <<f>> /\ Sent /\ Read(c - 1, Half(c)) /\ c <= NChunks
  BY <1>3, <1>5, SendsFrom
<1>6. \A n, m : Read(n, m)' <=> Read(n, m)
  BY <1>1 DEF Read
<1>7. CASE ins.frag = 1 /\ Sends(Frame("text", TRUE, <<Part(c, 1), Part(c, 2)>>))
           /\ ins' = [ins EXCEPT !.chunk = c + 1] /\ c <= NChunks
  <2>1. wire' = <<Frame("text", TRUE, <<Part(c, 1), Part(c, 2)>>)>> /\ Sent /\ Read(c - 1, <<>>)
    BY <1>4, <1>7
  <2>2. ins'.chunk = c + 1 /\ ins'.frag = 1 /\ ins'.pc = "send"
    BY <1>7, <2>1
  <2>5. c \in Nat /\ c >= 1 /\ c <= NChunks /\ NChunks \in Nat
    BY <1>7, <2>1
  <2>6. ins'.chunk = c + 1
    BY <2>2
  <2> HIDE DEF c
  <2>3. ins'.chunk - 1 = c /\ ins'.chunk - 2 = c - 1 /\ ins'.chunk >= 2 /\ ins'.chunk \in 1..NChunks + 1
    BY ONLY <2>5, <2>6
  <2> USE DEF c
  <2>4. Read(ins.chunk - 2, <<>>)'
    BY <1>6, <2>1, <2>3
  <2> QED BY <2>1, <2>2, <2>3, <2>4 DEF InStep
<1>8. CASE ins.frag = 1 /\ Sends(Frame("text", FALSE, <<Part(c, 1)>>)) /\ ins' = [ins EXCEPT !.frag = 2]
           /\ c <= NChunks
  <2>1. wire' = <<Frame("text", FALSE, Half(c))>> /\ Sent /\ Read(c - 1, <<>>)
    BY <1>4, <1>8 DEF Half
  <2>2. ins'.chunk = c /\ ins'.frag = 2 /\ ins'.pc = "send"
    BY <1>8, <2>1
  <2> QED BY <1>6, <1>8, <2>1, <2>2 DEF InStep
<1>9. CASE ins.frag = 2 /\ Sends(Frame("continuation", TRUE, <<Part(c, 2)>>))
           /\ ins' = [ins EXCEPT !.chunk = c + 1, !.frag = 1]
  <2>1. wire' = <<Frame("continuation", TRUE, <<Part(c, 2)>>)>> /\ Sent /\ Read(c - 1, Half(c)) /\ c <= NChunks
    BY <1>5, <1>9
  <2>2. ins'.chunk = c + 1 /\ ins'.frag = 1 /\ ins'.pc = "send"
    BY <1>9, <2>1
  <2>3. ins'.chunk - 1 = c /\ ins'.chunk - 2 = c - 1 /\ ins'.chunk >= 2 /\ ins'.chunk \in 1..NChunks + 1
    BY <2>1, <2>2
  <2>4. Read(ins.chunk - 2, Half(ins.chunk - 1))'
    BY <1>6, <2>1, <2>3 DEF Read, Half
  <2> QED BY <2>1, <2>2, <2>3, <2>4 DEF InStep
<1>10. CASE SendChunk
  BY <1>7, <1>8, <1>9, <1>10 DEF SendChunk
<1>11. CASE SendOther
  <2>1. ins' = [ins EXCEPT !.extra = @ + 1]
    BY <1>11 DEF SendOther
  <2>2. ins'.pc = ins.pc /\ ins'.chunk = c /\ ins'.frag = ins.frag
    BY <2>1
  <2>3. ASSUME NEW f \in Control, Sends(f) PROVE InStep' /\ ins'.chunk \in 1..NChunks + 1
    BY <1>4, <1>5, <1>6, <2>2, <2>3 DEF InStep
  <2>4. ASSUME ins.frag = 1, Sends(Note) PROVE InStep' /\ ins'.chunk \in 1..NChunks + 1
    BY <1>4, <1>6, <2>2, <2>4 DEF InStep
  <2> QED BY <1>11, <2>3, <2>4 DEF SendOther, Control, Note
<1>12. CASE SendResponse
  <2>1. ins.frag = 1 /\ Sends(Reply) /\ ins' = [ins EXCEPT !.pc = "done"] /\ ~(c <= NChunks)
    BY <1>12 DEF SendResponse, Reply
  <2>2. wire' = <<Reply>> /\ Sent /\ Read(c - 1, <<>>)
    BY <1>4, <2>1
  <2>3. ins'.pc = "done" /\ ins'.chunk = c /\ c = NChunks + 1
    BY <2>1, <2>2
  <2>4. c - 1 = NChunks
    BY <2>3
  <2> QED BY <1>6, <2>2, <2>3, <2>4 DEF InStep
<1> QED BY <1>10, <1>11, <1>12

(* What is read is the part that was to come.                                *)
LEMMA StreamRead ==
  ASSUME DumpInv, read_frame
  PROVE  Streamed'
<1> USE DumpAssumption DEF DumpInv, Shapes
<1>1. At("read") /\ wire # <<>> /\ Head(wire).op # "close" /\ wire' = Tail(wire) /\ UNCHANGED <<ins, lossy>>
  BY DEF read_frame
<1> SUFFICES ASSUME ~lossy PROVE Streamed'
  BY <1>1 DEF Streamed
<1>2. InStep /\ ins.chunk \in 1..NChunks + 1
  BY <1>1 DEF Streamed, At
<1> DEFINE c == ins.chunk
<1>3. \A x : Head(<<x>>) = x /\ Tail(<<x>>) = <<>> /\ <<x>> # <<>>
  OBVIOUS
<1> DEFINE Kept(f) == dump' = [dump EXCEPT !.msg = Gather(f)]
           Complete(f) == LET m == Gather(f) IN
              dump' = [dump EXCEPT !.msg = <<>>, !.out = @ \o extract_json_string(m),
                        !.pc = IF extract_json_string(m) = <<>> /\ Contains(m, <<"id1">>)
                               THEN "flush" ELSE @]
<1>4. ASSUME NEW f, wire = <<f>>
      PROVE  /\ wire' = <<>> /\ f.op # "close"
             /\ IF f.fin /\ f.op \in {"text", "continuation"} THEN Complete(f) ELSE Kept(f)
  BY <1>1, <1>3, <1>4 DEF read_frame
<1>5. CASE wire = <<>> \/ (\E f \in Control : wire = <<f>>)
  <2>1. PICK f \in Control : wire = <<f>>
    BY <1>1, <1>5
  <2>2. f.op = "ping"
    <3>1. f.op # "close"
      BY <1>4, <2>1
    <3> QED BY <2>1, <3>1 DEF Control, Frame
  <2>3. wire' = <<>> /\ dump' = [dump EXCEPT !.msg = dump.msg]
    <3>1. Gather(f) = dump.msg /\ f.op \notin {"text", "continuation"}
      BY <2>2 DEF Gather
    <3>2. wire' = <<>> /\ Kept(f)
      BY <1>4, <2>1, <3>1
    <3> QED BY <3>1, <3>2
  <2>4. dump'.msg = dump.msg /\ dump'.out = dump.out /\ dump'.pc = "read"
    BY <1>1, <2>3 DEF At
  <2>5. ins.pc = "send" /\ Read(c - 1, IF ins.frag = 2 THEN Half(c) ELSE <<>>) /\ (ins.frag = 2 => c <= NChunks)
    <3>1. \A x : wire = <<x>> => x = f
      BY <1>3, <2>1
    <3>2. f.op = "ping" /\ Note.op = "text" /\ Reply.op = "text"
          /\ \A v, w : Frame("text", v, w).op = "text" /\ Frame("continuation", v, w).op = "continuation"
      BY <2>2 DEF Frame, Note, Reply
    <3> QED BY <1>2, <2>1, <3>1, <3>2, ZenonT(60) DEF InStep
  <2> QED BY <1>1, <1>2, <2>3, <2>4, <2>5 DEF Streamed, InStep, Read
<1>6. ASSUME NEW f, wire = <<f>>, f.op = "text", f.fin, Gather(f) \in {<<<<"note">>>>, <<<<"id1">>>>}
      PROVE  /\ wire' = <<>> /\ dump'.msg = <<>> /\ dump'.out = dump.out \o <<>>
             /\ dump'.pc = IF Gather(f) = <<<<"note">>>> THEN "read" ELSE "flush"
  <2>1. extract_json_string(Gather(f)) = <<>> /\ (Contains(Gather(f), <<"id1">>) <=> Gather(f) # <<<<"note">>>>)
    BY <1>6, ExtractIs
  <2> QED BY <1>1, <1>4, <1>6, <2>1, ZenonT(60) DEF At
<1>7. ASSUME NEW f, wire = <<f>>, f.op \in {"text", "continuation"}, f.fin,
             NEW i \in Nat, Gather(f) = <<Part(i, 1), Part(i, 2)>>
      PROVE  /\ wire' = <<>> /\ dump'.msg = <<>> /\ dump'.out = dump.out \o <<Part(i, 1), Part(i, 2)>>
             /\ dump'.pc = "read"
  <2>1. extract_json_string(Gather(f)) = <<Part(i, 1), Part(i, 2)>> /\ extract_json_string(Gather(f)) # <<>>
    BY <1>7, ExtractIs
  <2> QED BY <1>1, <1>4, <1>7, <2>1, ZenonT(60) DEF At
<1>8. CASE wire = <<Note>> /\ ins.pc = "send" /\ ins.frag = 1 /\ Read(c - 1, <<>>)
  <2>1. Note.op = "text" /\ Note.fin /\ Gather(Note) = <<<<"note">>>>
    BY <1>8 DEF Note, Frame, Gather, Read
  <2>2. wire' = <<>> /\ dump'.msg = <<>> /\ dump'.out = Snap(c - 1) /\ dump'.pc = "read"
    BY <1>2, <1>6, <1>8, <2>1, AddedIs DEF Read
  <2> QED BY <1>1, <1>2, <1>8, <2>2 DEF Streamed, InStep, Read
<1>9. CASE wire = <<Frame("text", FALSE, Half(c))>> /\ ins.pc = "send" /\ ins.frag = 2 /\ Read(c - 1, <<>>)
           /\ c <= NChunks
  <2> DEFINE f == Frame("text", FALSE, Half(c))
  <2>1. f.op = "text" /\ ~f.fin /\ Gather(f) = Half(c)
    BY <1>9, AddedIs DEF Frame, Gather, Read
  <2>2. wire' = <<>> /\ dump' = [dump EXCEPT !.msg = Half(c)]
    BY <1>4, <1>9, <2>1
  <2>3. dump'.msg = Half(c) /\ dump'.out = Snap(c - 1) /\ dump'.pc = "read"
    BY <1>1, <1>9, <2>2 DEF At, Read
  <2> QED BY <1>1, <1>2, <1>9, <2>2, <2>3 DEF Streamed, InStep, Read
<1>10. ASSUME NEW f, wire = <<f>>, f.op \in {"text", "continuation"}, f.fin, ins.pc = "send", ins.frag = 1,
              c >= 2, dump.out = Snap(c - 2), Gather(f) = <<Part(c - 1, 1), Part(c - 1, 2)>>
       PROVE  Streamed'
  <2>1. c - 1 \in Nat /\ c - 2 \in Nat /\ c - 1 = (c - 2) + 1
    BY <1>2, <1>10
  <2>2. wire' = <<>> /\ dump'.msg = <<>> /\ dump'.out = Snap(c - 2) \o <<Part(c - 1, 1), Part(c - 1, 2)>>
        /\ dump'.pc = "read"
    BY <1>7, <1>10, <2>1
  <2>3. dump'.out = Snap(c - 1)
    BY <2>1, <2>2, AddedIs
  <2>4. ins'.pc = "send" /\ ins'.frag = 1 /\ ins'.chunk = c
    BY <1>1, <1>10
  <2>5. Read(ins.chunk - 1, <<>>)'
    BY <2>2, <2>3, <2>4 DEF Read
  <2> QED BY <1>2, <2>2, <2>4, <2>5 DEF Streamed, InStep
<1>11. CASE wire = <<Frame("text", TRUE, <<Part(c - 1, 1), Part(c - 1, 2)>>)>>
            /\ ins.pc = "send" /\ ins.frag = 1 /\ c >= 2 /\ Read(c - 2, <<>>)
  <2> DEFINE f == Frame("text", TRUE, <<Part(c - 1, 1), Part(c - 1, 2)>>)
  <2>1. f.op = "text" /\ f.fin
    BY DEF Frame
  <2>2. Gather(f) = <<Part(c - 1, 1), Part(c - 1, 2)>>
    <3>1. ASSUME NEW x, NEW y PROVE <<>> \o <<x, y>> = <<x, y>>
      <4>1. <<x, y>> \in Seq({x, y})
        OBVIOUS
      <4> QED BY <4>1
    <3> QED BY <1>11, <3>1 DEF Frame, Gather, Read
  <2> QED BY <1>10, <1>11, <2>1, <2>2 DEF Read
<1>12. CASE wire = <<Frame("continuation", TRUE, <<Part(c - 1, 2)>>)>>
            /\ ins.pc = "send" /\ ins.frag = 1 /\ c >= 2 /\ Read(c - 2, Half(c - 1))
  <2> DEFINE f == Frame("continuation", TRUE, <<Part(c - 1, 2)>>)
  <2>1. f.op = "continuation" /\ f.fin /\ f.parts = <<Part(c - 1, 2)>>
    BY DEF Frame
  <2>2. Gather(f) = <<Part(c - 1, 1), Part(c - 1, 2)>>
    <3>1. c - 1 \in Nat
      BY <1>12
    <3> QED BY <1>12, <2>1, <3>1, AddedIs DEF Gather, Read
  <2> QED BY <1>10, <1>12, <2>1, <2>2 DEF Read
<1>13. CASE wire = <<Reply>> /\ ins.pc = "done" /\ Read(NChunks, <<>>)
  <2>1. Reply.op = "text" /\ Reply.fin /\ Gather(Reply) = <<<<"id1">>>>
    BY <1>13 DEF Reply, Frame, Gather, Read
  <2>2. <<<<"id1">>>> # <<<<"note">>>>
    OBVIOUS
  <2>3. dump'.out = Snap(NChunks) /\ dump'.pc = "flush"
    BY <1>6, <1>13, <2>1, <2>2, AddedIs DEF Read
  <2> QED BY <2>3 DEF Streamed
<1> QED BY <1>2, <1>5, <1>8, <1>9, <1>11, <1>12, <1>13 DEF InStep

(* The recorder asks once and from then on only reads.                       *)
LEMMA StreamedStep ==
  ASSUME DumpInv, [DumpNext]_dumpVars
  PROVE  Streamed'
<1> USE DEF DumpInv, Shapes
<1>1. CASE take_memory_deep_dump
  <2>1. dump'.pc \notin {"read", "flush"}
    BY <1>1 DEF take_memory_deep_dump, At, Detects, outside
  <2> QED BY <2>1 DEF Streamed
<1>2. CASE JcmdMissing
  <2>1. dump'.pc \notin {"read", "flush"}
    BY <1>2 DEF JcmdMissing, At, To, Put, Unlink, outside, Dest, DumpFiles
  <2> QED BY <2>1 DEF Streamed
<1>3. CASE JcmdFails
  <2>1. dump'.pc \notin {"read", "flush"}
    BY <1>3 DEF JcmdFails, At, To, Put, Unlink, outside, Dest, DumpFiles
  <2> QED BY <2>1 DEF Streamed
<1>4. CASE is_jvm
  <2>1. dump'.pc \notin {"read", "flush"}
    BY <1>4 DEF is_jvm, At, To, Put, Unlink, outside, Dest, DumpFiles
  <2> QED BY <2>1 DEF Streamed
<1>5. CASE RemoveDest
  <2>1. dump'.pc \notin {"read", "flush"}
    BY <1>5 DEF RemoveDest, At, To, Put, Unlink, outside, Dest, DumpFiles
  <2> QED BY <2>1 DEF Streamed
<1>6. CASE HeapDumpStarts
  <2>1. dump'.pc \notin {"read", "flush"}
    BY <1>6 DEF HeapDumpStarts, At, To, Put, Unlink, outside, Dest, DumpFiles
  <2> QED BY <2>1 DEF Streamed
<1>7. CASE HeapDumpWrites
  <2>1. dump'.pc \notin {"read", "flush"}
    BY <1>7 DEF HeapDumpWrites, At
  <2> QED BY <2>1 DEF Streamed
<1>8. CASE take_heap_dump
  <2>1. dump'.pc \notin {"read", "flush"}
    BY <1>8 DEF take_heap_dump, At, To, Put, Unlink, outside, Dest, DumpFiles
  <2> QED BY <2>1 DEF Streamed
<1>9. CASE Signal
  <2>1. dump'.pc \notin {"read", "flush"}
    BY <1>9 DEF Signal, At, To, Put, Unlink, outside, Dest, DumpFiles
  <2> QED BY <2>1 DEF Streamed
<1>10. CASE InspectorOpens
  <2>1. UNCHANGED <<dump, ins, wire, lossy>>
    BY <1>10 DEF InspectorOpens
  <2> QED BY <2>1 DEF Streamed, InStep, Read
<1>11. CASE wait_for_inspector
  <2>1. dump'.pc \notin {"read", "flush"}
    <3>1. CASE To("handshake") \/ To("none")
      BY <3>1 DEF To
    <3>2. CASE dump' = [dump EXCEPT !.polls = @ + 1]
      BY <1>11, <3>2 DEF wait_for_inspector, At
    <3> QED BY <1>11, <3>1, <3>2 DEF wait_for_inspector
  <2> QED BY <2>1 DEF Streamed
<1>12. CASE Handshake
  <2>1. /\ dump.out = <<>> /\ dump.msg = <<>> /\ wire = <<>> /\ ins = Quiet /\ NChunks \in Nat
    BY <1>12, DumpAssumption DEF Handshake, At, Unasked
  <2>2. /\ dump' = [dump EXCEPT !.pc = "read"] /\ ins' = [ins EXCEPT !.pc = "send"] /\ wire' = wire
    BY <1>12 DEF Handshake
  <2>3. dump'.out = <<>> /\ dump'.msg = <<>> /\ dump'.pc = "read"
    BY <2>1, <2>2
  <2>4. ins'.pc = "send" /\ ins'.chunk = 1 /\ ins'.frag = 1
    BY <2>1, <2>2 DEF Quiet
  <2>5. Read(ins.chunk - 1, <<>>)'
    BY <2>3, <2>4, NoSnap DEF Read
  <2> QED BY <2>1, <2>2, <2>3, <2>4, <2>5 DEF InStep, Streamed
<1>13. CASE SnapshotFails
  <2>1. dump'.pc \notin {"read", "flush"}
    BY <1>13 DEF SnapshotFails, At, To, Put, Unlink, outside, Dest, DumpFiles
  <2> QED BY <2>1 DEF Streamed
<1>14. CASE SendChunk
  BY <1>14, StreamSent
<1>15. CASE SendOther
  BY <1>15, StreamSent
<1>16. CASE SendResponse
  BY <1>16, StreamSent
<1>17. CASE read_frame
  BY <1>17, StreamRead
<1>18. CASE FlushSnapshot
  <2>1. dump'.pc \notin {"read", "flush"}
    BY <1>18 DEF FlushSnapshot, At, To, Put, Unlink, outside, Dest, DumpFiles
  <2> QED BY <2>1 DEF Streamed
<1>19. CASE TraceSaved
  <2>1. dump'.pc \notin {"read", "flush"}
    BY <1>19 DEF TraceSaved, At, To, Put, Unlink, outside, Dest, DumpFiles
  <2> QED BY <2>1 DEF Streamed
<1>20. CASE place_sibling
  <2>1. dump'.pc \notin {"read", "flush"}
    BY <1>20 DEF place_sibling, At, To, Put, Unlink, outside, Dest, DumpFiles
  <2> QED BY <2>1 DEF Streamed
<1>21. CASE CreateBundle
  <2>1. dump'.pc \notin {"read", "flush"}
    BY <1>21 DEF CreateBundle, At, To, Put, Unlink, outside, Dest, DumpFiles
  <2> QED BY <2>1 DEF Streamed
<1>22. CASE WriteMember
  <2>1. dump'.pc \notin {"read", "flush"}
    BY <1>22 DEF WriteMember, At, To, Put, Unlink, outside, Dest, DumpFiles
  <2> QED BY <2>1 DEF Streamed
<1>23. CASE BundleFails
  <2>1. dump'.pc \notin {"read", "flush"}
    BY <1>23 DEF BundleFails, At, To, Put, Unlink, outside, Dest, DumpFiles
  <2> QED BY <2>1 DEF Streamed
<1>24. CASE EndArchive
  <2>1. dump'.pc \notin {"read", "flush"}
    BY <1>24 DEF EndArchive, At, To, Put, Unlink, outside, Dest, DumpFiles
  <2> QED BY <2>1 DEF Streamed
<1>25. CASE RenameBundle
  <2>1. dump'.pc \notin {"read", "flush"}
    BY <1>25 DEF RenameBundle, At, To, Put, Unlink, outside, Dest, DumpFiles
  <2> QED BY <2>1 DEF Streamed
<1>26. CASE RemoveTmp
  <2>1. dump'.pc \notin {"read", "flush"}
    BY <1>26 DEF RemoveTmp, At, To, Put, Unlink, outside, Dest, DumpFiles
  <2> QED BY <2>1 DEF Streamed
<1>27. CASE TargetExits
  <2>1. UNCHANGED <<dump, ins, wire, lossy>>
    BY <1>27 DEF TargetExits
  <2> QED BY <2>1 DEF Streamed, InStep, Read
<1>28. CASE RecorderDies
  <2>1. dump'.pc \notin {"read", "flush"}
    BY <1>28 DEF RecorderDies, At, To, Put, Unlink, outside, Dest, DumpFiles
  <2> QED BY <2>1 DEF Streamed
<1>29. CASE UNCHANGED dumpVars
  BY <1>29 DEF dumpVars, Streamed, InStep, Read
<1> QED BY <1>1, <1>2, <1>3, <1>4, <1>5, <1>6, <1>7, <1>8, <1>9, <1>10, <1>11, <1>12, <1>13,
       <1>14, <1>15, <1>16, <1>17, <1>18, <1>19, <1>20, <1>21, <1>22, <1>23, <1>24, <1>25,
       <1>26, <1>27, <1>28, <1>29 DEF DumpNext

(* A step changes the trace's file only to what is whole already.            *)
LEMMA BundledStep ==
  ASSUME DumpInv, [DumpNext]_dumpVars
  PROVE  Bundled'
<1> USE DEF DumpInv, Shapes, Bundled, Runtimes
<1>30. (UNCHANGED <<tgt, traceLen>> /\ dump'.stuck = dump.stuck) \/ TargetExits =>
           WholeBundle' = WholeBundle /\ OneMember' = OneMember
           /\ BothMembers' = BothMembers /\ Cells("t", traceLen)' = Cells("t", traceLen)
  BY DEF TargetExits, WholeBundle, BothMembers, OneMember, JvmDump
<1>1. CASE take_memory_deep_dump
  BY <1>1, <1>30 DEF take_memory_deep_dump, At, Detects, outside
<1>2. CASE JcmdMissing
  BY <1>2, <1>30 DEF JcmdMissing, At, To, Put, Unlink, outside, Dest, DumpFiles
<1>3. CASE JcmdFails
  BY <1>3, <1>30 DEF JcmdFails, At, To, Put, Unlink, outside, Dest, DumpFiles
<1>4. CASE is_jvm
  BY <1>4, <1>30 DEF is_jvm, At, To, Put, Unlink, outside, Dest, DumpFiles
<1>5. CASE RemoveDest
  <2>1. dump.pc = "remove" /\ dump'.pc = "jcmd" /\ fs'["trace"] = fs["trace"] /\ traceLen' = traceLen
    BY <1>5 DEF RemoveDest, At, Unlink, outside, DumpFiles
  <2>2. Cells("t", traceLen)' = Cells("t", traceLen)
    BY <2>1
  <2> QED BY <2>1, <2>2
<1>6. CASE HeapDumpStarts
  BY <1>6, <1>30 DEF HeapDumpStarts, At, To, Put, Unlink, outside, Dest, DumpFiles
<1>7. CASE HeapDumpWrites
  BY <1>7, <1>30 DEF HeapDumpWrites, At, To, Put, Unlink, outside, Dest, DumpFiles
<1>8. CASE take_heap_dump
  BY <1>8, <1>30 DEF take_heap_dump, At, To, Put, Unlink, outside, Dest, DumpFiles
<1>9. CASE Signal
  BY <1>9, <1>30 DEF Signal, At, To, Put, Unlink, outside, Dest, DumpFiles
<1>10. CASE InspectorOpens
  BY <1>10, <1>30 DEF InspectorOpens, At, To, Put, Unlink, outside, Dest, DumpFiles
<1>11. CASE wait_for_inspector
  BY <1>11, <1>30 DEF wait_for_inspector, At, To, Put, Unlink, outside, Dest, DumpFiles
<1>12. CASE Handshake
  BY <1>12, <1>30 DEF Handshake, At, To, Put, Unlink, outside, Dest, DumpFiles
<1>13. CASE SnapshotFails
  BY <1>13, <1>30 DEF SnapshotFails, At, To, Put, Unlink, outside, Dest, DumpFiles
<1>14. CASE SendChunk
  BY <1>14, <1>30 DEF SendChunk, At, To, Put, Unlink, outside, Dest, DumpFiles
<1>15. CASE SendOther
  BY <1>15, <1>30 DEF SendOther, At, To, Put, Unlink, outside, Dest, DumpFiles
<1>16. CASE SendResponse
  BY <1>16, <1>30 DEF SendResponse, At, To, Put, Unlink, outside, Dest, DumpFiles
<1>17. CASE read_frame
  BY <1>17, <1>30 DEF read_frame, At, To, Put, Unlink, outside, Dest, DumpFiles
<1>18. CASE FlushSnapshot
  BY <1>18, <1>30 DEF FlushSnapshot, At, To, Put, Unlink, outside, Dest, DumpFiles
<1>19. CASE TraceSaved
  BY <1>19, <1>30, ZenonT(60) DEF TraceSaved, At, To, Put, Unlink, outside, Dest, DumpFiles
<1>20. CASE place_sibling
  BY <1>20, <1>30 DEF place_sibling, At, To, Put, Unlink, outside, Dest, DumpFiles
<1>21. CASE CreateBundle
  BY <1>21, <1>30 DEF CreateBundle, At, To, Put, Unlink, outside, Dest, DumpFiles
<1>22. CASE WriteMember
  <2>1. fs' = [fs EXCEPT !["bundle"] =
           WithMember(fs["bundle"], Members[dump.todo], fs[Members[dump.todo]])]
    BY <1>22 DEF WriteMember, Put, WithMember
  <2>2. At("member") /\ dump.todo <= 2 /\ dump' = [dump EXCEPT !.todo = dump.todo + 1]
        /\ UNCHANGED <<tgt, traceLen>>
    BY <1>22 DEF WriteMember, outside
  <2>3. fs["trace"] = Cells("t", traceLen) /\ fs["tmp"] = JvmDump /\ dump.rt = "jvm"
    BY <2>2 DEF At, Spooled
  <2>4. /\ dump'.pc = "member" /\ dump'.todo = dump.todo + 1 /\ dump'.rt = "jvm"
        /\ fs'["trace"] = fs["trace"]
        /\ fs'["bundle"] = WithMember(fs["bundle"], Members[dump.todo], fs[Members[dump.todo]])
    BY <2>1, <2>2, <2>3 DEF At, DumpFiles
  <2>5. CASE dump.todo = 1 /\ fs["bundle"] = <<>>
    <3>1. fs'["bundle"] = OneMember
      BY <2>3, <2>4, <2>5 DEF Members, OneMember
    <3>2. dump'.todo = 2 /\ OneMember' = OneMember
      BY <2>2, <2>4, <2>5 DEF OneMember
    <3> QED BY <2>2, <2>3, <2>4, <3>1, <3>2
  <2>6. CASE dump.todo = 2 /\ fs["bundle"] = OneMember
    <3>1. fs'["bundle"] = BothMembers
      BY <2>3, <2>4, <2>6 DEF Members, BothMembers
    <3>2. dump'.todo = 3 /\ BothMembers' = BothMembers
      BY <2>2, <2>4, <2>6, <1>30 DEF BothMembers, OneMember
    <3> QED BY <2>2, <2>3, <2>4, <3>1, <3>2
  <2> QED BY <2>2, <2>5, <2>6 DEF At
<1>23. CASE BundleFails
  BY <1>23, <1>30 DEF BundleFails, At, To, Put, Unlink, outside, Dest, DumpFiles
<1>24. CASE EndArchive
  <2>1. At("member") /\ dump.todo = 3 /\ UNCHANGED <<tgt, traceLen>>
        /\ dump' = [dump EXCEPT !.pc = "rename"]
        /\ fs' = [fs EXCEPT !["bundle"] = fs["bundle"] \o Zeros(2 * Block)]
    BY <1>24 DEF EndArchive, To, Put, outside
  <2>2. fs["bundle"] = BothMembers /\ WholeBundle' = WholeBundle
    BY <2>1, <1>30 DEF At
  <2>3. dump'.pc = "rename" /\ fs'["trace"] = fs["trace"] /\ fs'["bundle"] = WholeBundle
    BY <2>1, <2>2 DEF DumpFiles, WholeBundle
  <2>4. fs["trace"] = Cells("t", traceLen)
    BY <2>1 DEF At
  <2> QED BY <2>1, <2>2, <2>3, <2>4
<1>25. CASE RenameBundle
  BY <1>25, <1>30 DEF RenameBundle, At, To, Put, Unlink, outside, Dest, DumpFiles
<1>26. CASE RemoveTmp
  BY <1>26, <1>30 DEF RemoveTmp, At, To, Put, Unlink, outside, Dest, DumpFiles
<1>27. CASE TargetExits
  BY <1>27, <1>30 DEF TargetExits, At, To, Put, Unlink, outside, Dest, DumpFiles
<1>28. CASE RecorderDies
  BY <1>28, <1>30 DEF RecorderDies, At, To, Put, Unlink, outside, Dest, DumpFiles
<1>29. CASE UNCHANGED dumpVars
  BY <1>29, <1>30 DEF dumpVars
<1> QED BY <1>1, <1>2, <1>3, <1>4, <1>5, <1>6, <1>7, <1>8, <1>9, <1>10, <1>11, <1>12, <1>13,
       <1>14, <1>15, <1>16, <1>17, <1>18, <1>19, <1>20, <1>21, <1>22, <1>23, <1>24, <1>25,
       <1>26, <1>27, <1>28, <1>29 DEF DumpNext

------------------------------------------------------------------------------
(* The bundle as a tar reader finds it.                                      *)

(* Data rounded up to whole blocks.                                          *)
Rounded(n) == ((n + Block - 1) \div Block) * Block

LEMMA DivIs ==
  ASSUME NEW b \in Nat \ {0}, NEW q \in Nat, NEW r \in 0..b - 1, NEW x, x = q * b + r
  PROVE  x \div b = q /\ x % b = r
<1>0. x \in Nat
  <2>1. q * b \in Nat
    OBVIOUS
  <2> QED BY <2>1
<1>1. x = b * (x \div b) + (x % b) /\ x % b \in 0..b - 1 /\ x \div b \in Int
  BY <1>0
<1> DEFINE p == x \div b
           s == x % b
<1>2. p \in Int /\ s \in 0..b - 1 /\ b * p + s = b * q + r
  BY <1>1
<1> HIDE DEF p, s
<1>3. ~(p >= q + 1)
  <2> SUFFICES ASSUME p >= q + 1 PROVE FALSE
    OBVIOUS
  <2>1. b * p >= b * (q + 1)
    BY <1>2
  <2>2. b * (q + 1) = b * q + b
    OBVIOUS
  <2> QED BY <1>2, <2>1, <2>2
<1>4. ~(q >= p + 1)
  <2> SUFFICES ASSUME q >= p + 1 PROVE FALSE
    OBVIOUS
  <2>1. b * q >= b * (p + 1)
    BY <1>2
  <2>2. b * (p + 1) = b * p + b
    BY <1>2
  <2> QED BY <1>2, <2>1, <2>2
<1>5. p = q
  BY <1>2, <1>3, <1>4
<1>6. s = r
  BY <1>2, <1>5
<1> QED BY <1>5, <1>6 DEF p, s

LEMMA PadIs ==
  ASSUME NEW n \in Nat
  PROVE  /\ (Block - (n % Block)) % Block \in Nat
         /\ n + ((Block - (n % Block)) % Block) = Rounded(n)
         /\ Rounded(n) \in Nat /\ Rounded(n) >= n
<1> DEFINE q == n \div Block
           r == n % Block
<1>1. Block \in Nat \ {0} /\ q \in Nat /\ r \in 0..Block - 1 /\ n = q * Block + r
  BY DumpAssumption
<1> HIDE DEF q, r
<1>2. CASE r = 0
  <2>1. (Block - r) % Block = 0
    <3>1. Block = 1 * Block + 0
      BY <1>1
    <3> QED BY <1>1, <1>2, <3>1, DivIs
  <2>2. (n + Block - 1) \div Block = q
    <3>1. n + Block - 1 = q * Block + (Block - 1) /\ Block - 1 \in 0..Block - 1
      BY <1>1, <1>2
    <3> QED BY <1>1, <3>1, DivIs
  <2>3. Rounded(n) = q * Block /\ n = q * Block /\ n + 0 = n
    BY <1>1, <1>2, <2>2 DEF Rounded
  <2>4. (Block - (n % Block)) % Block = 0
    BY <2>1 DEF r
  <2> QED BY <2>3, <2>4
<1>3. CASE r # 0
  <2>1. (Block - r) % Block = Block - r
    <3>1. Block - r = 0 * Block + (Block - r) /\ Block - r \in 0..Block - 1
      BY <1>1, <1>3
    <3> QED BY <1>1, <3>1, DivIs, ZenonT(60)
  <2>2. (n + Block - 1) \div Block = q + 1
    <3>1. n + Block - 1 = (q + 1) * Block + (r - 1) /\ r - 1 \in 0..Block - 1 /\ q + 1 \in Nat
      BY <1>1, <1>3
    <3> DEFINE x == n + Block - 1
               u == q + 1
               v == r - 1
    <3>2. x = u * Block + v /\ v \in 0..Block - 1 /\ u \in Nat
      BY <3>1
    <3> HIDE DEF x, u, v
    <3>3. x \div Block = u
      BY <1>1, <3>2, DivIs
    <3> QED BY <3>3 DEF x, u
  <2>3. (q + 1) * Block = q * Block + Block
    BY <1>1
  <2>4. (q + 1) * Block \in Nat /\ q * Block \in Nat
    BY <1>1
  <2>5. n + (Block - r) = (q + 1) * Block /\ Block - r \in Nat
    BY <1>1, <2>3, <2>4
  <2>6. Rounded(n) = (q + 1) * Block
    BY <2>2 DEF Rounded
  <2>7. (Block - (n % Block)) % Block = Block - r
    BY <2>1 DEF r
  <2>8. Block - r \in Nat /\ n + (Block - r) >= n
    BY <1>1
  <2> QED BY <2>4, <2>5, <2>6, <2>7, <2>8
<1> QED BY <1>2, <1>3

TarCells == {<<"zero">>} \cup ({"header"} \X {"trace", "tmp"} \X Nat) \cup ({"t", "d", "stale"} \X Nat)

LEMMA ZerosAre ==
  ASSUME NEW n \in Nat
  PROVE  Zeros(n) \in Seq(TarCells) /\ Len(Zeros(n)) = n /\ \A k \in 1..n : Zeros(n)[k] = <<"zero">>
  BY DEF Zeros, TarCells

LEMMA CellsAre ==
  ASSUME NEW x \in {"t", "d", "stale"}, NEW n \in Nat
  PROVE  Cells(x, n) \in Seq(TarCells) /\ Len(Cells(x, n)) = n /\ \A k \in 1..n : Cells(x, n)[k] = <<x, k>>
<1>1. \A k \in 1..n : <<x, k>> \in TarCells
  BY DEF TarCells
<1> QED BY <1>1 DEF Cells

LEMMA HeaderIs ==
  ASSUME NEW name \in {"trace", "tmp"}, NEW n \in Nat
  PROVE  /\ header_for(name, n) \in Seq(TarCells) /\ Len(header_for(name, n)) = Block
         /\ header_for(name, n)[1] = <<"header", name, n>>
         /\ \A k \in 2..Block : header_for(name, n)[k] = <<"zero">>
<1> DEFINE c == <<"header", name, n>>
           a == <<c>>
           b == Zeros(Block - 1)
<1>1. c \in TarCells
  BY DEF TarCells
<1>2. Block \in Nat \ {0} /\ Block - 1 \in Nat
  BY DumpAssumption
<1>3. b \in Seq(TarCells) /\ Len(b) = Block - 1 /\ \A k \in 1..Block - 1 : b[k] = <<"zero">>
  BY <1>2, ZerosAre
<1>4. header_for(name, n) = a \o b
  BY DEF header_for
<1> HIDE DEF c
<1>5. a \in Seq(TarCells) /\ Len(a) = 1 /\ a[1] = c
  BY <1>1
<1> HIDE DEF a, b, TarCells
<1>6. /\ a \o b \in Seq(TarCells) /\ Len(a \o b) = Len(a) + Len(b)
      /\ \A k \in 1..Len(a) : (a \o b)[k] = a[k]
      /\ \A k \in 1..Len(b) : (a \o b)[Len(a) + k] = b[k]
  <2>1. a \in Seq(TarCells) /\ b \in Seq(TarCells)
    BY <1>3, <1>5
  <2> QED BY ONLY <2>1, JoinIs
<1> DEFINE h == a \o b
<1> HIDE DEF h
<1>7. h \in Seq(TarCells) /\ Len(h) = Block /\ h[1] = c
  BY <1>2, <1>3, <1>5, <1>6 DEF h
<1>8. ASSUME NEW k \in 2..Block PROVE h[k] = <<"zero">>
  <2>1. k - 1 \in 1..Block - 1 /\ k = 1 + (k - 1)
    BY <1>2
  <2> QED BY <1>3, <1>5, <1>6, <2>1 DEF h
<1> QED BY <1>4, <1>7, <1>8 DEF h, c

(* A member in cells: its header, its data from the next block on, zeros.    *)
LEMMA MemberIs ==
  ASSUME NEW tar \in Seq(TarCells), NEW name \in {"trace", "tmp"}, NEW content \in Seq(TarCells)
  PROVE  LET tape == WithMember(tar, name, content)
             l == Len(tar)
             n == Len(content)
         IN /\ tape \in Seq(TarCells) /\ Len(tape) = l + Block + Rounded(n)
            /\ \A k \in 1..l : tape[k] = tar[k]
            /\ tape[l + 1] = <<"header", name, n>>
            /\ \A k \in 2..Block : tape[l + k] = <<"zero">>
            /\ \A k \in 1..n : tape[l + Block + k] = content[k]
            /\ \A k \in n + 1..Rounded(n) : tape[l + Block + k] = <<"zero">>
<1> DEFINE l == Len(tar)
           n == Len(content)
           h == header_for(name, n)
           m == (Block - (n % Block)) % Block
           p == Padding(n)
           a == tar \o h
           b == a \o content
           tape == b \o p
<1>1. tape = WithMember(tar, name, content)
  BY DEF WithMember
<1>2. l \in Nat /\ n \in Nat /\ Block \in Nat \ {0}
  BY DumpAssumption
<1> HIDE DEF l, n
<1>3. /\ h \in Seq(TarCells) /\ Len(h) = Block /\ h[1] = <<"header", name, n>>
      /\ \A k \in 2..Block : h[k] = <<"zero">>
  BY <1>2, HeaderIs
<1>4. m \in Nat /\ n + m = Rounded(n) /\ Rounded(n) \in Nat
  BY <1>2, PadIs
<1>5. p \in Seq(TarCells) /\ Len(p) = m /\ \A k \in 1..m : p[k] = <<"zero">>
  BY <1>4, ZerosAre DEF Padding
<1> HIDE DEF h, m, p, TarCells
<1>6. /\ a \in Seq(TarCells) /\ Len(a) = l + Block
      /\ \A k \in 1..l : a[k] = tar[k]
      /\ \A k \in 1..Block : a[l + k] = h[k]
  <2>1. tar \in Seq(TarCells) /\ h \in Seq(TarCells)
    BY <1>3
  <2>2. /\ tar \o h \in Seq(TarCells) /\ Len(tar \o h) = Len(tar) + Len(h)
        /\ \A k \in 1..Len(tar) : (tar \o h)[k] = tar[k]
        /\ \A k \in 1..Len(h) : (tar \o h)[Len(tar) + k] = h[k]
    BY ONLY <2>1, JoinIs
  <2> QED BY <1>3, <2>2 DEF l
<1> HIDE DEF a
<1>7. /\ b \in Seq(TarCells) /\ Len(b) = l + Block + n
      /\ \A k \in 1..l + Block : b[k] = a[k]
      /\ \A k \in 1..n : b[l + Block + k] = content[k]
  <2>1. a \in Seq(TarCells) /\ content \in Seq(TarCells)
    BY <1>6
  <2>2. /\ a \o content \in Seq(TarCells) /\ Len(a \o content) = Len(a) + Len(content)
        /\ \A k \in 1..Len(a) : (a \o content)[k] = a[k]
        /\ \A k \in 1..Len(content) : (a \o content)[Len(a) + k] = content[k]
    BY ONLY <2>1, JoinIs
  <2> QED BY <1>6, <2>2 DEF n
<1> HIDE DEF b
<1>8. /\ tape \in Seq(TarCells) /\ Len(tape) = l + Block + n + m
      /\ \A k \in 1..l + Block + n : tape[k] = b[k]
      /\ \A k \in 1..m : tape[l + Block + n + k] = p[k]
  <2>1. b \in Seq(TarCells) /\ p \in Seq(TarCells)
    BY <1>5, <1>7
  <2>2. /\ b \o p \in Seq(TarCells) /\ Len(b \o p) = Len(b) + Len(p)
        /\ \A k \in 1..Len(b) : (b \o p)[k] = b[k]
        /\ \A k \in 1..Len(p) : (b \o p)[Len(b) + k] = p[k]
    BY ONLY <2>1, JoinIs
  <2> QED BY <1>5, <1>7, <2>2
<1> HIDE DEF tape
<1>9. \A k \in 1..l : tape[k] = tar[k]
  BY <1>2, <1>6, <1>7, <1>8
<1>10. ASSUME NEW k \in 1..Block PROVE tape[l + k] = h[k]
  <2>1. l + k \in 1..l + Block /\ l + k \in 1..l + Block + n
    BY <1>2
  <2> QED BY <1>6, <1>7, <1>8, <2>1
<1>11. ASSUME NEW k \in 1..n PROVE tape[l + Block + k] = content[k]
  <2>1. l + Block + k \in 1..l + Block + n
    BY <1>2
  <2> QED BY <1>7, <1>8, <2>1
<1>12. ASSUME NEW k \in n + 1..Rounded(n) PROVE tape[l + Block + k] = <<"zero">>
  <2>1. k - n \in 1..m /\ l + Block + k = l + Block + n + (k - n)
    BY <1>2, <1>4
  <2> QED BY <1>5, <1>8, <2>1
<1>13. Len(tape) = l + Block + Rounded(n)
  BY <1>2, <1>4, <1>8
<1>14. tape[l + 1] = <<"header", name, n>> /\ \A k \in 2..Block : tape[l + k] = <<"zero">>
  <2>1. 1 \in 1..Block /\ \A k \in 2..Block : k \in 1..Block
    BY <1>2
  <2> QED BY <1>3, <1>10, <2>1
<1> QED BY <1>1, <1>8, <1>9, <1>11, <1>12, <1>13, <1>14 DEF l, n

(* What the reader finds from o on, given what it finds after it.            *)
TarStep(tar, from, o) ==
  IF o = Len(tar) \/ tar[o + 1][1] # "header" THEN <<>>
  ELSE LET n == tar[o + 1][3]
           end == o + Block + ((n + Block - 1) \div Block) * Block
       IN << <<tar[o + 1][2], SubSeq(tar, o + Block + 1, o + Block + n)>> >> \o
          (IF end <= Len(tar) THEN from[end] ELSE <<>>)

LEMMA SliceIs ==
  ASSUME NEW S, NEW s \in Seq(S), NEW b \in Nat, NEW n \in Nat, b + n <= Len(s)
  PROVE  LET r == SubSeq(s, b + 1, b + n)
         IN r \in Seq(S) /\ Len(r) = n /\ \A k \in 1..n : r[k] = s[b + k]
<1> DEFINE lo == b + 1
           hi == b + n
           r == SubSeq(s, lo, hi)
<1>1. lo \in Int /\ hi \in Int /\ hi - lo + 1 = n /\ (lo <= hi <=> n # 0)
      /\ (\A k \in 1..n : lo + k - 1 = b + k)
  OBVIOUS
<1>2. \A k \in lo..hi : s[k] \in S
  OBVIOUS
<1> HIDE DEF lo, hi
<1>3. /\ r \in Seq(S) /\ Len(r) = IF lo <= hi THEN hi - lo + 1 ELSE 0
      /\ \A k \in 1..hi - lo + 1 : r[k] = s[lo + k - 1]
  BY <1>1, <1>2, SubSeqProperties
<1> HIDE DEF r
<1>4. r \in Seq(S) /\ Len(r) = n /\ \A k \in 1..n : r[k] = s[b + k]
  BY <1>1, <1>3
<1> QED BY <1>4 DEF r, lo, hi

(* A tar of two members, the second's header at a.                           *)
LEMMA TarReadIs ==
  ASSUME NEW tar, NEW i, NEW n, NEW a, NEW j, NEW m, Len(tar) \in Nat, n \in Nat, m \in Nat, a \in Nat,
         a = Block + Rounded(n), a < Len(tar), a + Block + Rounded(m) < Len(tar),
         tar[1] = <<"header", i, n>>, tar[a + 1] = <<"header", j, m>>,
         \A k \in 1..Len(tar) : k # 1 /\ k # a + 1 => tar[k][1] # "header"
  PROVE  TarRead(tar) = << <<i, SubSeq(tar, Block + 1, Block + n)>>,
                           <<j, SubSeq(tar, a + Block + 1, a + Block + m)>> >>
<1> DEFINE N == Len(tar)
           e == a + Block + Rounded(m)
           x == <<i, SubSeq(tar, Block + 1, Block + n)>>
           y == <<j, SubSeq(tar, a + Block + 1, a + Block + m)>>
           f == CHOOSE h : h = [o \in 0..N |-> TarStep(tar, h, o)]
           g == [o \in 0..N |-> IF o = 0 THEN <<x, y>> ELSE IF o = a THEN <<y>> ELSE <<>>]
<1>1. TarRead(tar) = f[0]
  BY DEF TarRead, TarStep
<1>2. Block \in Nat \ {0} /\ Rounded(n) \in Nat /\ Rounded(m) \in Nat
  BY PadIs, DumpAssumption
<1>3. N \in Nat /\ a \in 1..N - 1 /\ e \in 1..N - 1 /\ e # a /\ e > a
  <2>1. N \in Nat /\ a < N /\ e < N
    OBVIOUS
  <2>2. a \in Nat /\ a > 0 /\ e \in Nat /\ e > a
    <3>1. a \in Nat /\ a = Block + Rounded(n)
      OBVIOUS
    <3> QED BY ONLY <1>2, <3>1
  <2> HIDE DEF N, e
  <2> QED BY <2>1, <2>2
<1>4. ASSUME NEW h, NEW o \in 0..N, o # 0, o # a PROVE TarStep(tar, h, o) = <<>>
  <2>1. o = N \/ (o + 1 \in 1..N /\ o + 1 # 1 /\ o + 1 # a + 1)
    BY <1>3, <1>4
  <2> QED BY <2>1 DEF TarStep
<1>5. ASSUME NEW h PROVE TarStep(tar, h, a) = <<y>> \o h[e]
  <2>1. a # Len(tar) /\ tar[a + 1][1] = "header" /\ tar[a + 1][2] = j /\ tar[a + 1][3] = m
    BY <1>3
  <2>2. a + Block + ((m + Block - 1) \div Block) * Block = e /\ e <= Len(tar)
    BY <1>3 DEF Rounded
  <2> HIDE DEF e
  <2> QED BY <2>1, <2>2 DEF TarStep
<1>6. ASSUME NEW h PROVE TarStep(tar, h, 0) = <<x>> \o h[a]
  <2>1. 0 # Len(tar) /\ tar[0 + 1][1] = "header" /\ tar[0 + 1][2] = i /\ tar[0 + 1][3] = n
    BY <1>3
  <2>2. 0 + Block + ((n + Block - 1) \div Block) * Block = a /\ a <= Len(tar)
    BY <1>2, <1>3 DEF Rounded
  <2>3. 0 + Block + 1 = Block + 1 /\ 0 + Block + n = Block + n
    <3>1. n \in Nat
      OBVIOUS
    <3> QED BY ONLY <1>2, <3>1
  <2> QED BY <2>1, <2>2, <2>3 DEF TarStep
<1> HIDE DEF x, y, e, N
<1>7. g = [o \in 0..N |-> TarStep(tar, g, o)]
  <2>1. g[e] = <<>> /\ g[a] = <<y>> /\ g[0] = <<x, y>>
    BY <1>3
  <2>2. TarStep(tar, g, a) = <<y>> /\ TarStep(tar, g, 0) = <<x, y>>
    BY <1>5, <1>6, <2>1, OnesJoined
  <2>3. ASSUME NEW o \in 0..N PROVE g[o] = TarStep(tar, g, o)
    BY <1>4, <2>1, <2>2
  <2> QED BY <2>3
<1>8. f = [o \in 0..N |-> TarStep(tar, f, o)]
  <2> HIDE DEF g
  <2> QED BY <1>7
<1> HIDE DEF f
<1>9. e \in 0..N /\ a \in 0..N /\ 0 \in 0..N /\ e # 0
  BY <1>3
<1>10. f[e] = <<>>
  BY <1>3, <1>4, <1>8, <1>9
<1>11. f[a] = <<y>>
  <2>1. f[a] = TarStep(tar, f, a)
    BY <1>8, <1>9
  <2>2. f[a] = <<y>> \o f[e]
    BY <1>5, <2>1
  <2> QED BY <1>10, <2>2, OnesJoined, Zenon
<1>12. f[0] = <<x, y>>
  <2>1. f[0] = TarStep(tar, f, 0)
    BY <1>8, <1>9
  <2>2. f[0] = <<x>> \o f[a]
    BY <1>6, <2>1
  <2> QED BY <1>11, <2>2, OnesJoined, Zenon
<1> QED BY <1>1, <1>12 DEF x, y

(* The reader gets out of the bundle what was put into it.                   *)
LEMMA BundleReads ==
  ASSUME traceLen \in Nat, NEW w \in {"d", "stale"}, NEW m \in Nat, JvmDump = Cells(w, m)
  PROVE  TarRead(WholeBundle) = << <<"trace", Cells("t", traceLen)>>, <<"tmp", JvmDump>> >>
<1> DEFINE n == traceLen
           t == Cells("t", n)
           d == Cells(w, m)
           one == WithMember(<<>>, "trace", t)
           two == WithMember(one, "tmp", d)
           z == Zeros(2 * Block)
           tar == two \o z
           a == Block + Rounded(n)
           e == a + Block + Rounded(m)
<1>1. WholeBundle = tar
  BY DEF WholeBundle, BothMembers, OneMember
<1>2. /\ Block \in Nat \ {0} /\ n \in Nat /\ m \in Nat
      /\ Rounded(n) \in Nat /\ Rounded(m) \in Nat /\ Rounded(n) >= n /\ Rounded(m) >= m
  BY PadIs, DumpAssumption
<1> DEFINE p == Rounded(n)
           q == Rounded(m)
<1> HIDE DEF p, q
<1>3. /\ p \in Nat /\ q \in Nat /\ p >= n /\ q >= m /\ a \in Nat /\ e \in Nat
      /\ a = Block + p /\ e = a + Block + q
  BY <1>2 DEF p, q
<1>4. t \in Seq(TarCells) /\ Len(t) = n /\ \A k \in 1..n : t[k] = <<"t", k>>
  BY <1>2, CellsAre
<1>5. d \in Seq(TarCells) /\ Len(d) = m /\ \A k \in 1..m : d[k] = <<w, k>>
  BY <1>2, CellsAre
<1>6. z \in Seq(TarCells) /\ Len(z) = 2 * Block /\ \A k \in 1..2 * Block : z[k] = <<"zero">>
  <2>1. 2 * Block \in Nat
    BY <1>2
  <2> QED BY <2>1, ZerosAre
<1> HIDE DEF t, d, z, n, a, e
<1>7. /\ one \in Seq(TarCells) /\ Len(one) = a
      /\ one[1] = <<"header", "trace", n>>
      /\ \A k \in 2..Block : one[k] = <<"zero">>
      /\ \A k \in 1..n : one[Block + k] = t[k]
      /\ \A k \in n + 1..p : one[Block + k] = <<"zero">>
  <2> DEFINE tar0 == <<>>
             o == WithMember(tar0, "trace", t)
  <2>1. tar0 \in Seq(TarCells) /\ Len(tar0) = 0 /\ t \in Seq(TarCells) /\ "trace" \in {"trace", "tmp"}
    BY <1>4
  <2> HIDE DEF tar0, TarCells
  <2>2. /\ o \in Seq(TarCells) /\ Len(o) = Len(tar0) + Block + Rounded(Len(t))
        /\ o[Len(tar0) + 1] = <<"header", "trace", Len(t)>>
        /\ \A k \in 2..Block : o[Len(tar0) + k] = <<"zero">>
        /\ \A k \in 1..Len(t) : o[Len(tar0) + Block + k] = t[k]
        /\ \A k \in Len(t) + 1..Rounded(Len(t)) : o[Len(tar0) + Block + k] = <<"zero">>
    BY ONLY <2>1, MemberIs, ZenonT(60)
  <2> HIDE DEF o
  <2>3. /\ o \in Seq(TarCells) /\ Len(o) = 0 + Block + p
        /\ o[0 + 1] = <<"header", "trace", n>>
        /\ \A k \in 2..Block : o[0 + k] = <<"zero">>
        /\ \A k \in 1..n : o[0 + Block + k] = t[k]
        /\ \A k \in n + 1..p : o[0 + Block + k] = <<"zero">>
    BY <1>4, <2>1, <2>2 DEF p
  <2>4. /\ o \in Seq(TarCells) /\ Len(o) = a
        /\ o[1] = <<"header", "trace", n>>
        /\ \A k \in 2..Block : o[k] = <<"zero">>
        /\ \A k \in 1..n : o[Block + k] = t[k]
        /\ \A k \in n + 1..p : o[Block + k] = <<"zero">>
    <3>1. 0 + Block + p = a /\ 0 + 1 = 1
      BY <1>2, <1>3
    <3>2. ASSUME NEW k \in 2..Block PROVE o[k] = <<"zero">>
      BY <2>3
    <3>3. ASSUME NEW k \in 1..n PROVE 0 + Block + k = Block + k /\ o[Block + k] = t[k]
      BY <1>2, <2>3
    <3>4. ASSUME NEW k \in n + 1..p PROVE 0 + Block + k = Block + k /\ o[Block + k] = <<"zero">>
      <4>1. 0 + Block + k = Block + k
        BY <1>2, <1>3
      <4>2. o[0 + Block + k] = <<"zero">>
        BY <2>3
      <4> QED BY <4>1, <4>2
    <3> QED BY <2>3, <3>1, <3>2, <3>3, <3>4
  <2> QED BY <2>4 DEF o, tar0
<1> HIDE DEF one
<1>8. /\ two \in Seq(TarCells) /\ Len(two) = e
      /\ \A k \in 1..a : two[k] = one[k]
      /\ two[a + 1] = <<"header", "tmp", m>>
      /\ \A k \in 2..Block : two[a + k] = <<"zero">>
      /\ \A k \in 1..m : two[a + Block + k] = d[k]
      /\ \A k \in m + 1..q : two[a + Block + k] = <<"zero">>
  <2>1. one \in Seq(TarCells) /\ d \in Seq(TarCells) /\ "tmp" \in {"trace", "tmp"}
    BY <1>5, <1>7
  <2> HIDE DEF TarCells
  <2>2. /\ two \in Seq(TarCells) /\ Len(two) = Len(one) + Block + Rounded(Len(d))
        /\ \A k \in 1..Len(one) : two[k] = one[k]
        /\ two[Len(one) + 1] = <<"header", "tmp", Len(d)>>
        /\ \A k \in 2..Block : two[Len(one) + k] = <<"zero">>
        /\ \A k \in 1..Len(d) : two[Len(one) + Block + k] = d[k]
        /\ \A k \in Len(d) + 1..Rounded(Len(d)) : two[Len(one) + Block + k] = <<"zero">>
    BY ONLY <2>1, MemberIs
  <2> HIDE DEF two
  <2> QED BY <1>3, <1>5, <1>7, <2>2 DEF q
<1> HIDE DEF two
<1>9. /\ tar \in Seq(TarCells) /\ Len(tar) = e + 2 * Block
      /\ \A k \in 1..e : tar[k] = two[k]
      /\ \A k \in 1..2 * Block : tar[e + k] = <<"zero">>
  <2>1. two \in Seq(TarCells) /\ z \in Seq(TarCells)
    BY <1>6, <1>8
  <2> HIDE DEF TarCells
  <2>2. /\ two \o z \in Seq(TarCells) /\ Len(two \o z) = Len(two) + Len(z)
        /\ \A k \in 1..Len(two) : (two \o z)[k] = two[k]
        /\ \A k \in 1..Len(z) : (two \o z)[Len(two) + k] = z[k]
    BY ONLY <2>1, JoinIs
  <2> HIDE DEF tar
  <2> QED BY <1>6, <1>8, <2>2 DEF tar
<1> HIDE DEF tar
<1> DEFINE L == e + 2 * Block
<1>10. /\ a \in 1..e /\ e < L /\ Block \in 1..a
       /\ \A k \in 1..a : k \in 1..e
       /\ \A k \in 1..Block + q : a + k \in 1..e
  BY <1>2, <1>3
<1>11. tar[1] = <<"header", "trace", n>> /\ tar[a + 1] = <<"header", "tmp", m>>
  <2>1. 1 \in 1..a /\ 1 \in 1..e /\ a + 1 \in 1..e
    BY <1>2, <1>3
  <2> QED BY <1>7, <1>8, <1>9, <2>1
<1>12. ASSUME NEW k \in 1..L, k # 1, k # a + 1
       PROVE  tar[k] \in {<<"zero">>} \cup {<<"t", x>> : x \in 1..n} \cup {<<w, x>> : x \in 1..m}
  <2>1. CASE k \in 2..Block
    <3>1. k \in 1..a /\ k \in 1..e
      BY <1>2, <1>3, <2>1
    <3> QED BY <1>7, <1>8, <1>9, <2>1, <3>1
  <2>2. CASE k \in Block + 1..a
    <3> DEFINE x == k - Block
    <3>1. k = Block + x /\ (x \in 1..n \/ x \in n + 1..p) /\ k \in 1..a /\ k \in 1..e
      BY <1>2, <1>3, <2>2
    <3> HIDE DEF x
    <3>2. tar[k] = one[Block + x]
      BY <1>8, <1>9, <3>1
    <3>3. CASE x \in 1..n
      <4>1. tar[k] = <<"t", x>>
        BY <1>4, <1>7, <3>2, <3>3
      <4> QED BY <3>3, <4>1
    <3>4. CASE x \in n + 1..p
      BY <1>7, <3>2, <3>4
    <3> QED BY <3>1, <3>3, <3>4
  <2>3. CASE k \in a + 2..a + Block
    <3>1. k - a \in 2..Block /\ k \in 1..e /\ k = a + (k - a)
      BY <1>2, <1>3, <2>3
    <3> QED BY <1>8, <1>9, <3>1
  <2>4. CASE k \in a + Block + 1..e
    <3> DEFINE x == k - (a + Block)
    <3>1. k = a + Block + x /\ (x \in 1..m \/ x \in m + 1..q) /\ k \in 1..e
      BY <1>2, <1>3, <2>4
    <3> HIDE DEF x
    <3>2. tar[k] = two[a + Block + x]
      BY <1>9, <3>1
    <3>3. CASE x \in 1..m
      <4>1. tar[k] = <<w, x>>
        BY <1>5, <1>8, <3>2, <3>3
      <4> QED BY <3>3, <4>1
    <3>4. CASE x \in m + 1..q
      BY <1>8, <3>2, <3>4
    <3> QED BY <3>1, <3>3, <3>4
  <2>5. CASE k \in e + 1..L
    <3>1. k - e \in 1..2 * Block /\ k = e + (k - e)
      BY <1>2, <1>3, <2>5
    <3> QED BY <1>9, <3>1
  <2>6. k \in 2..Block \/ k \in Block + 1..a \/ k \in a + 2..a + Block \/ k \in a + Block + 1..e \/ k \in e + 1..L
    BY <1>2, <1>3, <1>12
  <2> QED BY <2>1, <2>2, <2>3, <2>4, <2>5, <2>6
<1>13. \A k \in 1..L : k # 1 /\ k # a + 1 => tar[k][1] # "header"
  BY <1>12
<1>14. TarRead(tar) = << <<"trace", SubSeq(tar, Block + 1, Block + n)>>,
                         <<"tmp", SubSeq(tar, a + Block + 1, a + Block + m)>> >>
  <2>1. Len(tar) \in Nat /\ a < Len(tar) /\ a + Block + Rounded(m) < Len(tar) /\ a = Block + Rounded(n)
    BY <1>2, <1>3, <1>9, <1>10, SMTT(30) DEF p, q
  <2>2. \A k \in 1..Len(tar) : k # 1 /\ k # a + 1 => tar[k][1] # "header"
    BY <1>9, <1>13
  <2>3. n \in Nat /\ m \in Nat
    BY <1>2
  <2>4. a \in Nat
    BY <1>3
  <2>5. ASSUME NEW i, NEW j, tar[1] = <<"header", i, n>>, tar[a + 1] = <<"header", j, m>>
        PROVE  TarRead(tar) = << <<i, SubSeq(tar, Block + 1, Block + n)>>,
                                 <<j, SubSeq(tar, a + Block + 1, a + Block + m)>> >>
    BY ONLY <2>1, <2>2, <2>3, <2>4, <2>5, TarReadIs, SMTT(30)
  <2> QED BY ONLY <1>11, <2>5
<1>15. SubSeq(tar, Block + 1, Block + n) = t
  <2> DEFINE s == SubSeq(tar, Block + 1, Block + n)
  <2>1. tar \in Seq(TarCells) /\ Block \in Nat /\ n \in Nat /\ Block + n <= Len(tar)
    BY <1>2, <1>3, <1>9, SMTT(30)
  <2>2. s \in Seq(TarCells) /\ Len(s) = n /\ \A k \in 1..n : s[k] = tar[Block + k]
    BY ONLY <2>1, SliceIs
  <2>3. ASSUME NEW k \in 1..n PROVE s[k] = t[k]
    <3>1. Block + k \in 1..a /\ Block + k \in 1..e
      BY <1>2, <1>3
    <3> QED BY <1>7, <1>8, <1>9, <2>2, <3>1, ZenonT(60)
  <2> HIDE DEF s
  <2>4. s = t
    BY <1>4, <2>2, <2>3
  <2> QED BY <2>4 DEF s
<1>16. SubSeq(tar, a + Block + 1, a + Block + m) = d
  <2> DEFINE b == a + Block
             s == SubSeq(tar, b + 1, b + m)
  <2>1. tar \in Seq(TarCells) /\ b \in Nat /\ m \in Nat /\ b + m <= Len(tar) /\ \A k \in 1..m : b + k \in 1..e
    BY <1>2, <1>3, <1>9
  <2> HIDE DEF b
  <2>2. s \in Seq(TarCells) /\ Len(s) = m /\ \A k \in 1..m : s[k] = tar[b + k]
    BY ONLY <2>1, SliceIs
  <2>3. ASSUME NEW k \in 1..m PROVE s[k] = d[k]
    BY <1>8, <1>9, <2>1, <2>2 DEF b
  <2> HIDE DEF s
  <2>4. s = d
    BY <1>5, <2>2, <2>3
  <2> QED BY <2>4 DEF s, b
<1> QED BY <1>1, <1>14, <1>15, <1>16 DEF t, d, n

------------------------------------------------------------------------------

LEMMA InitDumpInv == DumpInit => DumpInv
<1> SUFFICES ASSUME DumpInit PROVE DumpInv
  OBVIOUS
<1> USE DumpAssumption
<1>1. PICK k \in {"java", "embedded", "node", "other"}, h \in BOOLEAN, n \in Lens :
        tgt = [kind |-> k, alive |-> TRUE, home |-> h, len |-> n]
  BY DEF DumpInit
<1>2. dump = NotTaken /\ ins = Quiet /\ wire = <<>> /\ traceLen \in Nat
  BY DEF DumpInit
<1>3. fs["trace"] = Gone /\ DOMAIN fs = DumpFiles
  BY DEF DumpInit, DumpFiles
<1>4. Shapes
  BY <1>1, <1>2, <1>3 DEF Shapes, NotTaken, Quiet
<1>7. fs["tmp"] \in {Gone, Stale}
  BY DEF DumpInit, DumpFiles
<1>5. Runtimes /\ Spooled /\ Unasked /\ Streamed
  BY <1>2, <1>7 DEF Runtimes, Spooled, Unasked, Streamed, NotTaken
<1>6. Bundled
  BY <1>2, <1>3 DEF Bundled, NotTaken
<1> QED BY <1>4, <1>5, <1>6 DEF DumpInv

(* Whatever the target, its inspector and the files do, take_memory_deep_dump *)
(* and finalize_memory_deep_dump are, at each step, where the invariant says: *)
(* with as much of the dump read as was sent, and with a bundle of as many    *)
(* members as were written.                                                   *)
THEOREM DumpInvariant == DumpSpec => []DumpInv
<1>1. DumpInv /\ [DumpNext]_dumpVars => DumpInv'
  BY ShapesStep, RuntimesStep, SpooledStep, UnaskedStep, StreamedStep, BundledStep DEF DumpInv
<1> QED BY InitDumpInv, <1>1, PTL DEF DumpSpec

(* What take_memory_deep_dump hands on is the whole of what the JVM wrote or *)
(* the inspector sent (unless that was an error or could not be decoded),    *)
(* however a message was cut into frames and whatever came in between; only  *)
(* where take_heap_dump could not remove what was at the path it is that     *)
(* file (jvm_heap_dump.rs, v8_heap_dump.rs).                                 *)
THEOREM DumpIsWhole == DumpSpec => []DumpWhole
<1>1. DumpInv => DumpWhole
  <2> SUFFICES ASSUME DumpInv, dump.pc \in {"taken", "create", "member", "rename", "place"}, ~lossy
               PROVE  fs["tmp"] = WholeDump
    BY DEF DumpWhole
  <2>1. CASE dump.rt = "jvm"
    BY <2>1 DEF DumpInv, Runtimes, Spooled, WholeDump
  <2>2. CASE dump.rt # "jvm"
    BY <2>2, SnapshotIs DEF DumpInv, Runtimes, Spooled, WholeDump
  <2> QED BY <2>1, <2>2
<1> QED BY DumpInvariant, <1>1, PTL

(* At every moment there is under the trace's name the trace as it was saved *)
(* or a tar in which a reader finds it and the dump that was taken, for      *)
(* every length of the two and every size of a block (tar_bundle.rs).        *)
THEOREM BundleIsWhole == DumpSpec => []BundleWhole
<1>1. DumpInv => BundleWhole
  <2> SUFFICES ASSUME DumpInv PROVE BundleWhole
    OBVIOUS
  <2>1. \E w \in {"d", "stale"}, m \in Nat : JvmDump = Cells(w, m)
    BY DEF DumpInv, Shapes, JvmDump, Stale
  <2>2. TarRead(WholeBundle) = << <<"trace", Cells("t", traceLen)>>, <<"tmp", JvmDump>> >>
    BY <2>1, BundleReads DEF DumpInv, Shapes
  <2> QED BY <2>2 DEF DumpInv, Bundled, BundleWhole, WholeDump
<1> QED BY DumpInvariant, <1>1, PTL
=============================================================================
