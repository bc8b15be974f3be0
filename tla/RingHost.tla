------------------------------ MODULE RingHost ------------------------------
(***************************************************************************)
(* sismo-core/src/sched/ring_host.rs: the one worker that owns the kdebug  *)
(* ring and feeds its batches to the data sources it hosts, each with its  *)
(* own life as the tracing SDK drives it (ConsumerCtl of sched/ring.rs).   *)
(*                                                                         *)
(* kdebug events are numbered by their order in the ring; which of them a  *)
(* consumer turns into packets is SchedTimeline's business for "sched".     *)
(* The kernel's side of the ring is external.                              *)
(***************************************************************************)
EXTENDS Naturals, Sequences, FiniteSets

CONSTANTS
    Hosted,             \* the data sources registered, of Order below
    Enabled,            \* those of them the tracing session enables
    kernel_buffer_events, \* events the kernel's ring holds
    DRAIN_CAPACITY,     \* events one drain can read
    MaxEvents,          \* bound on the events the kernel logs
    MaxFlushes          \* bound on the flushes

\* The order in which run and drain_once go through the consumers.
Order == <<"sched", "offcpu", "oncpu">>

ASSUME HostAssumption ==
    /\ Hosted \subseteq {"sched", "offcpu", "oncpu"} /\ Hosted # {}
    /\ Enabled \subseteq Hosted /\ Enabled # {}
    /\ kernel_buffer_events \in Nat \ {0} /\ DRAIN_CAPACITY \in Nat \ {0}
    /\ MaxEvents \in Nat /\ MaxFlushes \in Nat

VARIABLES
    phase,              \* data source -> its session as the service sees it
    cb,                 \* the SDK thread: "none", or "set" between store and set
    shut,               \* the recorder thread: "no", "set", "join", "joined"
    signaled, setups_received, exit_requested,
    running, pending_stopper,   \* data source -> its ConsumerCtl
    wpc,                \* the worker's step
    k,                  \* the consumer a loop of the worker is at
    ret,                \* the step after the drain under way
    taken,              \* the stoppers collected
    live,               \* the consumers that exist
    opened,             \* the kdebug ring is ours
    read_failed,        \* a read of the ring has failed
    armed,              \* kperf is armed
    produced, drained,  \* events logged by the kernel, and gone from its ring
    fed,                \* data source -> the last event handed to its consumer
    mark,               \* data source -> events logged when its stop was asked for
    flush_acks,         \* number of sismo_flush_done calls
    stop_acks           \* data source -> number of sismo_stop_done calls

service == <<phase, cb, mark, flush_acks>>
control == <<setups_received, exit_requested, running, pending_stopper>>
worker == <<wpc, k, ret, taken>>
kernel == <<opened, read_failed, armed, produced, drained>>
feed == <<live, fed>>
vars == <<service, shut, signaled, control, worker, kernel, feed, stop_acks>>

Init ==
    /\ phase = [c \in Hosted |-> "registered"] /\ cb = "none"
    /\ shut = "no" /\ signaled = FALSE
    /\ setups_received = 0 /\ exit_requested = FALSE
    /\ running = [c \in Hosted |-> FALSE] /\ pending_stopper = [c \in Hosted |-> FALSE]
    /\ wpc = "setup_check" /\ k = 1 /\ ret = "collect" /\ taken = {}
    /\ live = {} /\ opened = FALSE /\ read_failed = FALSE /\ armed = FALSE
    /\ produced = 0 /\ drained = 0
    /\ fed = [c \in Hosted |-> 0] /\ mark = [c \in Hosted |-> 0]
    /\ flush_acks = 0 /\ stop_acks = [c \in Hosted |-> 0]

----------------------------------------------------------------------------
(* The trampolines, one at a time on the SDK's thread *)

on_setup(c) ==
    /\ cb = "none" /\ c \in Enabled /\ phase[c] = "registered"
    /\ phase' = [phase EXCEPT ![c] = "setup"] /\ cb' = "set"
    /\ setups_received' = setups_received + 1
    /\ UNCHANGED <<mark, flush_acks, shut, signaled, exit_requested, running, pending_stopper,
                   worker, kernel, feed, stop_acks>>

\* The service starts the data sources of a session once all are set up.
on_start(c) ==
    /\ cb = "none" /\ phase[c] = "setup"
    /\ \A d \in Enabled : phase[d] # "registered"
    /\ phase' = [phase EXCEPT ![c] = "started"] /\ cb' = "set"
    /\ running' = [running EXCEPT ![c] = TRUE]
    /\ UNCHANGED <<mark, flush_acks, shut, signaled, setups_received, exit_requested,
                   pending_stopper, worker, kernel, feed, stop_acks>>

\* Acked inline, without the worker.
on_flush(c) ==
    /\ cb = "none" /\ phase[c] = "started" /\ flush_acks < MaxFlushes
    /\ flush_acks' = flush_acks + 1
    /\ UNCHANGED <<phase, cb, mark, shut, signaled, control, worker, kernel, feed, stop_acks>>

\* The service stops a session as a whole.
on_stop(c) ==
    /\ cb = "none" /\ phase[c] = "started"
    /\ \A d \in Enabled : phase[d] \in {"started", "stopping"}
    /\ phase' = [phase EXCEPT ![c] = "stopping"] /\ cb' = "set"
    /\ mark' = [mark EXCEPT ![c] = produced]
    /\ pending_stopper' = [pending_stopper EXCEPT ![c] = TRUE]
    /\ UNCHANGED <<flush_acks, shut, signaled, setups_received, exit_requested, running, worker,
                   kernel, feed, stop_acks>>

\* Mutant: the trampolines forget the Event.
CallbackSilent ==
    /\ cb = "set" /\ cb' = "none"
    /\ UNCHANGED <<phase, mark, flush_acks, shut, signaled, control, worker, kernel, feed, stop_acks>>

CallbackSets ==
    /\ cb = "set" /\ cb' = "none"
    /\ signaled' = TRUE
    /\ UNCHANGED <<phase, mark, flush_acks, shut, control, worker, kernel, feed, stop_acks>>

----------------------------------------------------------------------------
(* RingHost::shutdown *)

shutdown ==
    /\ shut = "no" /\ shut' = "set"
    /\ exit_requested' = TRUE
    /\ UNCHANGED <<service, signaled, setups_received, running, pending_stopper, worker,
                   kernel, feed, stop_acks>>

ShutdownSets ==
    /\ shut = "set" /\ shut' = "join"
    /\ signaled' = TRUE
    /\ UNCHANGED <<service, control, worker, kernel, feed, stop_acks>>

\* join, then disarm().
Join ==
    /\ shut = "join" /\ wpc = "done"
    /\ shut' = "joined" /\ armed' = FALSE
    /\ UNCHANGED <<service, signaled, control, worker, opened, read_failed, produced, drained, feed, stop_acks>>

----------------------------------------------------------------------------
(* The kernel *)

\* A full ring overwrites its oldest event.
KernelLogs ==
    /\ opened /\ produced < MaxEvents
    /\ produced' = produced + 1
    /\ drained' = IF produced - drained = kernel_buffer_events THEN drained + 1 ELSE drained
    /\ UNCHANGED <<service, shut, signaled, control, worker, opened, read_failed, armed, feed, stop_acks>>

----------------------------------------------------------------------------
(* The worker *)

Go(from, to) == wpc = from /\ wpc' = to /\ UNCHANGED <<k, ret, taken>>

Local == UNCHANGED <<service, shut, control, kernel, feed, stop_acks>>

Reset(from, to) == Go(from, to) /\ signaled' = FALSE /\ Local
Wait(from, to) == signaled /\ Go(from, to) /\ UNCHANGED signaled /\ Local
Exits(from, to, else) ==
    Go(from, IF exit_requested THEN to ELSE else) /\ UNCHANGED signaled /\ Local

\* wait_for_setups
SetupsArrived == setups_received >= Cardinality(Hosted)

SetupCheck ==
    /\ Go("setup_check", IF exit_requested \/ SetupsArrived THEN "setup_exit" ELSE "setup_reset")
    /\ UNCHANGED signaled /\ Local
SetupReset == Reset("setup_reset", "setup_recheck")
SetupRecheck ==
    /\ Go("setup_recheck", IF exit_requested \/ SetupsArrived THEN "setup_exit" ELSE "setup_wait")
    /\ UNCHANGED signaled /\ Local
SetupWait == Wait("setup_wait", "setup_check")
SetupExit == Exits("setup_exit", "done", "open")

\* KdebugRing::open fails: the worker returns.
OpenFails == Go("open", "done") /\ UNCHANGED signaled /\ Local

OpenRing ==
    /\ Go("open", "arm")
    /\ opened' = TRUE
    /\ UNCHANGED <<service, shut, signaled, control, read_failed, armed, produced, drained, feed, stop_acks>>

\* The perf consumers exist when there is a target pid, task_for_pid succeeds and
\* arm succeeds; the sched consumer always.
Arm ==
    /\ Go("arm", "reset")
    /\ \E ok \in BOOLEAN :
        /\ armed' = (ok /\ Hosted \cap {"offcpu", "oncpu"} # {})
        /\ live' = IF ok THEN Hosted ELSE Hosted \cap {"sched"}
    /\ UNCHANGED <<service, shut, signaled, control, opened, read_failed, produced, drained, fed, stop_acks>>

\* One drain_once: read a batch, then hand it to each consumer found running.
StartDrain(from, to) ==
    /\ wpc = from /\ wpc' = "read" /\ ret' = to /\ k' = 1
    /\ UNCHANGED <<taken, service, shut, signaled, control, kernel, feed, stop_acks>>

Read ==
    /\ Go("read", "feed")
    /\ \/ /\ drained' = IF produced - drained > DRAIN_CAPACITY THEN drained + DRAIN_CAPACITY
                        ELSE produced
          /\ UNCHANGED read_failed
       \/ read_failed' = TRUE /\ UNCHANGED drained      \* KDREADTR failed: an empty batch
    /\ UNCHANGED <<service, shut, signaled, control, opened, armed, produced, feed, stop_acks>>

Feed ==
    /\ wpc = "feed"
    /\ fed' = IF Order[k] \in live /\ running[Order[k]]
              THEN [fed EXCEPT ![Order[k]] = drained] ELSE fed
    /\ IF k < Len(Order) THEN k' = k + 1 /\ wpc' = "feed" ELSE k' = 1 /\ wpc' = ret
    /\ UNCHANGED <<ret, taken, service, shut, signaled, control, kernel, live, stop_acks>>

LoopReset == Reset("reset", "exit")
LoopExit == Exits("exit", "drop", "poll")

any_running == \E c \in Hosted : running[c]

LoopDrain ==
    \/ any_running /\ StartDrain("poll", "collect")
    \/ ~any_running /\ Go("poll", "collect") /\ UNCHANGED signaled /\ Local

\* Swap each pending_stopper out in turn.
Collect ==
    /\ wpc = "collect"
    /\ LET c == Order[k]
           s == c \in Hosted /\ pending_stopper[c]
       IN  /\ taken' = IF s THEN taken \cup {c} ELSE taken
           /\ pending_stopper' = IF s THEN [pending_stopper EXCEPT ![c] = FALSE]
                                 ELSE pending_stopper
           /\ IF k < Len(Order) THEN k' = k + 1 /\ UNCHANGED wpc
              ELSE k' = 1 /\ wpc' = IF taken' = {} THEN "exit2" ELSE "final"
    /\ UNCHANGED <<ret, service, shut, signaled, setups_received, exit_requested, running,
                   kernel, feed, stop_acks>>

\* Mutant: no final drain.
NoFinalDrain == Go("final", "ack") /\ UNCHANGED signaled /\ Local

FinalDrain == StartDrain("final", "ack")

\* sismo_stop_done for the first of the collected stoppers ...
Ack ==
    /\ wpc = "ack"
    /\ Order[k] \in taken
    /\ stop_acks' = [stop_acks EXCEPT ![Order[k]] = @ + 1]
    /\ wpc' = "clear"
    /\ UNCHANGED <<k, ret, taken, service, shut, signaled, control, kernel, feed>>

AckNext ==
    /\ wpc = "ack"
    /\ Order[k] \notin taken
    /\ IF k < Len(Order) THEN k' = k + 1 /\ UNCHANGED wpc ELSE k' = 1 /\ wpc' = "exit2"
    /\ UNCHANGED <<ret, taken, service, shut, signaled, control, kernel, feed, stop_acks>>

\* ... then its running flag.
Clear ==
    /\ wpc = "clear" /\ wpc' = "ack"
    /\ taken' = taken \ {Order[k]}
    /\ running' = [running EXCEPT ![Order[k]] = FALSE]
    /\ UNCHANGED <<k, ret, service, shut, signaled, setups_received, exit_requested,
                   pending_stopper, kernel, feed, stop_acks>>

LoopExit2 == Exits("exit2", "drop", "choose")
Choose ==
    /\ Go("choose", IF any_running THEN "wait_timeout" ELSE "wait")
    /\ UNCHANGED signaled /\ Local
WaitTimeout == Go("wait_timeout", "reset") /\ UNCHANGED signaled /\ Local
LoopWait == Wait("wait", "reset")

\* KdebugRing's Drop removes the session.
DropRing ==
    /\ Go("drop", "done")
    /\ opened' = FALSE
    /\ UNCHANGED <<service, shut, signaled, control, read_failed, armed, produced, drained, feed, stop_acks>>

----------------------------------------------------------------------------
Service == \E c \in Hosted : on_setup(c) \/ on_start(c) \/ on_flush(c) \/ on_stop(c)
Recorder == shutdown \/ ShutdownSets \/ Join
Worker ==
    \/ SetupCheck \/ SetupReset \/ SetupRecheck \/ SetupWait \/ SetupExit
    \/ OpenFails \/ OpenRing \/ Arm \/ Read \/ Feed
    \/ LoopReset \/ LoopExit \/ LoopDrain \/ Collect \/ FinalDrain \/ Ack \/ AckNext \/ Clear
    \/ LoopExit2 \/ Choose \/ WaitTimeout \/ LoopWait \/ DropRing

Next == Service \/ CallbackSets \/ Recorder \/ KernelLogs \/ Worker

\* Threads run and a callback or shutdown begun is finished; no one owes a
\* start, a stop or a shutdown.
Spec ==
    /\ Init /\ [][Next]_vars
    /\ WF_vars(CallbackSets) /\ WF_vars(ShutdownSets) /\ WF_vars(Join) /\ WF_vars(Worker)

----------------------------------------------------------------------------
(* Properties *)

Steps == {"setup_check", "setup_reset", "setup_recheck", "setup_wait", "setup_exit", "open",
          "arm", "reset", "exit", "poll", "read", "feed", "collect", "final", "ack", "clear",
          "exit2", "choose", "wait_timeout", "wait", "drop", "done"}

TypeOK ==
    /\ phase \in [Hosted -> {"registered", "setup", "started", "stopping"}]
    /\ cb \in {"none", "set"} /\ shut \in {"no", "set", "join", "joined"}
    /\ signaled \in BOOLEAN /\ setups_received \in 0..Cardinality(Enabled)
    /\ exit_requested \in BOOLEAN
    /\ running \in [Hosted -> BOOLEAN] /\ pending_stopper \in [Hosted -> BOOLEAN]
    /\ wpc \in Steps /\ k \in DOMAIN Order /\ ret \in {"collect", "ack"}
    /\ taken \subseteq Hosted /\ live \subseteq Hosted
    /\ opened \in BOOLEAN /\ read_failed \in BOOLEAN /\ armed \in BOOLEAN
    /\ produced \in 0..MaxEvents /\ drained \in 0..produced
    /\ fed \in [Hosted -> 0..drained] /\ mark \in [Hosted -> 0..produced]
    /\ flush_acks \in 0..MaxFlushes /\ stop_acks \in [Hosted -> 0..1]

\* The worker never sleeps over a stop or an exit that is not about to wake it,
\* whichever data source it comes from and whatever the worker was doing.
NoLostWakeup ==
    wpc = "wait" /\ (exit_requested \/ \E c \in Hosted : pending_stopper[c]) =>
        signaled \/ cb = "set" \/ shut = "set"

\* When a data source's stop is acked its consumer has been handed every event
\* logged before the stop was asked for that the ring still held, although the
\* data sources stop one by one and share their batches, unless a read failed.
\* (One drain has to read the whole ring: kernel_buffer_events, which a session
\* may set, and DRAIN_CAPACITY have the same default.)
FinalDrainFed ==
    \A c \in live : stop_acks[c] = 1 => fed[c] >= mark[c] \/ read_failed

\* After shutdown the machine-global facilities are free for the next owner, on
\* every path the worker may have ended by.
SingletonsReleased == shut = "joined" => ~opened /\ ~armed

\* The worker hears its stops, acks one only when its consumer has got
\* everything, and gives the machine's facilities back.
HostSafe ==
    /\ TypeOK
    /\ NoLostWakeup
    /\ FinalDrainFed
    /\ SingletonsReleased

\* A stop is acked for as long as there is a worker: only the recorder's
\* shutdown, or an open that failed, overrides it.
StopAckedWhileServed ==
    \A c \in Enabled : phase[c] = "stopping" ~> (stop_acks[c] = 1 \/ exit_requested \/ wpc = "done")

\* What the comment on stop_ctl relies on, each data source having a life of its
\* own: the worker acks every stop the trampolines defer to it.
StopAnswered ==
    \A c \in Enabled : phase[c] = "stopping" ~> (stop_acks[c] = 1 \/ exit_requested)

\* shutdown returns.
ExitJoins == exit_requested ~> shut = "joined"

\* A running consumer that exists gets every event while the host lives and
\* reads succeed.
EventsFed ==
    \A c \in Enabled : \A n \in 1..MaxEvents :
        (c \in live /\ phase[c] = "started" /\ produced >= n) ~>
            (fed[c] >= n \/ phase[c] = "stopping" \/ exit_requested \/ read_failed)

\* The host serves what it hosts: events, stops and its own shutdown.
HostServes ==
    /\ StopAckedWhileServed
    /\ ExitJoins
    /\ EventsFed
=============================================================================
