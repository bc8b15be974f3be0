----------------------------- MODULE HeapWorker -----------------------------
(***************************************************************************)
(* The control side of sismo-core/src/heap/macos_heap_capture.rs: the      *)
(* worker thread of HeapCapture, the trampolines by which the tracing SDK  *)
(* reaches it, the recorder's shutdown, and the wakeup Event of            *)
(* worker_sdk.rs that ties the three threads together.                     *)
(*                                                                         *)
(* A record is only counted: how it crosses the ring is HeapRing, what it  *)
(* does to the book is HeapTracking.  A trampoline and shutdown are two    *)
(* steps each, the store of what they ask for and the set of the Event.    *)
(***************************************************************************)
EXTENDS Naturals

CONSTANTS
    DRAIN_LIMIT,    \* records after which drain_into gives up (4096 in the code)
    MaxRecords,     \* bound on the records the target writes
    MaxFlushes      \* bound on the flushes of the session

ASSUME DrainAssumption == DRAIN_LIMIT \in Nat
ASSUME BoundAssumption == MaxRecords \in Nat /\ MaxFlushes \in Nat

VARIABLES
    phase,              \* the session as the tracing service sees it
    flushes,            \* flushes asked for; the n-th flush's handle is n
    cb,                 \* the SDK thread: "none", or "set" between store and set
    shut,               \* the recorder thread: "no", "set", "join", "joined"
    signaled,           \* Event
    setup_received, running, exit_requested,
    pending_stopper, pending_flusher,
    wpc,                \* the worker's step
    ret,                \* the step after the drain under way
    batch,              \* records that drain has taken
    flusher,            \* the handle taken from pending_flusher
    ctrl_open,          \* the recorder's end of the control connection
    attached,           \* the target writes to the ring
    produced,           \* records the target has written
    booked,             \* records drained into the book
    snapshot,           \* records the last emitted profile accounts for
    flush_acks,         \* flush handle -> number of sismo_flush_done calls
    stop_acks           \* number of sismo_stop_done calls

service == <<phase, flushes, cb>>
control == <<setup_received, running, exit_requested, pending_stopper, pending_flusher>>
worker == <<wpc, ret, batch, flusher>>
data == <<ctrl_open, attached, produced, booked, snapshot>>
acks == <<flush_acks, stop_acks>>
vars == <<service, shut, signaled, control, worker, data, acks>>

\* Records published in the ring and not yet read.
ring == produced - booked

Init ==
    /\ phase = "registered" /\ flushes = 0 /\ cb = "none"
    /\ shut = "no" /\ signaled = FALSE
    /\ setup_received = FALSE /\ running = FALSE /\ exit_requested = FALSE
    /\ pending_stopper = FALSE /\ pending_flusher = 0
    /\ wpc = "setup_check" /\ ret = "flush" /\ batch = 0 /\ flusher = 0
    /\ ctrl_open = FALSE /\ attached = FALSE
    /\ produced = 0 /\ booked = 0 /\ snapshot = 0
    /\ flush_acks = [f \in 1..MaxFlushes |-> 0] /\ stop_acks = 0

----------------------------------------------------------------------------
(* The tracing SDK's thread runs one callback at a time *)

on_setup ==
    /\ cb = "none" /\ phase = "registered"
    /\ phase' = "setup" /\ cb' = "set"
    /\ setup_received' = TRUE
    /\ UNCHANGED <<flushes, shut, signaled, running, exit_requested, pending_stopper,
                   pending_flusher, worker, data, acks>>

on_start ==
    /\ cb = "none" /\ phase = "setup"
    /\ phase' = "started" /\ cb' = "set"
    /\ running' = TRUE
    /\ UNCHANGED <<flushes, shut, signaled, setup_received, exit_requested, pending_stopper,
                   pending_flusher, worker, data, acks>>

on_flush ==
    /\ cb = "none" /\ phase = "started" /\ flushes < MaxFlushes
    /\ flushes' = flushes + 1 /\ cb' = "set"
    /\ pending_flusher' = flushes + 1
    /\ UNCHANGED <<phase, shut, signaled, setup_received, running, exit_requested,
                   pending_stopper, worker, data, acks>>

on_stop ==
    /\ cb = "none" /\ phase = "started"
    /\ phase' = "stopping" /\ cb' = "set"
    /\ pending_stopper' = TRUE
    /\ UNCHANGED <<flushes, shut, signaled, setup_received, running, exit_requested,
                   pending_flusher, worker, data, acks>>

\* Each trampoline ends with wakeup.set().
CallbackSets ==
    /\ cb = "set" /\ cb' = "none"
    /\ signaled' = TRUE
    /\ UNCHANGED <<phase, flushes, shut, control, worker, data, acks>>

----------------------------------------------------------------------------
(* HeapCapture::shutdown, on the recorder's thread, whatever the session does *)

shutdown ==
    /\ shut = "no" /\ shut' = "set"
    /\ exit_requested' = TRUE
    /\ UNCHANGED <<service, signaled, setup_received, running, pending_stopper,
                   pending_flusher, worker, data, acks>>

ShutdownSets ==
    /\ shut = "set" /\ shut' = "join"
    /\ signaled' = TRUE
    /\ UNCHANGED <<service, control, worker, data, acks>>

Join ==
    /\ shut = "join" /\ wpc = "done"
    /\ shut' = "joined"
    /\ UNCHANGED <<service, signaled, control, worker, data, acks>>

----------------------------------------------------------------------------
(* The target *)

TargetWrites ==
    /\ attached /\ produced < MaxRecords
    /\ produced' = produced + 1
    /\ UNCHANGED <<service, shut, signaled, control, worker, ctrl_open, attached, booked,
                   snapshot, acks>>

\* Its listener reads EOF and the calls in flight are over.
TargetDetaches ==
    /\ attached /\ ~ctrl_open
    /\ attached' = FALSE
    /\ UNCHANGED <<service, shut, signaled, control, worker, ctrl_open, produced, booked,
                   snapshot, acks>>

----------------------------------------------------------------------------
(* The worker.  Go is a step that changes nothing but the worker's place. *)

Go(from, to) == wpc = from /\ wpc' = to /\ UNCHANGED <<ret, batch, flusher>>

Local == UNCHANGED <<service, shut, control, data, acks>>

Reset(from, to) == Go(from, to) /\ signaled' = FALSE /\ Local

\* Event::wait returns once the event is signaled, and leaves it so.
Wait(from, to) == signaled /\ Go(from, to) /\ UNCHANGED signaled /\ Local

Exits(from, to, else) ==
    /\ Go(from, IF exit_requested THEN to ELSE else)
    /\ UNCHANGED signaled /\ Local

\* wait_for_setup
SetupCheck ==
    /\ Go("setup_check", IF exit_requested \/ setup_received THEN "setup_exit" ELSE "setup_reset")
    /\ UNCHANGED signaled /\ Local

SetupReset == Reset("setup_reset", "setup_recheck")

SetupRecheck ==
    /\ Go("setup_recheck", IF exit_requested \/ setup_received THEN "setup_exit" ELSE "setup_wait")
    /\ UNCHANGED signaled /\ Local

SetupWait == Wait("setup_wait", "setup_check")

SetupExit == Exits("setup_exit", "done", "heavy")

\* The heavy setup phase: no target pid, task_for_pid, the symbolizer, the
\* module list (which polls exit_requested), the ring or the attach may fail ...
HeavyFails ==
    /\ Go("heavy", "park_reset")
    /\ UNCHANGED signaled /\ Local

\* ... or the target is attached.
HeavyAttaches ==
    /\ Go("heavy", "reset")
    /\ ctrl_open' = TRUE /\ attached' = TRUE
    /\ UNCHANGED <<service, shut, signaled, control, produced, booked, snapshot, acks>>

Setup ==
    \/ SetupCheck \/ SetupReset \/ SetupRecheck \/ SetupWait \/ SetupExit
    \/ HeavyFails \/ HeavyAttaches

\* Mutant: load for swap.
LoadFlusher(from, some, none) ==
    /\ wpc = from /\ wpc' = IF pending_flusher # 0 THEN some ELSE none
    /\ flusher' = pending_flusher
    /\ UNCHANGED <<service, shut, signaled, control, ret, batch, data, acks>>

\* pending_flusher.swap(0) as the code's two loops do it, going on to `some`
\* with the handle, or to `none`.
TakeFlusher(from, some, none) ==
    /\ wpc = from /\ wpc' = IF pending_flusher # 0 THEN some ELSE none
    /\ flusher' = pending_flusher
    /\ pending_flusher' = 0
    /\ UNCHANGED <<service, shut, signaled, setup_received, running, exit_requested,
                   pending_stopper, ret, batch, data, acks>>

TakeStopper(from, some, none) ==
    /\ Go(from, IF pending_stopper THEN some ELSE none)
    /\ pending_stopper' = FALSE
    /\ UNCHANGED <<service, shut, signaled, setup_received, running, exit_requested,
                   pending_flusher, data, acks>>

FlushDone(from, to) ==
    /\ Go(from, to)
    /\ flush_acks' = [flush_acks EXCEPT ![flusher] = @ + 1]
    /\ UNCHANGED <<service, shut, signaled, control, data, stop_acks>>

StopDone(from, to) ==
    /\ Go(from, to)
    /\ stop_acks' = stop_acks + 1
    /\ UNCHANGED <<service, shut, signaled, control, data, flush_acks>>

StopRunning(from, to) ==
    /\ Go(from, to)
    /\ running' = FALSE
    /\ UNCHANGED <<service, shut, signaled, setup_received, exit_requested, pending_stopper,
                   pending_flusher, data, acks>>

\* park_until_exit
ParkReset == Reset("park_reset", "park_exit")
ParkExit == Exits("park_exit", "done", "park_flush")
ParkFlush == TakeFlusher("park_flush", "park_flush_done", "park_stop")
ParkFlushDone == FlushDone("park_flush_done", "park_stop")
\* Mutant: a parked worker ignores stop.
ParkStopIgnored == Go("park_stop", "park_exit2") /\ UNCHANGED signaled /\ Local
ParkStop == TakeStopper("park_stop", "park_stop_done", "park_exit2")
ParkStopDone == StopDone("park_stop_done", "park_running")
ParkRunning == StopRunning("park_running", "park_exit2")
ParkExit2 == Exits("park_exit2", "done", "park_wait")
ParkWait == Wait("park_wait", "park_reset")

Park ==
    \/ ParkReset \/ ParkExit \/ ParkFlush \/ ParkFlushDone \/ ParkStop \/ ParkStopDone
    \/ ParkRunning \/ ParkExit2 \/ ParkWait

----------------------------------------------------------------------------
(* The main loop *)

StartDrain(from, to) ==
    /\ wpc = from /\ wpc' = "drain" /\ ret' = to /\ batch' = 0
    /\ UNCHANGED <<flusher, service, shut, signaled, control, data, acks>>

\* One turn of drain_into's loop.
DrainRecord ==
    /\ wpc = "drain" /\ ring > 0
    /\ booked' = booked + 1
    /\ batch' = batch + 1
    /\ wpc' = IF batch + 1 > DRAIN_LIMIT THEN ret ELSE "drain"
    /\ UNCHANGED <<ret, flusher, service, shut, signaled, control, ctrl_open, attached,
                   produced, snapshot, acks>>

DrainEmpty ==
    /\ ring = 0
    /\ Go("drain", ret)
    /\ UNCHANGED signaled /\ Local

Emit(from, to) ==
    /\ Go(from, to)
    /\ snapshot' = booked
    /\ UNCHANGED <<service, shut, signaled, control, ctrl_open, attached, produced, booked, acks>>

LoopReset == Reset("reset", "exit")
LoopExit == Exits("exit", "close", "poll")

LoopDrain ==
    \/ running /\ StartDrain("poll", "flush")
    \/ ~running /\ Go("poll", "flush") /\ UNCHANGED signaled /\ Local

LoopFlush == TakeFlusher("flush", "flush_drain", "stop")
FlushDrain == StartDrain("flush_drain", "flush_emit")
FlushEmit == Emit("flush_emit", "flush_done")
FlushAck == FlushDone("flush_done", "stop")

LoopStop == TakeStopper("stop", "stop_close", "exit2")

StopClose ==
    /\ Go("stop_close", IF ctrl_open THEN "settle" ELSE "stop_drain")
    /\ ctrl_open' = FALSE
    /\ UNCHANGED <<service, shut, signaled, control, attached, produced, booked, snapshot, acks>>

\* wait_timeout(DETACH_SETTLE_NS) returns at once when the event is already
\* signaled, when it is set meanwhile, or after 5 ms, which cover the target's
\* detach.
Settle ==
    /\ signaled \/ ~attached
    /\ Go("settle", "stop_drain")
    /\ UNCHANGED signaled /\ Local

\* Mutant: the final drain is not followed by a snapshot.
StopDrainOnly == StartDrain("stop_drain", "stop_done")
StopDrain == StartDrain("stop_drain", "stop_emit")
StopEmit == Emit("stop_emit", "stop_done")
StopAck == StopDone("stop_done", "stop_running")
StopClear == StopRunning("stop_running", "exit2")

LoopExit2 == Exits("exit2", "close", "choose")

\* wait_timeout(DRAIN_INTERVAL) while running, else wait.
Choose ==
    /\ Go("choose", IF running THEN "wait_timeout" ELSE "wait")
    /\ UNCHANGED signaled /\ Local
WaitTimeout == Go("wait_timeout", "reset") /\ UNCHANGED signaled /\ Local
LoopWait == Wait("wait", "reset")

CloseControl ==
    /\ Go("close", "done")
    /\ ctrl_open' = FALSE
    /\ UNCHANGED <<service, shut, signaled, control, attached, produced, booked, snapshot, acks>>

Loop ==
    \/ LoopReset \/ LoopExit \/ LoopDrain \/ DrainRecord \/ DrainEmpty
    \/ LoopFlush \/ FlushDrain \/ FlushEmit \/ FlushAck
    \/ LoopStop \/ StopClose \/ Settle \/ StopDrain \/ StopEmit \/ StopAck \/ StopClear
    \/ LoopExit2 \/ Choose \/ WaitTimeout \/ LoopWait \/ CloseControl

----------------------------------------------------------------------------
Service == on_setup \/ on_start \/ on_flush \/ on_stop
Recorder == shutdown \/ ShutdownSets \/ Join
Target == TargetWrites \/ TargetDetaches
Worker == Setup \/ Park \/ Loop

Next == Service \/ CallbackSets \/ Recorder \/ Target \/ Worker

\* Threads run: a callback or a shutdown that was begun is finished, the worker
\* takes its steps, the target's listener sees the EOF.  Nobody owes a flush, a
\* stop or a shutdown.
Fairness ==
    /\ WF_vars(CallbackSets)
    /\ WF_vars(ShutdownSets)
    /\ WF_vars(Join)
    /\ WF_vars(TargetDetaches)
    /\ WF_vars(Worker)

Spec == Init /\ [][Next]_vars /\ Fairness

----------------------------------------------------------------------------
(* Properties *)

SetupSteps == {"setup_check", "setup_reset", "setup_recheck", "setup_wait", "setup_exit", "heavy"}
ParkSteps == {"park_reset", "park_exit", "park_flush", "park_flush_done", "park_stop",
              "park_stop_done", "park_running", "park_exit2", "park_wait"}
LoopSteps == {"reset", "exit", "poll", "drain", "flush", "flush_drain", "flush_emit",
              "flush_done", "stop", "stop_close", "settle", "stop_drain", "stop_emit",
              "stop_done", "stop_running", "exit2", "choose", "wait_timeout", "wait", "close"}

TypeOK ==
    /\ phase \in {"registered", "setup", "started", "stopping"}
    /\ flushes \in 0..MaxFlushes /\ cb \in {"none", "set"}
    /\ shut \in {"no", "set", "join", "joined"}
    /\ signaled \in BOOLEAN /\ setup_received \in BOOLEAN /\ running \in BOOLEAN
    /\ exit_requested \in BOOLEAN /\ pending_stopper \in BOOLEAN
    /\ ctrl_open \in BOOLEAN /\ attached \in BOOLEAN
    /\ pending_flusher \in 0..flushes /\ flusher \in 0..flushes
    /\ wpc \in SetupSteps \cup ParkSteps \cup LoopSteps \cup {"done"}
    /\ ret \in {"flush", "flush_emit", "stop_emit"} /\ batch \in 0..DRAIN_LIMIT + 1
    /\ produced \in 0..MaxRecords /\ booked \in 0..produced /\ snapshot \in 0..booked
    /\ flush_acks \in [1..MaxFlushes -> Nat] /\ stop_acks \in Nat

\* The worker that has seen nothing to do and is about to sleep is awake again
\* as soon as there is: whatever was stored since its last look has set the
\* event, or is about to.  This is what resetting before looking is for.
NoLostWakeup ==
    /\ wpc = "setup_wait" /\ (setup_received \/ exit_requested) =>
           signaled \/ cb = "set" \/ shut = "set"
    /\ wpc \in {"wait", "park_wait"} /\ (pending_stopper \/ pending_flusher # 0 \/ exit_requested) =>
           signaled \/ cb = "set" \/ shut = "set"

\* A handle is a heap object that its ack deletes: no handle is acked twice, nor
\* acked at all before the service handed it out, with callbacks storing new
\* handles while the worker is busy with old ones.
AckedOnce ==
    /\ \A f \in 1..MaxFlushes : flush_acks[f] <= IF f <= flushes THEN 1 ELSE 0
    /\ stop_acks <= IF phase = "stopping" THEN 1 ELSE 0

\* When the session's stop is acked the profile in the trace accounts for every
\* record the worker ever booked, and the target was told to detach; a worker
\* whose setup failed has booked nothing.
StopAckedLast ==
    [][stop_acks' # stop_acks => snapshot = booked /\ ~ctrl_open]_vars

\* Whichever way the worker ends, it has closed the control connection, without
\* which the target would go on sampling for nobody.
ReleasedAtExit == wpc = "done" => ~ctrl_open

\* A stop is always acked, whether setup succeeded, failed or is still going on
\* when it comes; only the recorder's shutdown overrides it.
StopAnswered == phase = "stopping" ~> (stop_acks = 1 \/ exit_requested)

\* A flush is acked, or a later one is: the service takes an ack for all the
\* flushes up to it, and a handle that came before the worker looked again was
\* overwritten.
FlushAnswered ==
    \A f \in 1..MaxFlushes :
        flushes >= f ~> (exit_requested \/ \E g \in f..MaxFlushes : flush_acks[g] = 1)

\* shutdown ends: from wherever it is, setup, park, drain, settle or sleep, the
\* worker comes to its end and the join returns.
ExitJoins == exit_requested ~> shut = "joined"

\* While the session runs, what the target writes gets booked.
RecordsBooked ==
    \A n \in 1..MaxRecords :
        (produced >= n /\ running) ~> (booked >= n \/ ~running \/ exit_requested)

\* The worker of HeapCapture hears what is asked of it, answers each request at
\* most once, and leaves no connection behind.
WorkerSafe ==
    /\ NoLostWakeup
    /\ AckedOnce
    /\ ReleasedAtExit

\* Whatever is asked of the worker, in whatever state it is, gets done.
WorkerAnswers ==
    /\ StopAnswered
    /\ FlushAnswered
    /\ ExitJoins
    /\ RecordsBooked

\* ----- The inductive invariant behind the safety properties above -----

\* Someone has set the event or is about to.
Awake == signaled \/ cb = "set" \/ shut = "set"

\* Steps from the look at pending_flusher to the sleep, in each of the loops.
PastFlush == {"flush_drain", "flush_emit", "flush_done", "stop", "stop_close", "settle",
              "stop_drain", "stop_emit", "stop_done", "stop_running", "exit2", "choose", "wait",
              "park_flush_done", "park_stop", "park_stop_done", "park_running", "park_exit2",
              "park_wait"}

\* Steps from the look at pending_stopper to the sleep.
PastStop == {"stop_close", "settle", "stop_drain", "stop_emit", "stop_done", "stop_running",
             "exit2", "choose", "wait",
             "park_stop_done", "park_running", "park_exit2", "park_wait"}

\* A request stored after the worker's look keeps the worker awake.
Heard ==
    /\ wpc \in PastFlush \/ (wpc = "drain" /\ ret # "flush") =>
           (pending_flusher # 0 => Awake)
    /\ wpc \in PastStop \/ (wpc = "drain" /\ ret = "stop_emit") =>
           (pending_stopper => Awake)
    /\ wpc \in {"setup_wait", "choose", "wait", "park_wait"} => (exit_requested => Awake)
    /\ wpc = "setup_wait" => (setup_received => Awake)

\* The steps at which the worker holds a flush handle it has still to ack.
HoldsFlusher ==
    \/ wpc \in {"flush_drain", "flush_emit", "flush_done", "park_flush_done"}
    \/ wpc = "drain" /\ ret = "flush_emit"

\* The steps at which the worker holds a stopper it has still to ack.
HoldsStopper ==
    \/ wpc \in {"stop_close", "settle", "stop_drain", "stop_emit", "stop_done", "park_stop_done"}
    \/ wpc = "drain" /\ ret = "stop_emit"

\* A handle is in one place: with the service, in its slot, with the worker, or acked.
HandlesOnce ==
    /\ \A f \in 1..MaxFlushes : flush_acks[f] <= IF f <= flushes THEN 1 ELSE 0
    /\ pending_flusher # 0 => flush_acks[pending_flusher] = 0
    /\ HoldsFlusher => flusher # 0 /\ flush_acks[flusher] = 0 /\ flusher # pending_flusher
    /\ stop_acks <= IF phase = "stopping" THEN 1 ELSE 0
    /\ pending_stopper => phase = "stopping" /\ stop_acks = 0
    /\ HoldsStopper => phase = "stopping" /\ stop_acks = 0 /\ ~pending_stopper

\* The control connection is open in the main loop only.
OpenInLoop == ctrl_open => wpc \in LoopSteps

\* A drain under way has taken no more than its limit.
DrainBounded == wpc = "drain" => batch <= DRAIN_LIMIT

\* Nothing is booked before the main loop; the stop branch has closed the
\* connection before its drain, and its snapshot is taken when its ack is due.
StopReady ==
    /\ wpc \in SetupSteps \cup ParkSteps => booked = 0
    /\ HoldsStopper => wpc = "stop_close" \/ ~ctrl_open
    /\ wpc = "stop_done" => snapshot = booked

WorkerInv == TypeOK /\ Heard /\ HandlesOnce /\ OpenInLoop /\ DrainBounded /\ StopReady
=============================================================================
