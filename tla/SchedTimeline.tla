--------------------------- MODULE SchedTimeline ----------------------------
(***************************************************************************)
(* SchedConsumer of sismo-core/src/sched/ring_host.rs: it pairs, per CPU,  *)
(* the switch event of a context switch with the dispatch event that       *)
(* carries the outgoing thread's final state, across the batches RingHost  *)
(* hands it, and announces the processes and threads it first sees in the  *)
(* thread map.                                                             *)
(*                                                                         *)
(* The kernel that logs the events is external.  An event's timestamp is   *)
(* its place in trace, the record of everything logged.                    *)
(***************************************************************************)
EXTENDS Naturals, Sequences, FiniteSets, SequencesExt

CONSTANTS
    Cpus, Tids, Pids,
    None,               \* no thread, process or switch
    StateBits,          \* the thread states that occur, each a set of xnu's state flags
    MAX_NEW_THREADS, MAX_NEW_PROCESSES,     \* staging caps per drain
    DRAIN_CAPACITY,     \* events in a batch
    MaxEvents,          \* bound on the events logged
    FewEvents,          \* the same once an event was lost or threads came or went
    MaxTurnover         \* bound on the threads that come or go

\* A buffered switch; its timestamp is its place in the trace.
PendingSwitch == [ts : Nat, outgoing : Tids, incoming : Tids]

ASSUME TimelineAssumption ==
    /\ None \notin Cpus \cup Tids \cup Pids
    /\ None \notin PendingSwitch
    /\ StateBits \subseteq SUBSET {"WAIT", "SUSP", "UNINT"}
    /\ MAX_NEW_THREADS \in Nat \ {0} /\ MAX_NEW_PROCESSES \in Nat \ {0}
    /\ DRAIN_CAPACITY \in Nat \ {0}
    /\ MaxEvents \in Nat /\ FewEvents \in 0..MaxEvents /\ MaxTurnover \in Nat

VARIABLES
    trace,      \* events logged by the kernel
    read,       \* how many of them have left the ring
    lost,       \* some left it overwritten and not read
    on,         \* CPU -> the thread it runs
    half,       \* CPU -> the thread switched out and not yet dispatched, or None
    map,        \* the kernel's thread map: tid -> pid, or None
    turnover,   \* threads created and exited
    watching,   \* the sched data source is running
    first,      \* events that had left the ring when it started
    pending,    \* CPU -> buffered switch, or None
    out,        \* the pairs emitted, two packets each
    cache,      \* PtCache: [threads : tid -> pid or None, processes : set of pids]
    announced   \* what was emitted in process tree deltas, same shape

kernel == <<trace, on, half, map, turnover>>
schedVars == <<kernel, read, lost, watching, first, pending, out, cache, announced>>

Nothing == [threads |-> [t \in Tids |-> None], processes |-> {}]

\* The idle thread of each CPU is one of Tids.
SchedInit ==
    /\ trace = << >> /\ read = 0 /\ lost = FALSE
    /\ on \in {f \in [Cpus -> Tids] : \A c, d \in Cpus : f[c] = f[d] => c = d}
    /\ half = [c \in Cpus |-> None]
    /\ \E p \in Pids : map \in [Tids -> {p, None}]     \* other processes come by Spawn
    /\ \A c \in Cpus : map[on[c]] # None
    /\ turnover = 0 /\ watching = FALSE /\ first = 0
    /\ pending = [c \in Cpus |-> None] /\ out = << >>
    /\ cache = Nothing /\ announced = Nothing

----------------------------------------------------------------------------
(* The kernel *)

Log(e) ==
    /\ Len(trace) < (IF turnover = 0 /\ ~lost THEN MaxEvents ELSE FewEvents)
    /\ trace' = Append(trace, e)

Switch(c, t) ==
    /\ half[c] = None /\ map[t] # None
    /\ t = on[c] \/ \A d \in Cpus : t # on[d] /\ t # half[d]
    /\ Log([csc |-> "MACH_SCHED", code |-> "SWITCH", cpu |-> c, outgoing |-> on[c], incoming |-> t])
    /\ half' = [half EXCEPT ![c] = on[c]]
    /\ on' = [on EXCEPT ![c] = t]
    /\ UNCHANGED <<map, turnover, read, lost, watching, first, pending, out, cache, announced>>

\* bits are the outgoing thread's state flags.
Dispatch(c, bits) ==
    /\ half[c] # None
    /\ Log([csc |-> "MACH_SCHED", code |-> "DISPATCH", cpu |-> c, outgoing |-> half[c], bits |-> bits])
    /\ half' = [half EXCEPT ![c] = None]
    /\ UNCHANGED <<on, map, turnover, read, lost, watching, first, pending, out, cache, announced>>

\* A kperf event in the shared ring whose code is that of a switch.
PerfFires(c, t) ==
    /\ Log([csc |-> "PERF", code |-> "SWITCH", cpu |-> c, outgoing |-> on[c], incoming |-> t])
    /\ UNCHANGED <<on, half, map, turnover, read, lost, watching, first, pending, out, cache, announced>>

Idle(t) == \A c \in Cpus : t # on[c] /\ t # half[c]

ComesOrGoes ==
    /\ turnover < MaxTurnover /\ turnover' = turnover + 1
    /\ Len(trace) <= FewEvents

Spawn(t, p) ==
    /\ ComesOrGoes
    /\ map[t] = None /\ map' = [map EXCEPT ![t] = p]
    /\ UNCHANGED <<trace, on, half, read, lost, watching, first, pending, out, cache, announced>>

Exit(t) ==
    /\ ComesOrGoes
    /\ map[t] # None /\ Idle(t) /\ map' = [map EXCEPT ![t] = None]
    /\ UNCHANGED <<trace, on, half, read, lost, watching, first, pending, out, cache, announced>>

\* The ring wraps over its oldest event.
Overwrite ==
    /\ read < Len(trace) /\ Len(trace) <= FewEvents
    /\ read' = read + 1 /\ lost' = TRUE
    /\ UNCHANGED <<kernel, watching, first, pending, out, cache, announced>>

----------------------------------------------------------------------------
(* The data source starts; before that, other consumers' batches pass it by *)

SchedStart ==
    /\ ~watching /\ watching' = TRUE
    /\ first' = read
    /\ UNCHANGED <<kernel, read, lost, pending, out, cache, announced>>

DrainOthers ==
    /\ ~watching /\ read < Len(trace)
    /\ read' = Len(trace)
    /\ UNCHANGED <<kernel, lost, watching, first, pending, out, cache, announced>>

----------------------------------------------------------------------------
(* SchedConsumer *)

\* xnu thread-state bits -> TaskState
outgoing_task_state(bits) ==
    IF "SUSP" \in bits THEN "STOPPED"
    ELSE IF "WAIT" \in bits
    THEN IF "UNINT" \in bits THEN "UNINTERRUPTIBLE_SLEEP" ELSE "INTERRUPTIBLE_SLEEP"
    ELSE "RUNNABLE"

\* Mutant: no filter on class and subclass.
Unfiltered(e) == TRUE
Filtered(e) == e.csc = "MACH_SCHED"

\* MACH_DISPATCH
OnDispatch(st, e) ==
    LET p == st.pending[e.cpu] IN
    IF p = None THEN st
    ELSE [pending |-> [st.pending EXCEPT ![e.cpu] = None],
          out |-> IF p.outgoing # e.outgoing THEN st.out
                  ELSE Append(st.out, [ts |-> p.ts, cpu |-> e.cpu, outgoing |-> p.outgoing,
                                       incoming |-> p.incoming,
                                       state |-> outgoing_task_state(e.bits)])]

\* MACH_SCHED and MACH_STACK_HANDOFF; a self-switch is skipped.
OnSwitch(st, e, ts) ==
    IF e.outgoing = e.incoming THEN st
    ELSE [st EXCEPT !.pending[e.cpu] = [ts |-> ts, outgoing |-> e.outgoing, incoming |-> e.incoming]]

OnEvent(st, e, ts) ==
    IF ~Filtered(e) THEN st
    ELSE IF e.code = "SWITCH" THEN OnSwitch(st, e, ts) ELSE OnDispatch(st, e)

\* emit_batch over the events lo + 1 .. hi of the trace
emit_batch(lo, hi) ==
    LET after[n \in 0..hi - lo] ==
            IF n = 0 THEN [pending |-> pending, out |-> out]
            ELSE OnEvent(after[n - 1], trace[lo + n], lo + n)
    IN  after[hi - lo]

\* Mutant: a thread is known by its tid alone.
IsNewTid(t) == cache.threads[t] = None
\* A thread of the map that is not cached under the process it has now.
IsNew(t) == cache.threads[t] # map[t]

\* refresh_and_emit_tree.  The thread map lists its threads in some order; a
\* known one is passed over, a new one past a cap is cached and not staged.  A
\* new process is staged with the first of its new threads.
Unknown == {t \in Tids : map[t] # None /\ IsNew(t)}
NewProcesses == {map[t] : t \in Unknown} \ cache.processes
Bringers(new) ==
    {i \in DOMAIN new : /\ map[new[i]] \in NewProcesses
                        /\ \A j \in 1..i - 1 : map[new[j]] # map[new[i]]}
Staged(new) ==
    {i \in Bringers(new) : Cardinality({j \in Bringers(new) : j <= i}) <= MAX_NEW_PROCESSES}
refresh_and_emit_tree ==
    \E new \in SetToSeqs(Unknown) :
        /\ cache' = [threads |-> [t \in Tids |-> IF t \in Unknown THEN map[t] ELSE cache.threads[t]],
                     processes |-> cache.processes \cup NewProcesses]
        /\ announced' =
             [threads |-> [t \in Tids |->
                  IF \E i \in DOMAIN new : new[i] = t /\ i <= MAX_NEW_THREADS
                  THEN map[t] ELSE announced.threads[t]],
              processes |-> announced.processes \cup {map[new[i]] : i \in Staged(new)}]

\* One batch, of as many events as the buffer holds, or of none when KDREADTR
\* fails.
TakeBatch ==
    /\ watching
    /\ \E hi \in {read, IF Len(trace) - read > DRAIN_CAPACITY THEN read + DRAIN_CAPACITY
                        ELSE Len(trace)} :
         LET st == emit_batch(read, hi) IN
         read' = hi /\ pending' = st.pending /\ out' = st.out
    /\ UNCHANGED <<kernel, lost, watching, first>>

on_drain == TakeBatch /\ refresh_and_emit_tree

\* KDREADCURTHRMAP failed: the consumer is handed an empty thread map.
DrainWithoutMap == TakeBatch /\ UNCHANGED <<cache, announced>>

----------------------------------------------------------------------------
Kernel ==
    \/ \E c \in Cpus, t \in Tids : Switch(c, t) \/ PerfFires(c, t)
    \/ \E c \in Cpus, bits \in StateBits : Dispatch(c, bits)
    \/ \E t \in Tids, p \in Pids : Spawn(t, p)
    \/ \E t \in Tids : Exit(t)
    \/ Overwrite

SchedNext == Kernel \/ SchedStart \/ DrainOthers \/ on_drain \/ DrainWithoutMap

SchedSpec == SchedInit /\ [][SchedNext]_schedVars

----------------------------------------------------------------------------
(* Properties *)

\* Event j completes switch i: the next scheduler event of that CPU.
Completes(i, j) ==
    /\ i < j
    /\ trace[i].csc = "MACH_SCHED" /\ trace[i].code = "SWITCH"
    /\ trace[j].csc = "MACH_SCHED" /\ trace[j].code = "DISPATCH"
    /\ trace[i].cpu = trace[j].cpu
    /\ \A n \in i + 1..j - 1 : trace[n].csc = "MACH_SCHED" => trace[n].cpu # trace[i].cpu

\* With nothing overwritten, the timeline is exactly the context switches both of
\* whose events came since the start, one pair each, in the order they were
\* completed, however batches cut them and CPUs interleave them; a switch under
\* way at the start, a self-switch or a kperf event adds nothing.
TimelineExact ==
    LET js == {j \in first + 1..read : \E i \in first + 1..j : Completes(i, j)}
        of(j) == CHOOSE i \in first + 1..j : Completes(i, j)
        real == {j \in js : trace[of(j)].outgoing # trace[of(j)].incoming}
    IN  watching /\ ~lost =>
            /\ Len(out) = Cardinality(real)
            /\ \A j \in real :
                 LET n == Cardinality({m \in real : m <= j}) IN
                 out[n] = [ts |-> of(j), cpu |-> trace[j].cpu, outgoing |-> trace[j].outgoing,
                           incoming |-> trace[of(j)].incoming,
                           state |-> outgoing_task_state(trace[j].bits)]

\* What the comment on SchedConsumer promises: newly-seen pids and tids are
\* announced in a process tree delta.  So after a drain that got the map every
\* thread in it is announced under the process it has now, and that process too,
\* a tid that changed hands between two drains included.
SeenAnnounced ==
    [][on_drain => \A t \in Tids : map[t] # None =>
           announced'.threads[t] = map[t] /\ map[t] \in announced'.processes]_schedVars
=============================================================================
