------------------------------ MODULE HeapShim ------------------------------
(***************************************************************************)
(* The injected side of heap profiling across sessions: the listener       *)
(* thread of sismo-heap-preload/src/shim.rs attaches and detaches rings    *)
(* while the target's threads run the interposed functions, which read the *)
(* listener's globals one atomic at a time and without a lock.             *)
(*                                                                         *)
(* Session s is the s-th connection of a recorder; its ring and sampling   *)
(* interval are also called s.  What happens to a record inside a ring is  *)
(* HeapRing's and HeapTracking's business.                                 *)
(***************************************************************************)
EXTENDS Naturals, Sequences

CONSTANTS
    Threads,        \* allocating threads of the target
    FREE_BATCH_CAP, \* entries of a thread's free batch
    MaxSessions,    \* bound on the connections recorders make
    MaxCalls        \* bound on the calls each thread makes while enabled

ASSUME ShimAssumption ==
    FREE_BATCH_CAP \in Nat \ {0} /\ MaxSessions \in Nat /\ MaxCalls \in Nat

VARIABLES
    sessions,   \* connections made so far
    open,       \* connections whose recorder still holds its end
    backlog,    \* connections waiting in the listening socket, oldest first
    lpc, cur,   \* the listener's step and the session it serves
    fds,        \* descriptors the listener holds: <<kind, session>>
    mapped,     \* rings mapped in the target
    g_enabled, g_rb, g_gen, g_interval,     \* the globals
    tpc,        \* each thread's step
    gen,        \* G_SESSION_GEN as the thread loaded it
    rb,         \* the ring pointer the thread loaded
    sampler,    \* T_SAMPLER, T_SAMPLER_GEN: [gen, interval]
    batch,      \* T_FREES: [gen, entries]; an entry is the G_SESSION_GEN it was queued under
    calls,      \* calls each thread has made
    ring,       \* session -> the free entries written to its ring
    crashed     \* a thread touched a ring that is no longer mapped

recorders == <<sessions, open, backlog>>
listener == <<lpc, cur, fds, mapped>>
globals == <<g_enabled, g_rb, g_gen, g_interval>>
threads == <<tpc, gen, rb, sampler, batch, calls>>
vars == <<recorders, listener, globals, threads, ring, crashed>>

Init ==
    /\ sessions = 0 /\ open = {} /\ backlog = << >>
    /\ lpc = "accept" /\ cur = 0 /\ fds = {} /\ mapped = {}
    /\ g_enabled = FALSE /\ g_rb = 0 /\ g_gen = 0 /\ g_interval = 0
    /\ tpc = [t \in Threads |-> "idle"]
    /\ gen = [t \in Threads |-> 0]
    /\ rb = [t \in Threads |-> 0]
    /\ sampler = [t \in Threads |-> [gen |-> 0, interval |-> 0]]
    /\ batch = [t \in Threads |-> [gen |-> 0, entries |-> << >>]]
    /\ calls = [t \in Threads |-> 0]
    /\ ring = [s \in 1..MaxSessions |-> << >>]
    /\ crashed = FALSE

----------------------------------------------------------------------------
(* A recorder's side of the control connection *)

Connect ==
    /\ sessions < MaxSessions
    /\ sessions' = sessions + 1
    /\ open' = open \cup {sessions + 1}
    /\ backlog' = Append(backlog, sessions + 1)
    /\ UNCHANGED <<listener, globals, threads, ring, crashed>>

\* The recorder closes its end, on purpose or by dying.
Disconnect(s) ==
    /\ s \in open
    /\ open' = open \ {s}
    /\ UNCHANGED <<sessions, backlog, listener, globals, threads, ring, crashed>>

----------------------------------------------------------------------------
(* listener_thread *)

Accepts ==
    /\ lpc = "accept" /\ backlog # << >>
    /\ backlog' = Tail(backlog)

\* Mutant: `return` for `continue`.
AcceptFailsReturns ==
    /\ Accepts
    /\ lpc' = "returned"
    /\ UNCHANGED <<sessions, open, cur, fds, mapped, globals, threads, ring, crashed>>

\* accept_and_receive fails (a short handshake, no descriptor): the connection
\* is closed and the listener backs off and accepts again.
AcceptFails ==
    /\ Accepts
    /\ UNCHANGED <<sessions, open, listener, globals, threads, ring, crashed>>

Accept ==
    /\ Accepts
    /\ cur' = Head(backlog)
    /\ fds' = fds \cup {<<"conn", Head(backlog)>>, <<"shm", Head(backlog)>>}
    /\ lpc' = "map"
    /\ UNCHANGED <<sessions, open, mapped, globals, threads, ring, crashed>>

\* RingBuffer::attach fails: close_all, accept again.
MapFails ==
    /\ lpc = "map"
    /\ fds' = fds \ {<<"conn", cur>>, <<"shm", cur>>}
    /\ lpc' = "accept"
    /\ UNCHANGED <<recorders, cur, mapped, globals, threads, ring, crashed>>

MapRing ==
    /\ lpc = "map"
    /\ mapped' = mapped \cup {cur}
    /\ lpc' = "interval"
    /\ UNCHANGED <<recorders, cur, fds, globals, threads, ring, crashed>>

SetInterval ==
    /\ lpc = "interval"
    /\ g_interval' = cur
    /\ lpc' = "generation"
    /\ UNCHANGED <<recorders, cur, fds, mapped, g_enabled, g_rb, g_gen, threads, ring, crashed>>

\* Mutant: the generation is not bumped.
KeepGeneration ==
    /\ lpc = "generation"
    /\ lpc' = "install"
    /\ UNCHANGED <<recorders, cur, fds, mapped, globals, threads, ring, crashed>>

BumpGeneration ==
    /\ lpc = "generation"
    /\ g_gen' = g_gen + 1
    /\ lpc' = "install"
    /\ UNCHANGED <<recorders, cur, fds, mapped, g_enabled, g_rb, g_interval, threads, ring, crashed>>

InstallRing ==
    /\ lpc = "install"
    /\ g_rb' = cur
    /\ lpc' = "enable"
    /\ UNCHANGED <<recorders, cur, fds, mapped, g_enabled, g_gen, g_interval, threads, ring, crashed>>

Enable ==
    /\ lpc = "enable"
    /\ g_enabled' = TRUE
    /\ lpc' = "serve"
    /\ UNCHANGED <<recorders, cur, fds, mapped, g_rb, g_gen, g_interval, threads, ring, crashed>>

\* read() on the connection returns at EOF.
Disable ==
    /\ lpc = "serve" /\ cur \notin open
    /\ g_enabled' = FALSE
    /\ lpc' = "clear"
    /\ UNCHANGED <<recorders, cur, fds, mapped, g_rb, g_gen, g_interval, threads, ring, crashed>>

ClearRing ==
    /\ lpc = "clear"
    /\ g_rb' = 0
    /\ lpc' = "drop"
    /\ UNCHANGED <<recorders, cur, fds, mapped, g_enabled, g_gen, g_interval, threads, ring, crashed>>

\* drop(Box): munmap and close the shm descriptor; then close the connection.
DropRing ==
    /\ lpc = "drop"
    /\ mapped' = mapped \ {cur}
    /\ fds' = fds \ {<<"conn", cur>>, <<"shm", cur>>}
    /\ lpc' = "accept"
    /\ UNCHANGED <<recorders, cur, globals, threads, ring, crashed>>

----------------------------------------------------------------------------
(* The interposed functions *)

Goto(t, l) == tpc' = [tpc EXCEPT ![t] = l]

\* sampled_alloc and free begin with one load of G_ENABLED; a dormant call
\* goes straight to the allocator and leaves no trace here.
EnterAlloc(t) ==
    /\ tpc[t] = "idle" /\ calls[t] < MaxCalls /\ g_enabled
    /\ calls' = [calls EXCEPT ![t] = @ + 1]
    /\ Goto(t, "sample")
    /\ UNCHANGED <<recorders, listener, globals, gen, rb, sampler, batch, ring, crashed>>

EnterFree(t) ==
    /\ tpc[t] = "idle" /\ calls[t] < MaxCalls /\ g_enabled
    /\ calls' = [calls EXCEPT ![t] = @ + 1]
    /\ Goto(t, "queue")
    /\ UNCHANGED <<recorders, listener, globals, gen, rb, sampler, batch, ring, crashed>>

\* sample_size_for loads the generation, then re-seeds a sampler of another one
\* with the interval it finds.
LoadSamplerGen(t) ==
    /\ tpc[t] = "sample"
    /\ gen' = [gen EXCEPT ![t] = g_gen]
    /\ Goto(t, "reseed")
    /\ UNCHANGED <<recorders, listener, globals, rb, sampler, batch, calls, ring, crashed>>

Reseed(t) ==
    /\ tpc[t] = "reseed"
    /\ sampler' = IF sampler[t].gen # gen[t]
                  THEN [sampler EXCEPT ![t] = [gen |-> gen[t], interval |-> g_interval]]
                  ELSE sampler
    /\ \/ Goto(t, "load_alloc")      \* sampled
       \/ Goto(t, "idle")            \* skipped
    /\ UNCHANGED <<recorders, listener, globals, gen, rb, batch, calls, ring, crashed>>

\* emit_alloc_record: load G_RB; null means detached.
LoadRingAlloc(t) ==
    /\ tpc[t] = "load_alloc"
    /\ rb' = [rb EXCEPT ![t] = g_rb]
    /\ Goto(t, IF g_rb = 0 THEN "idle" ELSE "write_alloc")
    /\ UNCHANGED <<recorders, listener, globals, gen, sampler, batch, calls, ring, crashed>>

\* Everything from begin_write to end_write dereferences the loaded pointer.
WriteAlloc(t) ==
    /\ tpc[t] = "write_alloc"
    /\ IF rb[t] \in mapped
       THEN Goto(t, "idle") /\ UNCHANGED crashed
       ELSE crashed' = TRUE /\ UNCHANGED tpc
    /\ UNCHANGED <<recorders, listener, globals, gen, rb, sampler, batch, calls, ring>>

\* queue_free: load the generation ...
LoadFreeGen(t) ==
    /\ tpc[t] = "queue"
    /\ gen' = [gen EXCEPT ![t] = g_gen]
    /\ Goto(t, "append")
    /\ UNCHANGED <<recorders, listener, globals, rb, sampler, batch, calls, ring, crashed>>

\* ... drop a batch of another generation, append, and flush when the batch is
\* full or old.
AppendFree(t) ==
    /\ tpc[t] = "append"
    /\ LET kept == IF batch[t].gen # gen[t] THEN << >> ELSE batch[t].entries
       IN  /\ batch' = [batch EXCEPT ![t] = [gen |-> gen[t], entries |-> Append(kept, gen[t])]]
           /\ \/ Goto(t, "load_free")
              \/ Len(kept) + 1 < FREE_BATCH_CAP /\ Goto(t, "idle")
    /\ UNCHANGED <<recorders, listener, globals, gen, rb, sampler, calls, ring, crashed>>

\* flush_frees: load G_RB; a detached shim forgets the batch.
LoadRingFree(t) ==
    /\ tpc[t] = "load_free"
    /\ rb' = [rb EXCEPT ![t] = g_rb]
    /\ IF g_rb = 0
       THEN Goto(t, "idle") /\ batch' = [batch EXCEPT ![t].entries = << >>]
       ELSE Goto(t, "write_free") /\ UNCHANGED batch
    /\ UNCHANGED <<recorders, listener, globals, gen, sampler, calls, ring, crashed>>

\* begin_write .. end_write through the loaded pointer; the batch is emptied
\* whether or not the ring had room.
WriteFree(t) ==
    /\ tpc[t] = "write_free"
    /\ IF rb[t] \in mapped
       THEN /\ \/ ring' = [ring EXCEPT ![rb[t]] = @ \o batch[t].entries]
               \/ UNCHANGED ring                            \* ring full: dropped
            /\ batch' = [batch EXCEPT ![t].entries = << >>]
            /\ Goto(t, "idle")
            /\ UNCHANGED crashed
       ELSE crashed' = TRUE /\ UNCHANGED <<tpc, batch, ring>>
    /\ UNCHANGED <<recorders, listener, globals, gen, rb, sampler, calls>>

----------------------------------------------------------------------------
Recorder == Connect \/ \E s \in open : Disconnect(s)

Listen ==
    \/ AcceptFails \/ Accept \/ MapFails \/ MapRing \/ SetInterval \/ BumpGeneration
    \/ InstallRing \/ Enable \/ Disable \/ ClearRing \/ DropRing

Call(t) ==
    \/ EnterAlloc(t) \/ LoadSamplerGen(t) \/ Reseed(t) \/ LoadRingAlloc(t) \/ WriteAlloc(t)
    \/ EnterFree(t) \/ LoadFreeGen(t) \/ AppendFree(t) \/ LoadRingFree(t) \/ WriteFree(t)

\* A crash takes the listener and all threads with it.
Next ==
    \/ Recorder
    \/ ~crashed /\ (Listen \/ \E t \in Threads : Call(t))

\* The listener thread is scheduled; recorders and the program owe nothing.
Spec == Init /\ [][Next]_vars /\ WF_vars(~crashed /\ Listen)

----------------------------------------------------------------------------
(* Properties *)

Steps == {"idle", "sample", "reseed", "load_alloc", "write_alloc", "queue", "append",
          "load_free", "write_free"}

TypeOK ==
    /\ sessions \in 0..MaxSessions /\ open \subseteq 1..sessions
    /\ backlog \in Seq(1..sessions)
    /\ lpc \in {"accept", "map", "interval", "generation", "install", "enable", "serve",
                "clear", "drop"}
    /\ cur \in 0..MaxSessions /\ mapped \subseteq 1..MaxSessions
    /\ g_enabled \in BOOLEAN /\ {g_rb, g_gen, g_interval} \subseteq 0..MaxSessions
    /\ tpc \in [Threads -> Steps]
    /\ gen \in [Threads -> 0..MaxSessions] /\ rb \in [Threads -> 0..MaxSessions]
    /\ sampler \in [Threads -> [gen : 0..MaxSessions, interval : 0..MaxSessions]]
    /\ \A t \in Threads :
        /\ batch[t].gen \in 0..MaxSessions
        /\ batch[t].entries \in Seq(1..MaxSessions)
        /\ Len(batch[t].entries) <= FREE_BATCH_CAP
    /\ calls \in [Threads -> 0..MaxCalls] /\ crashed \in BOOLEAN

\* A sampler that passes for one of the current session was seeded with the
\* current session's interval, although the generation and the interval are
\* two loads and the listener may run between them.
SamplerOfSession ==
    g_enabled => \A t \in Threads : sampler[t].gen = g_gen => sampler[t].interval = g_interval

\* Between two sessions, and after every kind of failed attach, the listener
\* holds no ring, no descriptor and leaves no ring installed.
ListenerHoldsNothing ==
    lpc = "accept" => mapped = {} /\ fds = {} /\ g_rb = 0 /\ ~g_enabled

\* The batch has room for the entry about to be appended, whatever became of
\* the earlier flushes (the array access is unchecked by any caller).
BatchHasRoom ==
    \A t \in Threads : tpc[t] = "append" /\ batch[t].gen = gen[t] =>
        Len(batch[t].entries) < FREE_BATCH_CAP

\* A recorder that goes away is noticed: its ring is unmapped and its
\* descriptors are closed.
DetachReleases ==
    \A s \in 1..MaxSessions :
        (s \in mapped /\ s \notin open) ~> (crashed \/ (s \notin mapped /\ <<"conn", s>> \notin fds))

\* Once every recorder is gone the listener takes each connection they left in
\* the backlog and comes back to waiting with no ring mapped, whichever of its
\* steps failed on the way.
ListenerComesBack ==
    <>[](open = {}) =>
        <>[](crashed \/ (backlog = << >> /\ lpc = "accept" /\ mapped = {}))

\* Sessions do not mix in the shim, and what one leaves behind is nothing: the
\* samplers are the session's, the listener returns empty-handed, and a batch
\* that could not be flushed does not overflow.
SessionsApart ==
    /\ TypeOK
    /\ SamplerOfSession
    /\ ListenerHoldsNothing
    /\ BatchHasRoom

\* The listener outlives its recorders, however each of them went away.
ListenerRecovers == DetachReleases /\ ListenerComesBack

\* What the comment on RingBuffer in ring.rs takes for granted: the mapping is
\* stable for as long as the shim uses it.
TargetSurvives == ~crashed

\* What the comment in queue_free says: entries of a previous session do not
\* reach the new session's ring.
FreesOfOwnSession ==
    \A s \in 1..MaxSessions : \A i \in DOMAIN ring[s] :
        s = g_interval /\ g_enabled => ring[s][i] = g_gen
=============================================================================
