--------------------------- MODULE HeapShimProofs ---------------------------
(***************************************************************************)
(* Proofs about HeapShim.  The listener and the target's threads share four *)
(* globals, each read and written on its own; the invariant says what the   *)
(* listener's step tells about the globals, and how old the values may be   *)
(* that a thread carries from one load to the next.                         *)
(***************************************************************************)
EXTENDS HeapShim, TLAPS

------------------------------------------------------------------------------
(* The invariant.                                                           *)

ListenSteps == {"accept", "map", "interval", "generation", "install", "enable", "serve",
                "clear", "drop"}
Unbumped == {"map", "interval", "generation"}
Entries == Seq(1..MaxSessions)
Batch == [gen : 0..MaxSessions, entries : Entries]
Sampler == [gen : 0..MaxSessions, interval : 0..MaxSessions]

SocketTypes ==
  /\ sessions \in 0..MaxSessions /\ open \subseteq 1..sessions
  /\ backlog \in Seq(1..sessions)
ListenerTypes ==
  /\ lpc \in ListenSteps /\ cur \in 0..MaxSessions /\ mapped \subseteq 1..MaxSessions
  /\ g_enabled \in BOOLEAN /\ g_rb \in 0..MaxSessions /\ g_gen \in 0..MaxSessions
  /\ g_interval \in 0..MaxSessions
ThreadTypes ==
  /\ tpc \in [Threads -> Steps] /\ calls \in [Threads -> 0..MaxCalls]
  /\ gen \in [Threads -> 0..MaxSessions] /\ rb \in [Threads -> 0..MaxSessions]
  /\ sampler \in [Threads -> Sampler] /\ batch \in [Threads -> Batch]
  /\ crashed \in BOOLEAN

(* A generation is a connection taken from the socket: the listener cannot   *)
(* bump more often than recorders connect.                                   *)
Taken == IF lpc \in Unbumped THEN 1 ELSE 0
ConnectionsCounted == g_gen + Taken + Len(backlog) <= sessions

(* The listener's step says what it holds and what is installed.             *)
Holdings ==
  /\ lpc # "accept" => cur \in 1..MaxSessions
  /\ fds = IF lpc = "accept" THEN {} ELSE {<<"conn", cur>>, <<"shm", cur>>}
  /\ mapped = IF lpc \in {"accept", "map"} THEN {} ELSE {cur}
  /\ g_rb = IF lpc \in {"enable", "serve", "clear"} THEN cur ELSE 0
  /\ g_enabled <=> lpc = "serve"
  /\ lpc \in {"install", "enable", "serve", "clear", "drop"} => g_gen # 0

(* A thread's generations are never ahead of the listener's; one that is     *)
(* current goes with the current interval, except between the two stores.    *)
Generations ==
  \A t \in Threads :
    /\ gen[t] <= g_gen /\ sampler[t].gen <= g_gen
    /\ lpc # "generation" /\ sampler[t].gen = g_gen => sampler[t].interval = g_interval

(* A thread that got past G_ENABLED has seen a session.                      *)
Entered ==
  \A t \in Threads :
    /\ tpc[t] = "queue" => g_gen # 0
    /\ tpc[t] = "append" => gen[t] # 0

(* Only a batch on its way to the ring may be full.                          *)
Roomy ==
  \A t \in Threads :
    /\ Len(batch[t].entries) <= FREE_BATCH_CAP
    /\ tpc[t] \notin {"load_free", "write_free"} => Len(batch[t].entries) < FREE_BATCH_CAP

ShimInv ==
  /\ SocketTypes /\ ListenerTypes /\ ThreadTypes
  /\ ConnectionsCounted /\ Holdings /\ Generations /\ Entered /\ Roomy

------------------------------------------------------------------------------
(* Every step of every thread.                                              *)

(* Recorders connect in order, the listener takes the oldest.                 *)
LEMMA SocketStep == ASSUME ShimInv, [Next]_vars PROVE SocketTypes'
<1> USE ShimAssumption DEF ShimInv, SocketTypes
<1>1. CASE Connect
  BY <1>1 DEF Connect, recorders, listener, globals, threads, Goto, Accepts
<1>2. ASSUME NEW s \in open, Disconnect(s) PROVE SocketTypes'
  BY <1>2 DEF Disconnect, recorders, listener, globals, threads, Goto, Accepts
<1>3. CASE AcceptFails
  BY <1>3 DEF AcceptFails, recorders, listener, globals, threads, Goto, Accepts
<1>4. CASE Accept
  BY <1>4 DEF Accept, recorders, listener, globals, threads, Goto, Accepts
<1>5. CASE MapFails
  BY <1>5 DEF MapFails, recorders, listener, globals, threads, Goto, Accepts
<1>6. CASE MapRing
  BY <1>6 DEF MapRing, recorders, listener, globals, threads, Goto, Accepts
<1>7. CASE SetInterval
  BY <1>7 DEF SetInterval, recorders, listener, globals, threads, Goto, Accepts
<1>8. CASE BumpGeneration
  BY <1>8 DEF BumpGeneration, recorders, listener, globals, threads, Goto, Accepts
<1>9. CASE InstallRing
  BY <1>9 DEF InstallRing, recorders, listener, globals, threads, Goto, Accepts
<1>10. CASE Enable
  BY <1>10 DEF Enable, recorders, listener, globals, threads, Goto, Accepts
<1>11. CASE Disable
  BY <1>11 DEF Disable, recorders, listener, globals, threads, Goto, Accepts
<1>12. CASE ClearRing
  BY <1>12 DEF ClearRing, recorders, listener, globals, threads, Goto, Accepts
<1>13. CASE DropRing
  BY <1>13 DEF DropRing, recorders, listener, globals, threads, Goto, Accepts
<1>14. ASSUME NEW t \in Threads, EnterAlloc(t) PROVE SocketTypes'
  BY <1>14 DEF EnterAlloc, recorders, listener, globals, threads, Goto, Accepts
<1>15. ASSUME NEW t \in Threads, LoadSamplerGen(t) PROVE SocketTypes'
  BY <1>15 DEF LoadSamplerGen, recorders, listener, globals, threads, Goto, Accepts
<1>16. ASSUME NEW t \in Threads, Reseed(t) PROVE SocketTypes'
  BY <1>16 DEF Reseed, recorders, listener, globals, threads, Goto, Accepts
<1>17. ASSUME NEW t \in Threads, LoadRingAlloc(t) PROVE SocketTypes'
  BY <1>17 DEF LoadRingAlloc, recorders, listener, globals, threads, Goto, Accepts
<1>18. ASSUME NEW t \in Threads, WriteAlloc(t) PROVE SocketTypes'
  BY <1>18 DEF WriteAlloc, recorders, listener, globals, threads, Goto, Accepts
<1>19. ASSUME NEW t \in Threads, EnterFree(t) PROVE SocketTypes'
  BY <1>19 DEF EnterFree, recorders, listener, globals, threads, Goto, Accepts
<1>20. ASSUME NEW t \in Threads, LoadFreeGen(t) PROVE SocketTypes'
  BY <1>20 DEF LoadFreeGen, recorders, listener, globals, threads, Goto, Accepts
<1>21. ASSUME NEW t \in Threads, AppendFree(t) PROVE SocketTypes'
  BY <1>21 DEF AppendFree, recorders, listener, globals, threads, Goto, Accepts
<1>22. ASSUME NEW t \in Threads, LoadRingFree(t) PROVE SocketTypes'
  BY <1>22 DEF LoadRingFree, recorders, listener, globals, threads, Goto, Accepts
<1>23. ASSUME NEW t \in Threads, WriteFree(t) PROVE SocketTypes'
  BY <1>23 DEF WriteFree, recorders, listener, globals, threads, Goto, Accepts
<1>24. CASE UNCHANGED vars
  BY <1>24 DEF vars, recorders, listener, globals, threads, Goto, Accepts
<1> QED BY <1>1, <1>2, <1>3, <1>4, <1>5, <1>6, <1>7, <1>8, <1>9, <1>10, <1>11, <1>12, <1>13,
     <1>14, <1>15, <1>16, <1>17, <1>18, <1>19, <1>20, <1>21, <1>22, <1>23, <1>24
        DEF Next, Recorder, Listen, Call

(* The listener and its globals keep their types.                             *)
LEMMA ListenerStep == ASSUME ShimInv, [Next]_vars PROVE ListenerTypes'
<1> USE ShimAssumption DEF ShimInv, SocketTypes, ListenerTypes, ConnectionsCounted, Holdings,
     Taken, Unbumped, ListenSteps
<1>1. CASE Connect
  BY <1>1 DEF Connect, recorders, listener, globals, threads, Goto, Accepts
<1>2. ASSUME NEW s \in open, Disconnect(s) PROVE ListenerTypes'
  BY <1>2 DEF Disconnect, recorders, listener, globals, threads, Goto, Accepts
<1>3. CASE AcceptFails
  BY <1>3 DEF AcceptFails, recorders, listener, globals, threads, Goto, Accepts
<1>4. CASE Accept
  BY <1>4 DEF Accept, recorders, listener, globals, threads, Goto, Accepts
<1>5. CASE MapFails
  BY <1>5 DEF MapFails, recorders, listener, globals, threads, Goto, Accepts
<1>6. CASE MapRing
  BY <1>6 DEF MapRing, recorders, listener, globals, threads, Goto, Accepts
<1>7. CASE SetInterval
  BY <1>7 DEF SetInterval, recorders, listener, globals, threads, Goto, Accepts
<1>8. CASE BumpGeneration
  BY <1>8 DEF BumpGeneration, recorders, listener, globals, threads, Goto, Accepts
<1>9. CASE InstallRing
  BY <1>9 DEF InstallRing, recorders, listener, globals, threads, Goto, Accepts
<1>10. CASE Enable
  BY <1>10 DEF Enable, recorders, listener, globals, threads, Goto, Accepts
<1>11. CASE Disable
  BY <1>11 DEF Disable, recorders, listener, globals, threads, Goto, Accepts
<1>12. CASE ClearRing
  BY <1>12 DEF ClearRing, recorders, listener, globals, threads, Goto, Accepts
<1>13. CASE DropRing
  BY <1>13 DEF DropRing, recorders, listener, globals, threads, Goto, Accepts
<1>14. ASSUME NEW t \in Threads, EnterAlloc(t) PROVE ListenerTypes'
  BY <1>14 DEF EnterAlloc, recorders, listener, globals, threads, Goto, Accepts
<1>15. ASSUME NEW t \in Threads, LoadSamplerGen(t) PROVE ListenerTypes'
  BY <1>15 DEF LoadSamplerGen, recorders, listener, globals, threads, Goto, Accepts
<1>16. ASSUME NEW t \in Threads, Reseed(t) PROVE ListenerTypes'
  BY <1>16 DEF Reseed, recorders, listener, globals, threads, Goto, Accepts
<1>17. ASSUME NEW t \in Threads, LoadRingAlloc(t) PROVE ListenerTypes'
  BY <1>17 DEF LoadRingAlloc, recorders, listener, globals, threads, Goto, Accepts
<1>18. ASSUME NEW t \in Threads, WriteAlloc(t) PROVE ListenerTypes'
  BY <1>18 DEF WriteAlloc, recorders, listener, globals, threads, Goto, Accepts
<1>19. ASSUME NEW t \in Threads, EnterFree(t) PROVE ListenerTypes'
  BY <1>19 DEF EnterFree, recorders, listener, globals, threads, Goto, Accepts
<1>20. ASSUME NEW t \in Threads, LoadFreeGen(t) PROVE ListenerTypes'
  BY <1>20 DEF LoadFreeGen, recorders, listener, globals, threads, Goto, Accepts
<1>21. ASSUME NEW t \in Threads, AppendFree(t) PROVE ListenerTypes'
  BY <1>21 DEF AppendFree, recorders, listener, globals, threads, Goto, Accepts
<1>22. ASSUME NEW t \in Threads, LoadRingFree(t) PROVE ListenerTypes'
  BY <1>22 DEF LoadRingFree, recorders, listener, globals, threads, Goto, Accepts
<1>23. ASSUME NEW t \in Threads, WriteFree(t) PROVE ListenerTypes'
  BY <1>23 DEF WriteFree, recorders, listener, globals, threads, Goto, Accepts
<1>24. CASE UNCHANGED vars
  BY <1>24 DEF vars, recorders, listener, globals, threads, Goto, Accepts
<1> QED BY <1>1, <1>2, <1>3, <1>4, <1>5, <1>6, <1>7, <1>8, <1>9, <1>10, <1>11, <1>12, <1>13,
     <1>14, <1>15, <1>16, <1>17, <1>18, <1>19, <1>20, <1>21, <1>22, <1>23, <1>24
        DEF Next, Recorder, Listen, Call

(* A bump uses up a connection.                                               *)
LEMMA CountStep == ASSUME ShimInv, [Next]_vars PROVE ConnectionsCounted'
<1> USE ShimAssumption DEF ShimInv, SocketTypes, ListenerTypes, ConnectionsCounted, Taken, Unbumped
<1>1. CASE Connect
  BY <1>1 DEF Connect, recorders, listener, globals, threads, Goto, Accepts
<1>2. ASSUME NEW s \in open, Disconnect(s) PROVE ConnectionsCounted'
  BY <1>2 DEF Disconnect, recorders, listener, globals, threads, Goto, Accepts
<1>3. CASE AcceptFails
  BY <1>3 DEF AcceptFails, recorders, listener, globals, threads, Goto, Accepts
<1>4. CASE Accept
  BY <1>4 DEF Accept, recorders, listener, globals, threads, Goto, Accepts
<1>5. CASE MapFails
  BY <1>5 DEF MapFails, recorders, listener, globals, threads, Goto, Accepts
<1>6. CASE MapRing
  BY <1>6 DEF MapRing, recorders, listener, globals, threads, Goto, Accepts
<1>7. CASE SetInterval
  BY <1>7 DEF SetInterval, recorders, listener, globals, threads, Goto, Accepts
<1>8. CASE BumpGeneration
  BY <1>8 DEF BumpGeneration, recorders, listener, globals, threads, Goto, Accepts
<1>9. CASE InstallRing
  BY <1>9 DEF InstallRing, recorders, listener, globals, threads, Goto, Accepts
<1>10. CASE Enable
  BY <1>10 DEF Enable, recorders, listener, globals, threads, Goto, Accepts
<1>11. CASE Disable
  BY <1>11 DEF Disable, recorders, listener, globals, threads, Goto, Accepts
<1>12. CASE ClearRing
  BY <1>12 DEF ClearRing, recorders, listener, globals, threads, Goto, Accepts
<1>13. CASE DropRing
  BY <1>13 DEF DropRing, recorders, listener, globals, threads, Goto, Accepts
<1>14. ASSUME NEW t \in Threads, EnterAlloc(t) PROVE ConnectionsCounted'
  BY <1>14 DEF EnterAlloc, recorders, listener, globals, threads, Goto, Accepts
<1>15. ASSUME NEW t \in Threads, LoadSamplerGen(t) PROVE ConnectionsCounted'
  BY <1>15 DEF LoadSamplerGen, recorders, listener, globals, threads, Goto, Accepts
<1>16. ASSUME NEW t \in Threads, Reseed(t) PROVE ConnectionsCounted'
  BY <1>16 DEF Reseed, recorders, listener, globals, threads, Goto, Accepts
<1>17. ASSUME NEW t \in Threads, LoadRingAlloc(t) PROVE ConnectionsCounted'
  BY <1>17 DEF LoadRingAlloc, recorders, listener, globals, threads, Goto, Accepts
<1>18. ASSUME NEW t \in Threads, WriteAlloc(t) PROVE ConnectionsCounted'
  BY <1>18 DEF WriteAlloc, recorders, listener, globals, threads, Goto, Accepts
<1>19. ASSUME NEW t \in Threads, EnterFree(t) PROVE ConnectionsCounted'
  BY <1>19 DEF EnterFree, recorders, listener, globals, threads, Goto, Accepts
<1>20. ASSUME NEW t \in Threads, LoadFreeGen(t) PROVE ConnectionsCounted'
  BY <1>20 DEF LoadFreeGen, recorders, listener, globals, threads, Goto, Accepts
<1>21. ASSUME NEW t \in Threads, AppendFree(t) PROVE ConnectionsCounted'
  BY <1>21 DEF AppendFree, recorders, listener, globals, threads, Goto, Accepts
<1>22. ASSUME NEW t \in Threads, LoadRingFree(t) PROVE ConnectionsCounted'
  BY <1>22 DEF LoadRingFree, recorders, listener, globals, threads, Goto, Accepts
<1>23. ASSUME NEW t \in Threads, WriteFree(t) PROVE ConnectionsCounted'
  BY <1>23 DEF WriteFree, recorders, listener, globals, threads, Goto, Accepts
<1>24. CASE UNCHANGED vars
  BY <1>24 DEF vars, recorders, listener, globals, threads, Goto, Accepts
<1> QED BY <1>1, <1>2, <1>3, <1>4, <1>5, <1>6, <1>7, <1>8, <1>9, <1>10, <1>11, <1>12, <1>13,
     <1>14, <1>15, <1>16, <1>17, <1>18, <1>19, <1>20, <1>21, <1>22, <1>23, <1>24
        DEF Next, Recorder, Listen, Call

(* What the listener holds follows its step.                                  *)
LEMMA HoldingsStep == ASSUME ShimInv, [Next]_vars PROVE Holdings'
<1> USE ShimAssumption DEF ShimInv, SocketTypes, ListenerTypes, Holdings, ListenSteps
<1>1. CASE Connect
  BY <1>1 DEF Connect, recorders, listener, globals, threads, Goto, Accepts
<1>2. ASSUME NEW s \in open, Disconnect(s) PROVE Holdings'
  BY <1>2 DEF Disconnect, recorders, listener, globals, threads, Goto, Accepts
<1>3. CASE AcceptFails
  BY <1>3 DEF AcceptFails, recorders, listener, globals, threads, Goto, Accepts
<1>4. CASE Accept
  BY <1>4 DEF Accept, recorders, listener, globals, threads, Goto, Accepts
<1>5. CASE MapFails
  BY <1>5 DEF MapFails, recorders, listener, globals, threads, Goto, Accepts
<1>6. CASE MapRing
  BY <1>6 DEF MapRing, recorders, listener, globals, threads, Goto, Accepts
<1>7. CASE SetInterval
  BY <1>7 DEF SetInterval, recorders, listener, globals, threads, Goto, Accepts
<1>8. CASE BumpGeneration
  BY <1>8 DEF BumpGeneration, recorders, listener, globals, threads, Goto, Accepts
<1>9. CASE InstallRing
  BY <1>9 DEF InstallRing, recorders, listener, globals, threads, Goto, Accepts
<1>10. CASE Enable
  BY <1>10 DEF Enable, recorders, listener, globals, threads, Goto, Accepts
<1>11. CASE Disable
  BY <1>11 DEF Disable, recorders, listener, globals, threads, Goto, Accepts
<1>12. CASE ClearRing
  BY <1>12 DEF ClearRing, recorders, listener, globals, threads, Goto, Accepts
<1>13. CASE DropRing
  BY <1>13 DEF DropRing, recorders, listener, globals, threads, Goto, Accepts
<1>14. ASSUME NEW t \in Threads, EnterAlloc(t) PROVE Holdings'
  BY <1>14 DEF EnterAlloc, recorders, listener, globals, threads, Goto, Accepts
<1>15. ASSUME NEW t \in Threads, LoadSamplerGen(t) PROVE Holdings'
  BY <1>15 DEF LoadSamplerGen, recorders, listener, globals, threads, Goto, Accepts
<1>16. ASSUME NEW t \in Threads, Reseed(t) PROVE Holdings'
  BY <1>16 DEF Reseed, recorders, listener, globals, threads, Goto, Accepts
<1>17. ASSUME NEW t \in Threads, LoadRingAlloc(t) PROVE Holdings'
  BY <1>17 DEF LoadRingAlloc, recorders, listener, globals, threads, Goto, Accepts
<1>18. ASSUME NEW t \in Threads, WriteAlloc(t) PROVE Holdings'
  BY <1>18 DEF WriteAlloc, recorders, listener, globals, threads, Goto, Accepts
<1>19. ASSUME NEW t \in Threads, EnterFree(t) PROVE Holdings'
  BY <1>19 DEF EnterFree, recorders, listener, globals, threads, Goto, Accepts
<1>20. ASSUME NEW t \in Threads, LoadFreeGen(t) PROVE Holdings'
  BY <1>20 DEF LoadFreeGen, recorders, listener, globals, threads, Goto, Accepts
<1>21. ASSUME NEW t \in Threads, AppendFree(t) PROVE Holdings'
  BY <1>21 DEF AppendFree, recorders, listener, globals, threads, Goto, Accepts
<1>22. ASSUME NEW t \in Threads, LoadRingFree(t) PROVE Holdings'
  BY <1>22 DEF LoadRingFree, recorders, listener, globals, threads, Goto, Accepts
<1>23. ASSUME NEW t \in Threads, WriteFree(t) PROVE Holdings'
  BY <1>23 DEF WriteFree, recorders, listener, globals, threads, Goto, Accepts
<1>24. CASE UNCHANGED vars
  BY <1>24 DEF vars, recorders, listener, globals, threads, Goto, Accepts
<1> QED BY <1>1, <1>2, <1>3, <1>4, <1>5, <1>6, <1>7, <1>8, <1>9, <1>10, <1>11, <1>12, <1>13,
     <1>14, <1>15, <1>16, <1>17, <1>18, <1>19, <1>20, <1>21, <1>22, <1>23, <1>24
        DEF Next, Recorder, Listen, Call

(* Generations a thread loaded stay behind, and a sampler of the current one is of *)
(* the current interval.                                                      *)
LEMMA GenerationsStep == ASSUME ShimInv, [Next]_vars PROVE Generations'
<1> USE ShimAssumption DEF ShimInv, ListenerTypes, ThreadTypes, Generations, Sampler
<1>1. CASE Connect
  BY <1>1 DEF Connect, recorders, listener, globals, threads, Goto, Accepts
<1>2. ASSUME NEW s \in open, Disconnect(s) PROVE Generations'
  BY <1>2 DEF Disconnect, recorders, listener, globals, threads, Goto, Accepts
<1>3. CASE AcceptFails
  BY <1>3 DEF AcceptFails, recorders, listener, globals, threads, Goto, Accepts
<1>4. CASE Accept
  BY <1>4 DEF Accept, recorders, listener, globals, threads, Goto, Accepts
<1>5. CASE MapFails
  BY <1>5 DEF MapFails, recorders, listener, globals, threads, Goto, Accepts
<1>6. CASE MapRing
  BY <1>6 DEF MapRing, recorders, listener, globals, threads, Goto, Accepts
<1>7. CASE SetInterval
  BY <1>7 DEF SetInterval, recorders, listener, globals, threads, Goto, Accepts
<1>8. CASE BumpGeneration
  BY <1>8 DEF BumpGeneration, recorders, listener, globals, threads, Goto, Accepts
<1>9. CASE InstallRing
  BY <1>9 DEF InstallRing, recorders, listener, globals, threads, Goto, Accepts
<1>10. CASE Enable
  BY <1>10 DEF Enable, recorders, listener, globals, threads, Goto, Accepts
<1>11. CASE Disable
  BY <1>11 DEF Disable, recorders, listener, globals, threads, Goto, Accepts
<1>12. CASE ClearRing
  BY <1>12 DEF ClearRing, recorders, listener, globals, threads, Goto, Accepts
<1>13. CASE DropRing
  BY <1>13 DEF DropRing, recorders, listener, globals, threads, Goto, Accepts
<1>14. ASSUME NEW t \in Threads, EnterAlloc(t) PROVE Generations'
  BY <1>14 DEF EnterAlloc, recorders, listener, globals, threads, Goto, Accepts
<1>15. ASSUME NEW t \in Threads, LoadSamplerGen(t) PROVE Generations'
  BY <1>15 DEF LoadSamplerGen, recorders, listener, globals, threads, Goto, Accepts
<1>16. ASSUME NEW t \in Threads, Reseed(t) PROVE Generations'
  BY <1>16 DEF Reseed, recorders, listener, globals, threads, Goto, Accepts
<1>17. ASSUME NEW t \in Threads, LoadRingAlloc(t) PROVE Generations'
  BY <1>17 DEF LoadRingAlloc, recorders, listener, globals, threads, Goto, Accepts
<1>18. ASSUME NEW t \in Threads, WriteAlloc(t) PROVE Generations'
  BY <1>18 DEF WriteAlloc, recorders, listener, globals, threads, Goto, Accepts
<1>19. ASSUME NEW t \in Threads, EnterFree(t) PROVE Generations'
  BY <1>19 DEF EnterFree, recorders, listener, globals, threads, Goto, Accepts
<1>20. ASSUME NEW t \in Threads, LoadFreeGen(t) PROVE Generations'
  BY <1>20 DEF LoadFreeGen, recorders, listener, globals, threads, Goto, Accepts
<1>21. ASSUME NEW t \in Threads, AppendFree(t) PROVE Generations'
  BY <1>21 DEF AppendFree, recorders, listener, globals, threads, Goto, Accepts
<1>22. ASSUME NEW t \in Threads, LoadRingFree(t) PROVE Generations'
  BY <1>22 DEF LoadRingFree, recorders, listener, globals, threads, Goto, Accepts
<1>23. ASSUME NEW t \in Threads, WriteFree(t) PROVE Generations'
  BY <1>23 DEF WriteFree, recorders, listener, globals, threads, Goto, Accepts
<1>24. CASE UNCHANGED vars
  BY <1>24 DEF vars, recorders, listener, globals, threads, Goto, Accepts
<1> QED BY <1>1, <1>2, <1>3, <1>4, <1>5, <1>6, <1>7, <1>8, <1>9, <1>10, <1>11, <1>12, <1>13,
     <1>14, <1>15, <1>16, <1>17, <1>18, <1>19, <1>20, <1>21, <1>22, <1>23, <1>24
        DEF Next, Recorder, Listen, Call

(* A thread past G_ENABLED has seen a session.                                *)
LEMMA EnteredStep == ASSUME ShimInv, [Next]_vars PROVE Entered'
<1> USE ShimAssumption DEF ShimInv, ListenerTypes, ThreadTypes, Holdings, Entered
<1>1. CASE Connect
  BY <1>1 DEF Connect, recorders, listener, globals, threads, Goto, Accepts
<1>2. ASSUME NEW s \in open, Disconnect(s) PROVE Entered'
  BY <1>2 DEF Disconnect, recorders, listener, globals, threads, Goto, Accepts
<1>3. CASE AcceptFails
  BY <1>3 DEF AcceptFails, recorders, listener, globals, threads, Goto, Accepts
<1>4. CASE Accept
  BY <1>4 DEF Accept, recorders, listener, globals, threads, Goto, Accepts
<1>5. CASE MapFails
  BY <1>5 DEF MapFails, recorders, listener, globals, threads, Goto, Accepts
<1>6. CASE MapRing
  BY <1>6 DEF MapRing, recorders, listener, globals, threads, Goto, Accepts
<1>7. CASE SetInterval
  BY <1>7 DEF SetInterval, recorders, listener, globals, threads, Goto, Accepts
<1>8. CASE BumpGeneration
  BY <1>8 DEF BumpGeneration, recorders, listener, globals, threads, Goto, Accepts
<1>9. CASE InstallRing
  BY <1>9 DEF InstallRing, recorders, listener, globals, threads, Goto, Accepts
<1>10. CASE Enable
  BY <1>10 DEF Enable, recorders, listener, globals, threads, Goto, Accepts
<1>11. CASE Disable
  BY <1>11 DEF Disable, recorders, listener, globals, threads, Goto, Accepts
<1>12. CASE ClearRing
  BY <1>12 DEF ClearRing, recorders, listener, globals, threads, Goto, Accepts
<1>13. CASE DropRing
  BY <1>13 DEF DropRing, recorders, listener, globals, threads, Goto, Accepts
<1>14. ASSUME NEW t \in Threads, EnterAlloc(t) PROVE Entered'
  BY <1>14 DEF EnterAlloc, recorders, listener, globals, threads, Goto, Accepts
<1>15. ASSUME NEW t \in Threads, LoadSamplerGen(t) PROVE Entered'
  BY <1>15 DEF LoadSamplerGen, recorders, listener, globals, threads, Goto, Accepts
<1>16. ASSUME NEW t \in Threads, Reseed(t) PROVE Entered'
  BY <1>16 DEF Reseed, recorders, listener, globals, threads, Goto, Accepts
<1>17. ASSUME NEW t \in Threads, LoadRingAlloc(t) PROVE Entered'
  BY <1>17 DEF LoadRingAlloc, recorders, listener, globals, threads, Goto, Accepts
<1>18. ASSUME NEW t \in Threads, WriteAlloc(t) PROVE Entered'
  BY <1>18 DEF WriteAlloc, recorders, listener, globals, threads, Goto, Accepts
<1>19. ASSUME NEW t \in Threads, EnterFree(t) PROVE Entered'
  BY <1>19 DEF EnterFree, recorders, listener, globals, threads, Goto, Accepts
<1>20. ASSUME NEW t \in Threads, LoadFreeGen(t) PROVE Entered'
  BY <1>20 DEF LoadFreeGen, recorders, listener, globals, threads, Goto, Accepts
<1>21. ASSUME NEW t \in Threads, AppendFree(t) PROVE Entered'
  BY <1>21 DEF AppendFree, recorders, listener, globals, threads, Goto, Accepts
<1>22. ASSUME NEW t \in Threads, LoadRingFree(t) PROVE Entered'
  BY <1>22 DEF LoadRingFree, recorders, listener, globals, threads, Goto, Accepts
<1>23. ASSUME NEW t \in Threads, WriteFree(t) PROVE Entered'
  BY <1>23 DEF WriteFree, recorders, listener, globals, threads, Goto, Accepts
<1>24. CASE UNCHANGED vars
  BY <1>24 DEF vars, recorders, listener, globals, threads, Goto, Accepts
<1> QED BY <1>1, <1>2, <1>3, <1>4, <1>5, <1>6, <1>7, <1>8, <1>9, <1>10, <1>11, <1>12, <1>13,
     <1>14, <1>15, <1>16, <1>17, <1>18, <1>19, <1>20, <1>21, <1>22, <1>23, <1>24
        DEF Next, Recorder, Listen, Call

(* Emptying a thread's batch keeps its generation and the others' batches.    *)
LEMMA BatchEmptied ==
  ASSUME ShimInv, NEW t \in Threads, batch' = [batch EXCEPT ![t].entries = << >>]
  PROVE  /\ batch' \in [Threads -> Batch]
         /\ batch'[t].entries = << >>
         /\ \A u \in Threads : u # t => batch'[u] = batch[u]
<1> DEFINE b == [batch[t] EXCEPT !.entries = << >>]
<1>1. batch[t] \in Batch
  BY DEF ShimInv, ThreadTypes
<1>2. << >> \in Entries
  BY DEF Entries
<1>3. b \in Batch /\ b.entries = << >>
  BY <1>1, <1>2 DEF Batch
<1>4. batch' = [batch EXCEPT ![t] = b]
  OBVIOUS
<1> HIDE DEF b
<1> QED BY <1>3, <1>4 DEF ShimInv, ThreadTypes

(* The batch after an append: the entries kept, and one more.                 *)
LEMMA BatchAppended ==
  ASSUME ShimInv, NEW t \in Threads, AppendFree(t)
  PROVE  /\ batch' \in [Threads -> Batch]
         /\ Len(batch'[t].entries) <= FREE_BATCH_CAP
         /\ tpc'[t] = "load_free" \/ Len(batch'[t].entries) < FREE_BATCH_CAP
         /\ \A u \in Threads : u # t => batch'[u] = batch[u]
<1> DEFINE kept == IF batch[t].gen # gen[t] THEN << >> ELSE batch[t].entries
<1> DEFINE e == Append(kept, gen[t])
<1> DEFINE b == [gen |-> gen[t], entries |-> e]
<1>1. batch[t].entries \in Entries /\ gen[t] \in 1..MaxSessions
  BY DEF ShimInv, ThreadTypes, Batch, Entered, AppendFree
<1>2. Len(batch[t].entries) < FREE_BATCH_CAP
  BY DEF ShimInv, Roomy, AppendFree
<1>3. kept \in Entries /\ Len(kept) < FREE_BATCH_CAP
  <2>1. CASE batch[t].gen # gen[t]
    <3>1. kept = << >>
      BY <2>1
    <3>2. Len(<< >>) = 0 /\ << >> \in Entries
      BY DEF Entries
    <3> QED BY <3>1, <3>2, ShimAssumption
  <2>2. CASE batch[t].gen = gen[t]
    BY <2>2, <1>1, <1>2
  <2> QED BY <2>1, <2>2
<1>4. e \in Entries /\ Len(e) = Len(kept) + 1 /\ Len(kept) \in Nat
  BY <1>1, <1>3 DEF Entries
<1>5. /\ batch' = [batch EXCEPT ![t] = b]
      /\ tpc' = [tpc EXCEPT ![t] = "load_free"] \/ Len(kept) + 1 < FREE_BATCH_CAP
  BY DEF AppendFree, Goto
<1> HIDE DEF kept, e
<1>6. b \in Batch /\ b.entries = e
  BY <1>1, <1>4 DEF Batch
<1> HIDE DEF b
<1>7. batch'[t] = b /\ batch' \in [Threads -> Batch] /\ \A u \in Threads : u # t => batch'[u] = batch[u]
  BY <1>5, <1>6 DEF ShimInv, ThreadTypes
<1>8. Len(e) <= FREE_BATCH_CAP
  BY <1>3, <1>4, ShimAssumption
<1>9. tpc'[t] = "load_free" \/ Len(e) < FREE_BATCH_CAP
  BY <1>4, <1>5 DEF ShimInv, ThreadTypes
<1> QED BY <1>6, <1>7, <1>8, <1>9

(* A batch is full only on its way to the ring.                               *)
LEMMA RoomStep == ASSUME ShimInv, [Next]_vars PROVE Roomy'
<1> USE ShimAssumption DEF ShimInv, ThreadTypes, Roomy
<1>1. CASE Connect
  BY <1>1 DEF Connect, recorders, listener, globals, threads, Goto, Accepts
<1>2. ASSUME NEW s \in open, Disconnect(s) PROVE Roomy'
  BY <1>2 DEF Disconnect, recorders, listener, globals, threads, Goto, Accepts
<1>3. CASE AcceptFails
  BY <1>3 DEF AcceptFails, recorders, listener, globals, threads, Goto, Accepts
<1>4. CASE Accept
  BY <1>4 DEF Accept, recorders, listener, globals, threads, Goto, Accepts
<1>5. CASE MapFails
  BY <1>5 DEF MapFails, recorders, listener, globals, threads, Goto, Accepts
<1>6. CASE MapRing
  BY <1>6 DEF MapRing, recorders, listener, globals, threads, Goto, Accepts
<1>7. CASE SetInterval
  BY <1>7 DEF SetInterval, recorders, listener, globals, threads, Goto, Accepts
<1>8. CASE BumpGeneration
  BY <1>8 DEF BumpGeneration, recorders, listener, globals, threads, Goto, Accepts
<1>9. CASE InstallRing
  BY <1>9 DEF InstallRing, recorders, listener, globals, threads, Goto, Accepts
<1>10. CASE Enable
  BY <1>10 DEF Enable, recorders, listener, globals, threads, Goto, Accepts
<1>11. CASE Disable
  BY <1>11 DEF Disable, recorders, listener, globals, threads, Goto, Accepts
<1>12. CASE ClearRing
  BY <1>12 DEF ClearRing, recorders, listener, globals, threads, Goto, Accepts
<1>13. CASE DropRing
  BY <1>13 DEF DropRing, recorders, listener, globals, threads, Goto, Accepts
<1>14. ASSUME NEW t \in Threads, EnterAlloc(t) PROVE Roomy'
  BY <1>14 DEF EnterAlloc, recorders, listener, globals, threads, Goto, Accepts
<1>15. ASSUME NEW t \in Threads, LoadSamplerGen(t) PROVE Roomy'
  BY <1>15 DEF LoadSamplerGen, recorders, listener, globals, threads, Goto, Accepts
<1>16. ASSUME NEW t \in Threads, Reseed(t) PROVE Roomy'
  BY <1>16 DEF Reseed, recorders, listener, globals, threads, Goto, Accepts
<1>17. ASSUME NEW t \in Threads, LoadRingAlloc(t) PROVE Roomy'
  BY <1>17 DEF LoadRingAlloc, recorders, listener, globals, threads, Goto, Accepts
<1>18. ASSUME NEW t \in Threads, WriteAlloc(t) PROVE Roomy'
  BY <1>18 DEF WriteAlloc, recorders, listener, globals, threads, Goto, Accepts
<1>19. ASSUME NEW t \in Threads, EnterFree(t) PROVE Roomy'
  BY <1>19 DEF EnterFree, recorders, listener, globals, threads, Goto, Accepts
<1>20. ASSUME NEW t \in Threads, LoadFreeGen(t) PROVE Roomy'
  BY <1>20 DEF LoadFreeGen, recorders, listener, globals, threads, Goto, Accepts
<1>21. ASSUME NEW t \in Threads, AppendFree(t) PROVE Roomy'
  BY <1>21, BatchAppended DEF AppendFree, recorders, listener, globals, threads, Goto, Accepts
<1>22. ASSUME NEW t \in Threads, LoadRingFree(t) PROVE Roomy'
  <2>1. CASE ~(g_rb = 0)
    BY <2>1, <1>22 DEF LoadRingFree, recorders, listener, globals, threads, Goto, Accepts
  <2>2. CASE g_rb = 0
    <3>1. batch' = [batch EXCEPT ![t].entries = << >>] /\ tpc' = [tpc EXCEPT ![t] = "idle"]
      BY <2>2, <1>22 DEF LoadRingFree, recorders, listener, globals, threads, Goto, Accepts
    <3>2. Len(<< >>) = 0
      OBVIOUS
    <3> QED BY <3>1, <3>2, BatchEmptied
  <2> QED BY <2>1, <2>2
<1>23. ASSUME NEW t \in Threads, WriteFree(t) PROVE Roomy'
  <2>1. CASE ~(rb[t] \in mapped)
    BY <2>1, <1>23 DEF WriteFree, recorders, listener, globals, threads, Goto, Accepts
  <2>2. CASE rb[t] \in mapped
    <3>1. batch' = [batch EXCEPT ![t].entries = << >>] /\ tpc' = [tpc EXCEPT ![t] = "idle"]
      BY <2>2, <1>23 DEF WriteFree, recorders, listener, globals, threads, Goto, Accepts
    <3>2. Len(<< >>) = 0
      OBVIOUS
    <3> QED BY <3>1, <3>2, BatchEmptied
  <2> QED BY <2>1, <2>2
<1>24. CASE UNCHANGED vars
  BY <1>24 DEF vars, recorders, listener, globals, threads, Goto, Accepts
<1> QED BY <1>1, <1>2, <1>3, <1>4, <1>5, <1>6, <1>7, <1>8, <1>9, <1>10, <1>11, <1>12, <1>13,
     <1>14, <1>15, <1>16, <1>17, <1>18, <1>19, <1>20, <1>21, <1>22, <1>23, <1>24
        DEF Next, Recorder, Listen, Call

(* The threads keep their types.                                              *)
LEMMA ThreadStep == ASSUME ShimInv, [Next]_vars PROVE ThreadTypes'
<1> USE ShimAssumption DEF ShimInv, ListenerTypes, ThreadTypes, Steps, Sampler
<1>1. CASE Connect
  BY <1>1 DEF Connect, recorders, listener, globals, threads, Goto, Accepts
<1>2. ASSUME NEW s \in open, Disconnect(s) PROVE ThreadTypes'
  BY <1>2 DEF Disconnect, recorders, listener, globals, threads, Goto, Accepts
<1>3. CASE AcceptFails
  BY <1>3 DEF AcceptFails, recorders, listener, globals, threads, Goto, Accepts
<1>4. CASE Accept
  BY <1>4 DEF Accept, recorders, listener, globals, threads, Goto, Accepts
<1>5. CASE MapFails
  BY <1>5 DEF MapFails, recorders, listener, globals, threads, Goto, Accepts
<1>6. CASE MapRing
  BY <1>6 DEF MapRing, recorders, listener, globals, threads, Goto, Accepts
<1>7. CASE SetInterval
  BY <1>7 DEF SetInterval, recorders, listener, globals, threads, Goto, Accepts
<1>8. CASE BumpGeneration
  BY <1>8 DEF BumpGeneration, recorders, listener, globals, threads, Goto, Accepts
<1>9. CASE InstallRing
  BY <1>9 DEF InstallRing, recorders, listener, globals, threads, Goto, Accepts
<1>10. CASE Enable
  BY <1>10 DEF Enable, recorders, listener, globals, threads, Goto, Accepts
<1>11. CASE Disable
  BY <1>11 DEF Disable, recorders, listener, globals, threads, Goto, Accepts
<1>12. CASE ClearRing
  BY <1>12 DEF ClearRing, recorders, listener, globals, threads, Goto, Accepts
<1>13. CASE DropRing
  BY <1>13 DEF DropRing, recorders, listener, globals, threads, Goto, Accepts
<1>14. ASSUME NEW t \in Threads, EnterAlloc(t) PROVE ThreadTypes'
  BY <1>14 DEF EnterAlloc, recorders, listener, globals, threads, Goto, Accepts
<1>15. ASSUME NEW t \in Threads, LoadSamplerGen(t) PROVE ThreadTypes'
  BY <1>15 DEF LoadSamplerGen, recorders, listener, globals, threads, Goto, Accepts
<1>16. ASSUME NEW t \in Threads, Reseed(t) PROVE ThreadTypes'
  BY <1>16 DEF Reseed, recorders, listener, globals, threads, Goto, Accepts
<1>17. ASSUME NEW t \in Threads, LoadRingAlloc(t) PROVE ThreadTypes'
  BY <1>17 DEF LoadRingAlloc, recorders, listener, globals, threads, Goto, Accepts
<1>18. ASSUME NEW t \in Threads, WriteAlloc(t) PROVE ThreadTypes'
  BY <1>18 DEF WriteAlloc, recorders, listener, globals, threads, Goto, Accepts
<1>19. ASSUME NEW t \in Threads, EnterFree(t) PROVE ThreadTypes'
  BY <1>19 DEF EnterFree, recorders, listener, globals, threads, Goto, Accepts
<1>20. ASSUME NEW t \in Threads, LoadFreeGen(t) PROVE ThreadTypes'
  BY <1>20 DEF LoadFreeGen, recorders, listener, globals, threads, Goto, Accepts
<1>21. ASSUME NEW t \in Threads, AppendFree(t) PROVE ThreadTypes'
  <2>1. batch' \in [Threads -> Batch]
    BY <1>21, BatchAppended
  <2>2. tpc' \in [Threads -> Steps]
    BY <1>21 DEF AppendFree, Goto
  <2> QED BY <2>1, <2>2, <1>21 DEF AppendFree, recorders, listener, globals, threads, Goto, Accepts
<1>22. ASSUME NEW t \in Threads, LoadRingFree(t) PROVE ThreadTypes'
  <2>1. CASE batch' = batch
    BY <2>1, <1>22 DEF LoadRingFree, recorders, listener, globals, threads, Goto, Accepts
  <2>2. CASE batch' = [batch EXCEPT ![t].entries = << >>]
    <3>1. batch' \in [Threads -> Batch]
      BY <2>2, BatchEmptied
    <3> QED BY <3>1, <1>22 DEF LoadRingFree, recorders, listener, globals, threads, Goto, Accepts
  <2> QED BY <2>1, <2>2, <1>22 DEF LoadRingFree
<1>23. ASSUME NEW t \in Threads, WriteFree(t) PROVE ThreadTypes'
  <2>1. CASE batch' = batch
    BY <2>1, <1>23 DEF WriteFree, recorders, listener, globals, threads, Goto, Accepts
  <2>2. CASE batch' = [batch EXCEPT ![t].entries = << >>]
    <3>1. batch' \in [Threads -> Batch]
      BY <2>2, BatchEmptied
    <3> QED BY <3>1, <1>23 DEF WriteFree, recorders, listener, globals, threads, Goto, Accepts
  <2> QED BY <2>1, <2>2, <1>23 DEF WriteFree
<1>24. CASE UNCHANGED vars
  BY <1>24 DEF vars, recorders, listener, globals, threads, Goto, Accepts
<1> QED BY <1>1, <1>2, <1>3, <1>4, <1>5, <1>6, <1>7, <1>8, <1>9, <1>10, <1>11, <1>12, <1>13,
     <1>14, <1>15, <1>16, <1>17, <1>18, <1>19, <1>20, <1>21, <1>22, <1>23, <1>24
        DEF Next, Recorder, Listen, Call

------------------------------------------------------------------------------
(* What the shim promises.                                                   *)

(* The invariant holds before the first session.                              *)
LEMMA InitShimInv == Init => ShimInv
<1> SUFFICES ASSUME Init PROVE ShimInv
  OBVIOUS
<1> USE ShimAssumption DEF Init
<1>1. SocketTypes /\ ListenerTypes
  <2>1. g_enabled \in BOOLEAN
    BY Zenon
  <2>2. << >> \in Seq(1..0)
    OBVIOUS
  <2> QED BY <2>1, <2>2 DEF SocketTypes, ListenerTypes, ListenSteps
<1>2. ThreadTypes
  <2>1. << >> \in Entries
    BY DEF Entries
  <2>2. /\ [gen |-> 0, interval |-> 0] \in Sampler
        /\ [gen |-> 0, entries |-> << >>] \in Batch
    BY <2>1 DEF Sampler, Batch
  <2>3. sampler \in [Threads -> Sampler] /\ batch \in [Threads -> Batch]
    BY <2>2
  <2>4. crashed \in BOOLEAN
    BY Zenon
  <2> QED BY <2>3, <2>4 DEF ThreadTypes, Steps
<1>3. ConnectionsCounted
  BY DEF ConnectionsCounted, Taken, Unbumped
<1>4. Holdings /\ Generations /\ Entered
  BY DEF Holdings, Generations, Entered
<1>5. Roomy
  <2>1. \A t \in Threads : batch[t].entries = << >>
    OBVIOUS
  <2>2. Len(<< >>) = 0
    OBVIOUS
  <2> HIDE DEF Init
  <2>3. \A n : n = 0 => n <= FREE_BATCH_CAP /\ n < FREE_BATCH_CAP
    OBVIOUS
  <2>4. ASSUME NEW t \in Threads
        PROVE  Len(batch[t].entries) <= FREE_BATCH_CAP /\ Len(batch[t].entries) < FREE_BATCH_CAP
    BY <2>1, <2>2, <2>3, Zenon
  <2> QED BY <2>4, Zenon DEF Roomy
<1> QED BY <1>1, <1>2, <1>3, <1>4, <1>5 DEF ShimInv

(* One step of a recorder, the listener or a thread keeps the invariant.      *)
LEMMA ShimStep == ShimInv /\ [Next]_vars => ShimInv'
BY SocketStep, ListenerStep, CountStep, HoldingsStep, GenerationsStep, EnteredStep, RoomStep,
   ThreadStep DEF ShimInv

(* The shim's inductive invariant, for any number of threads, sessions and    *)
(* calls and any size of the free batch.                                      *)
THEOREM ShimInvariant == Spec => []ShimInv
BY InitShimInv, ShimStep, PTL DEF Spec

(* Sessions do not mix: a sampler that passes for one of the current session  *)
(* has its interval although generation and interval are two loads, the       *)
(* listener ends each session with empty hands, and a batch that could not be *)
(* flushed does not overflow.                                                 *)
THEOREM SessionsKeptApart == Spec => []SessionsApart
<1>1. ShimInv => SessionsApart
  <2> SUFFICES ASSUME ShimInv PROVE SessionsApart
    OBVIOUS
  <2> USE DEF ShimInv
  <2>1. TypeOK
    <3>1. {g_rb, g_gen, g_interval} \subseteq 0..MaxSessions
      BY DEF ListenerTypes
    <3>2. \A t \in Threads : /\ batch[t].gen \in 0..MaxSessions
                             /\ batch[t].entries \in Seq(1..MaxSessions)
                             /\ Len(batch[t].entries) <= FREE_BATCH_CAP
      BY DEF ThreadTypes, Batch, Entries, Roomy
    <3> QED BY <3>1, <3>2 DEF TypeOK, SocketTypes, ListenerTypes, ThreadTypes, ListenSteps, Sampler
  <2>2. SamplerOfSession
    BY DEF SamplerOfSession, Generations, Holdings
  <2>3. ListenerHoldsNothing
    BY DEF ListenerHoldsNothing, Holdings
  <2>4. BatchHasRoom
    BY DEF BatchHasRoom, Roomy
  <2> QED BY <2>1, <2>2, <2>3, <2>4 DEF SessionsApart
<1> QED BY <1>1, ShimInvariant, PTL

=============================================================================
