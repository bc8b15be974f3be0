--------------------------- MODULE RingHostProofs ---------------------------
(***************************************************************************)
(* Proofs about RingHost.  A stop travels from a trampoline through the     *)
(* pending flag and the collected set to its ack while other data sources   *)
(* stop, events are logged and the recorder shuts down; the invariant says  *)
(* what is true of it at every step of that way.                            *)
(***************************************************************************)
EXTENDS RingHost, Integers, FiniteSetTheorems, TLAPS

------------------------------------------------------------------------------
(* The invariant.                                                           *)

Places == {1, 2, 3}
Settled == {"wait", "wait_timeout", "choose", "exit2", "ack", "clear"}
Draining == {"read", "feed"}

(* Something has set the event, or is about to.                              *)
Awake == signaled \/ cb = "set" \/ shut = "set"

(* What the worker has looked at in this turn and not found, will wake it:   *)
(* the exit from the step behind LoopExit on, a stop once Collect is past    *)
(* its data source.                                                          *)
ExitHeard ==
  wpc \in Settled \cup Draining \cup {"poll", "collect", "final"} /\ exit_requested => Awake
LookedAt(i) ==
  \/ wpc \in Settled \cup {"final"}
  \/ wpc \in Draining /\ ret = "ack"
  \/ wpc = "collect" /\ i < k
StopsHeard ==
  \A i \in Places : LookedAt(i) /\ Order[i] \in Hosted /\ pending_stopper[Order[i]] => Awake

(* A stop is asked for once; it is pending, collected or acked.              *)
StopOnce ==
  \A c \in Hosted :
    /\ phase[c] # "stopping" => ~pending_stopper[c] /\ c \notin taken /\ stop_acks[c] = 0
    /\ pending_stopper[c] => c \notin taken /\ stop_acks[c] = 0
    /\ c \in taken /\ ~(wpc = "clear" /\ Order[k] = c) => stop_acks[c] = 0
    /\ phase[c] = "started" \/ pending_stopper[c] \/ c \in taken => running[c]
AckUnderWay == wpc = "clear" => Order[k] \in taken
(* The loops over the consumers begin with the first.                        *)
LoopsBegin == wpc \notin {"feed", "collect", "ack", "clear"} => k = 1

(* The final drain: read, then handed on in order, then acked.               *)
Covered(c) == fed[c] >= mark[c] \/ read_failed
DrainCovers ==
  /\ wpc = "feed" /\ ret = "ack" =>
       \A c \in taken : drained >= mark[c] \/ read_failed
  /\ wpc = "feed" /\ ret = "ack" =>
       \A i \in Places : i < k /\ Order[i] \in taken \cap live => Covered(Order[i])
  /\ wpc \in {"ack", "clear"} => \A c \in taken \cap live : Covered(c)
RingBounded == produced - drained <= kernel_buffer_events

(* The ring is open between OpenRing and DropRing.                           *)
Before == {"setup_check", "setup_reset", "setup_recheck", "setup_wait", "setup_exit", "open"}
Owned ==
  /\ wpc \in Before \cup {"done"} => ~opened
  /\ shut = "joined" => wpc = "done" /\ ~armed

(* Nothing is acked before the consumers exist.                              *)
NoneYet == wpc \in Before \cup {"arm"} => \A c \in Hosted : stop_acks[c] = 0

(* Every set-up received is one data source's.                               *)
SetUp == {c \in Enabled : phase[c] # "registered"}
SetupsCounted == setups_received = Cardinality(SetUp)

StopsInv ==
  /\ TypeOK /\ ExitHeard /\ StopsHeard /\ StopOnce /\ AckUnderWay /\ LoopsBegin
  /\ Owned /\ NoneYet /\ SetupsCounted /\ RingBounded
FeedInv == DrainCovers /\ FinalDrainFed

------------------------------------------------------------------------------
(* The order of the consumers, and the sets that are counted.                *)

(* run and drain_once go through three consumers in a fixed order.           *)
LEMMA OrderFacts ==
  /\ Len(Order) = 3 /\ DOMAIN Order = 1..3
  /\ Order[1] = "sched" /\ Order[2] = "offcpu" /\ Order[3] = "oncpu"
BY DEF Order
(* Every data source hosted has its place in that order ...                  *)
LEMMA Placed == \A c \in Hosted : \E i \in Places : Order[i] = c
BY OrderFacts, HostAssumption DEF Places
(* ... and no two share one.                                                 *)
LEMMA PlacesDiffer == \A i, j \in Places : Order[i] = Order[j] => i = j
BY OrderFacts DEF Places
(* The data sources hosted and enabled can be counted.                       *)
LEMMA EnabledFinite == IsFiniteSet(Enabled) /\ IsFiniteSet(Hosted)
<1>1. IsFiniteSet({"sched", "offcpu", "oncpu"})
  <2>1. IsFiniteSet({"sched"}) /\ IsFiniteSet({"sched"} \cup {"offcpu"})
    BY FS_Singleton, FS_AddElement
  <2>2. IsFiniteSet(({"sched"} \cup {"offcpu"}) \cup {"oncpu"})
    BY <2>1, FS_AddElement
  <2>3. ({"sched"} \cup {"offcpu"}) \cup {"oncpu"} = {"sched", "offcpu", "oncpu"}
    OBVIOUS
  <2> QED BY <2>2, <2>3
<1> QED BY <1>1, FS_Subset, HostAssumption
(* A part of what is enabled has no more members than the whole.             *)
LEMMA PartCount == ASSUME NEW S, S \subseteq Enabled PROVE Cardinality(S) \in 0..Cardinality(Enabled)
BY EnabledFinite, FS_Subset, FS_CardinalityType

(* The ring and kperf are owned by a worker that is there.                    *)
LEMMA OwnedStep == ASSUME StopsInv, [Next]_vars PROVE Owned'
<1> USE HostAssumption, OrderFacts DEF StopsInv, TypeOK, Owned, Before, Steps
<1>1. ASSUME NEW c \in Hosted, on_setup(c) PROVE Owned'
  BY <1>1 DEF on_setup, service, control, worker, kernel, feed, Go, Local, Reset, Wait, Exits, StartDrain
<1>2. ASSUME NEW c \in Hosted, on_start(c) PROVE Owned'
  BY <1>2 DEF on_start, service, control, worker, kernel, feed, Go, Local, Reset, Wait, Exits, StartDrain
<1>3. ASSUME NEW c \in Hosted, on_flush(c) PROVE Owned'
  BY <1>3 DEF on_flush, service, control, worker, kernel, feed, Go, Local, Reset, Wait, Exits, StartDrain
<1>4. ASSUME NEW c \in Hosted, on_stop(c) PROVE Owned'
  BY <1>4 DEF on_stop, service, control, worker, kernel, feed, Go, Local, Reset, Wait, Exits, StartDrain
<1>5. CASE CallbackSets
  BY <1>5 DEF CallbackSets, service, control, worker, kernel, feed, Go, Local, Reset, Wait, Exits, StartDrain
<1>6. CASE shutdown
  BY <1>6 DEF shutdown, service, control, worker, kernel, feed, Go, Local, Reset, Wait, Exits, StartDrain
<1>7. CASE ShutdownSets
  BY <1>7 DEF ShutdownSets, service, control, worker, kernel, feed, Go, Local, Reset, Wait, Exits, StartDrain
<1>8. CASE Join
  BY <1>8 DEF Join, service, control, worker, kernel, feed, Go, Local, Reset, Wait, Exits, StartDrain
<1>9. CASE KernelLogs
  BY <1>9 DEF KernelLogs, service, control, worker, kernel, feed, Go, Local, Reset, Wait, Exits, StartDrain
<1>10. CASE SetupCheck
  BY <1>10 DEF SetupCheck, service, control, worker, kernel, feed, Go, Local, Reset, Wait, Exits, StartDrain
<1>11. CASE SetupReset
  BY <1>11 DEF SetupReset, service, control, worker, kernel, feed, Go, Local, Reset, Wait, Exits, StartDrain
<1>12. CASE SetupRecheck
  BY <1>12 DEF SetupRecheck, service, control, worker, kernel, feed, Go, Local, Reset, Wait, Exits, StartDrain
<1>13. CASE SetupWait
  BY <1>13 DEF SetupWait, service, control, worker, kernel, feed, Go, Local, Reset, Wait, Exits, StartDrain
<1>14. CASE SetupExit
  BY <1>14 DEF SetupExit, service, control, worker, kernel, feed, Go, Local, Reset, Wait, Exits, StartDrain
<1>15. CASE OpenFails
  BY <1>15 DEF OpenFails, service, control, worker, kernel, feed, Go, Local, Reset, Wait, Exits, StartDrain
<1>16. CASE OpenRing
  BY <1>16 DEF OpenRing, service, control, worker, kernel, feed, Go, Local, Reset, Wait, Exits, StartDrain
<1>17. CASE Arm
  BY <1>17 DEF Arm, service, control, worker, kernel, feed, Go, Local, Reset, Wait, Exits, StartDrain
<1>18. CASE Read
  BY <1>18 DEF Read, service, control, worker, kernel, feed, Go, Local, Reset, Wait, Exits, StartDrain
<1>19. CASE Feed
  BY <1>19 DEF Feed, service, control, worker, kernel, feed, Go, Local, Reset, Wait, Exits, StartDrain
<1>20. CASE LoopReset
  BY <1>20 DEF LoopReset, service, control, worker, kernel, feed, Go, Local, Reset, Wait, Exits, StartDrain
<1>21. CASE LoopExit
  BY <1>21 DEF LoopExit, service, control, worker, kernel, feed, Go, Local, Reset, Wait, Exits, StartDrain
<1>22. CASE LoopDrain
  BY <1>22 DEF LoopDrain, service, control, worker, kernel, feed, Go, Local, Reset, Wait, Exits, StartDrain
<1>23. CASE Collect
  BY <1>23 DEF Collect, service, control, worker, kernel, feed, Go, Local, Reset, Wait, Exits, StartDrain
<1>24. CASE FinalDrain
  BY <1>24 DEF FinalDrain, service, control, worker, kernel, feed, Go, Local, Reset, Wait, Exits, StartDrain
<1>25. CASE Ack
  BY <1>25 DEF Ack, service, control, worker, kernel, feed, Go, Local, Reset, Wait, Exits, StartDrain
<1>26. CASE AckNext
  BY <1>26 DEF AckNext, service, control, worker, kernel, feed, Go, Local, Reset, Wait, Exits, StartDrain
<1>27. CASE Clear
  BY <1>27 DEF Clear, service, control, worker, kernel, feed, Go, Local, Reset, Wait, Exits, StartDrain
<1>28. CASE LoopExit2
  BY <1>28 DEF LoopExit2, service, control, worker, kernel, feed, Go, Local, Reset, Wait, Exits, StartDrain
<1>29. CASE Choose
  BY <1>29 DEF Choose, service, control, worker, kernel, feed, Go, Local, Reset, Wait, Exits, StartDrain
<1>30. CASE WaitTimeout
  BY <1>30 DEF WaitTimeout, service, control, worker, kernel, feed, Go, Local, Reset, Wait, Exits, StartDrain
<1>31. CASE LoopWait
  BY <1>31 DEF LoopWait, service, control, worker, kernel, feed, Go, Local, Reset, Wait, Exits, StartDrain
<1>32. CASE DropRing
  BY <1>32 DEF DropRing, service, control, worker, kernel, feed, Go, Local, Reset, Wait, Exits, StartDrain
<1>33. CASE UNCHANGED vars
  BY <1>33 DEF vars, service, control, worker, kernel, feed, Go, Local, Reset, Wait, Exits, StartDrain
<1> QED BY <1>1, <1>2, <1>3, <1>4, <1>5, <1>6, <1>7, <1>8, <1>9, <1>10, <1>11, <1>12, <1>13, <1>14, <1>15, <1>16, <1>17, <1>18, <1>19, <1>20, <1>21, <1>22, <1>23, <1>24, <1>25, <1>26, <1>27, <1>28, <1>29, <1>30, <1>31, <1>32, <1>33
        DEF Next, Service, Recorder, Worker

(* Acks come after Arm.                                                       *)
LEMMA NoneYetStep == ASSUME StopsInv, [Next]_vars PROVE NoneYet'
<1> USE HostAssumption, OrderFacts DEF StopsInv, TypeOK, NoneYet, Before, Steps
<1>1. ASSUME NEW c \in Hosted, on_setup(c) PROVE NoneYet'
  BY <1>1 DEF on_setup, service, control, worker, kernel, feed, Go, Local, Reset, Wait, Exits, StartDrain
<1>2. ASSUME NEW c \in Hosted, on_start(c) PROVE NoneYet'
  BY <1>2 DEF on_start, service, control, worker, kernel, feed, Go, Local, Reset, Wait, Exits, StartDrain
<1>3. ASSUME NEW c \in Hosted, on_flush(c) PROVE NoneYet'
  BY <1>3 DEF on_flush, service, control, worker, kernel, feed, Go, Local, Reset, Wait, Exits, StartDrain
<1>4. ASSUME NEW c \in Hosted, on_stop(c) PROVE NoneYet'
  BY <1>4 DEF on_stop, service, control, worker, kernel, feed, Go, Local, Reset, Wait, Exits, StartDrain
<1>5. CASE CallbackSets
  BY <1>5 DEF CallbackSets, service, control, worker, kernel, feed, Go, Local, Reset, Wait, Exits, StartDrain
<1>6. CASE shutdown
  BY <1>6 DEF shutdown, service, control, worker, kernel, feed, Go, Local, Reset, Wait, Exits, StartDrain
<1>7. CASE ShutdownSets
  BY <1>7 DEF ShutdownSets, service, control, worker, kernel, feed, Go, Local, Reset, Wait, Exits, StartDrain
<1>8. CASE Join
  BY <1>8 DEF Join, service, control, worker, kernel, feed, Go, Local, Reset, Wait, Exits, StartDrain
<1>9. CASE KernelLogs
  BY <1>9 DEF KernelLogs, service, control, worker, kernel, feed, Go, Local, Reset, Wait, Exits, StartDrain
<1>10. CASE SetupCheck
  BY <1>10 DEF SetupCheck, service, control, worker, kernel, feed, Go, Local, Reset, Wait, Exits, StartDrain
<1>11. CASE SetupReset
  BY <1>11 DEF SetupReset, service, control, worker, kernel, feed, Go, Local, Reset, Wait, Exits, StartDrain
<1>12. CASE SetupRecheck
  BY <1>12 DEF SetupRecheck, service, control, worker, kernel, feed, Go, Local, Reset, Wait, Exits, StartDrain
<1>13. CASE SetupWait
  BY <1>13 DEF SetupWait, service, control, worker, kernel, feed, Go, Local, Reset, Wait, Exits, StartDrain
<1>14. CASE SetupExit
  BY <1>14 DEF SetupExit, service, control, worker, kernel, feed, Go, Local, Reset, Wait, Exits, StartDrain
<1>15. CASE OpenFails
  BY <1>15 DEF OpenFails, service, control, worker, kernel, feed, Go, Local, Reset, Wait, Exits, StartDrain
<1>16. CASE OpenRing
  BY <1>16 DEF OpenRing, service, control, worker, kernel, feed, Go, Local, Reset, Wait, Exits, StartDrain
<1>17. CASE Arm
  BY <1>17 DEF Arm, service, control, worker, kernel, feed, Go, Local, Reset, Wait, Exits, StartDrain
<1>18. CASE Read
  BY <1>18 DEF Read, service, control, worker, kernel, feed, Go, Local, Reset, Wait, Exits, StartDrain
<1>19. CASE Feed
  BY <1>19 DEF Feed, service, control, worker, kernel, feed, Go, Local, Reset, Wait, Exits, StartDrain
<1>20. CASE LoopReset
  BY <1>20 DEF LoopReset, service, control, worker, kernel, feed, Go, Local, Reset, Wait, Exits, StartDrain
<1>21. CASE LoopExit
  BY <1>21 DEF LoopExit, service, control, worker, kernel, feed, Go, Local, Reset, Wait, Exits, StartDrain
<1>22. CASE LoopDrain
  BY <1>22 DEF LoopDrain, service, control, worker, kernel, feed, Go, Local, Reset, Wait, Exits, StartDrain
<1>23. CASE Collect
  BY <1>23 DEF Collect, service, control, worker, kernel, feed, Go, Local, Reset, Wait, Exits, StartDrain
<1>24. CASE FinalDrain
  BY <1>24 DEF FinalDrain, service, control, worker, kernel, feed, Go, Local, Reset, Wait, Exits, StartDrain
<1>25. CASE Ack
  BY <1>25 DEF Ack, service, control, worker, kernel, feed, Go, Local, Reset, Wait, Exits, StartDrain
<1>26. CASE AckNext
  BY <1>26 DEF AckNext, service, control, worker, kernel, feed, Go, Local, Reset, Wait, Exits, StartDrain
<1>27. CASE Clear
  BY <1>27 DEF Clear, service, control, worker, kernel, feed, Go, Local, Reset, Wait, Exits, StartDrain
<1>28. CASE LoopExit2
  BY <1>28 DEF LoopExit2, service, control, worker, kernel, feed, Go, Local, Reset, Wait, Exits, StartDrain
<1>29. CASE Choose
  BY <1>29 DEF Choose, service, control, worker, kernel, feed, Go, Local, Reset, Wait, Exits, StartDrain
<1>30. CASE WaitTimeout
  BY <1>30 DEF WaitTimeout, service, control, worker, kernel, feed, Go, Local, Reset, Wait, Exits, StartDrain
<1>31. CASE LoopWait
  BY <1>31 DEF LoopWait, service, control, worker, kernel, feed, Go, Local, Reset, Wait, Exits, StartDrain
<1>32. CASE DropRing
  BY <1>32 DEF DropRing, service, control, worker, kernel, feed, Go, Local, Reset, Wait, Exits, StartDrain
<1>33. CASE UNCHANGED vars
  BY <1>33 DEF vars, service, control, worker, kernel, feed, Go, Local, Reset, Wait, Exits, StartDrain
<1> QED BY <1>1, <1>2, <1>3, <1>4, <1>5, <1>6, <1>7, <1>8, <1>9, <1>10, <1>11, <1>12, <1>13, <1>14, <1>15, <1>16, <1>17, <1>18, <1>19, <1>20, <1>21, <1>22, <1>23, <1>24, <1>25, <1>26, <1>27, <1>28, <1>29, <1>30, <1>31, <1>32, <1>33
        DEF Next, Service, Recorder, Worker

(* An exit requested behind LoopExit leaves the event set.                    *)
LEMMA ExitHeardStep == ASSUME StopsInv, [Next]_vars PROVE ExitHeard'
<1> USE HostAssumption, OrderFacts DEF StopsInv, TypeOK, ExitHeard, Settled, Draining, Awake, Steps
<1>1. ASSUME NEW c \in Hosted, on_setup(c) PROVE ExitHeard'
  BY <1>1 DEF on_setup, service, control, worker, kernel, feed, Go, Local, Reset, Wait, Exits, StartDrain
<1>2. ASSUME NEW c \in Hosted, on_start(c) PROVE ExitHeard'
  BY <1>2 DEF on_start, service, control, worker, kernel, feed, Go, Local, Reset, Wait, Exits, StartDrain
<1>3. ASSUME NEW c \in Hosted, on_flush(c) PROVE ExitHeard'
  BY <1>3 DEF on_flush, service, control, worker, kernel, feed, Go, Local, Reset, Wait, Exits, StartDrain
<1>4. ASSUME NEW c \in Hosted, on_stop(c) PROVE ExitHeard'
  BY <1>4 DEF on_stop, service, control, worker, kernel, feed, Go, Local, Reset, Wait, Exits, StartDrain
<1>5. CASE CallbackSets
  BY <1>5 DEF CallbackSets, service, control, worker, kernel, feed, Go, Local, Reset, Wait, Exits, StartDrain
<1>6. CASE shutdown
  BY <1>6 DEF shutdown, service, control, worker, kernel, feed, Go, Local, Reset, Wait, Exits, StartDrain
<1>7. CASE ShutdownSets
  BY <1>7 DEF ShutdownSets, service, control, worker, kernel, feed, Go, Local, Reset, Wait, Exits, StartDrain
<1>8. CASE Join
  BY <1>8 DEF Join, service, control, worker, kernel, feed, Go, Local, Reset, Wait, Exits, StartDrain
<1>9. CASE KernelLogs
  BY <1>9 DEF KernelLogs, service, control, worker, kernel, feed, Go, Local, Reset, Wait, Exits, StartDrain
<1>10. CASE SetupCheck
  BY <1>10 DEF SetupCheck, service, control, worker, kernel, feed, Go, Local, Reset, Wait, Exits, StartDrain
<1>11. CASE SetupReset
  BY <1>11 DEF SetupReset, service, control, worker, kernel, feed, Go, Local, Reset, Wait, Exits, StartDrain
<1>12. CASE SetupRecheck
  BY <1>12 DEF SetupRecheck, service, control, worker, kernel, feed, Go, Local, Reset, Wait, Exits, StartDrain
<1>13. CASE SetupWait
  BY <1>13 DEF SetupWait, service, control, worker, kernel, feed, Go, Local, Reset, Wait, Exits, StartDrain
<1>14. CASE SetupExit
  BY <1>14 DEF SetupExit, service, control, worker, kernel, feed, Go, Local, Reset, Wait, Exits, StartDrain
<1>15. CASE OpenFails
  BY <1>15 DEF OpenFails, service, control, worker, kernel, feed, Go, Local, Reset, Wait, Exits, StartDrain
<1>16. CASE OpenRing
  BY <1>16 DEF OpenRing, service, control, worker, kernel, feed, Go, Local, Reset, Wait, Exits, StartDrain
<1>17. CASE Arm
  BY <1>17 DEF Arm, service, control, worker, kernel, feed, Go, Local, Reset, Wait, Exits, StartDrain
<1>18. CASE Read
  BY <1>18 DEF Read, service, control, worker, kernel, feed, Go, Local, Reset, Wait, Exits, StartDrain
<1>19. CASE Feed
  BY <1>19 DEF Feed, service, control, worker, kernel, feed, Go, Local, Reset, Wait, Exits, StartDrain
<1>20. CASE LoopReset
  BY <1>20 DEF LoopReset, service, control, worker, kernel, feed, Go, Local, Reset, Wait, Exits, StartDrain
<1>21. CASE LoopExit
  BY <1>21 DEF LoopExit, service, control, worker, kernel, feed, Go, Local, Reset, Wait, Exits, StartDrain
<1>22. CASE LoopDrain
  BY <1>22 DEF LoopDrain, service, control, worker, kernel, feed, Go, Local, Reset, Wait, Exits, StartDrain
<1>23. CASE Collect
  BY <1>23 DEF Collect, service, control, worker, kernel, feed, Go, Local, Reset, Wait, Exits, StartDrain
<1>24. CASE FinalDrain
  BY <1>24 DEF FinalDrain, service, control, worker, kernel, feed, Go, Local, Reset, Wait, Exits, StartDrain
<1>25. CASE Ack
  BY <1>25 DEF Ack, service, control, worker, kernel, feed, Go, Local, Reset, Wait, Exits, StartDrain
<1>26. CASE AckNext
  BY <1>26 DEF AckNext, service, control, worker, kernel, feed, Go, Local, Reset, Wait, Exits, StartDrain
<1>27. CASE Clear
  BY <1>27 DEF Clear, service, control, worker, kernel, feed, Go, Local, Reset, Wait, Exits, StartDrain
<1>28. CASE LoopExit2
  BY <1>28 DEF LoopExit2, service, control, worker, kernel, feed, Go, Local, Reset, Wait, Exits, StartDrain
<1>29. CASE Choose
  BY <1>29 DEF Choose, service, control, worker, kernel, feed, Go, Local, Reset, Wait, Exits, StartDrain
<1>30. CASE WaitTimeout
  BY <1>30 DEF WaitTimeout, service, control, worker, kernel, feed, Go, Local, Reset, Wait, Exits, StartDrain
<1>31. CASE LoopWait
  BY <1>31 DEF LoopWait, service, control, worker, kernel, feed, Go, Local, Reset, Wait, Exits, StartDrain
<1>32. CASE DropRing
  BY <1>32 DEF DropRing, service, control, worker, kernel, feed, Go, Local, Reset, Wait, Exits, StartDrain
<1>33. CASE UNCHANGED vars
  BY <1>33 DEF vars, service, control, worker, kernel, feed, Go, Local, Reset, Wait, Exits, StartDrain
<1> QED BY <1>1, <1>2, <1>3, <1>4, <1>5, <1>6, <1>7, <1>8, <1>9, <1>10, <1>11, <1>12, <1>13, <1>14, <1>15, <1>16, <1>17, <1>18, <1>19, <1>20, <1>21, <1>22, <1>23, <1>24, <1>25, <1>26, <1>27, <1>28, <1>29, <1>30, <1>31, <1>32, <1>33
        DEF Next, Service, Recorder, Worker

(* Clear is reached from an ack.                                              *)
LEMMA AckStep == ASSUME StopsInv, [Next]_vars PROVE AckUnderWay'
<1> USE HostAssumption, OrderFacts DEF StopsInv, TypeOK, AckUnderWay, Steps
<1>1. ASSUME NEW c \in Hosted, on_setup(c) PROVE AckUnderWay'
  BY <1>1 DEF on_setup, service, control, worker, kernel, feed, Go, Local, Reset, Wait, Exits, StartDrain
<1>2. ASSUME NEW c \in Hosted, on_start(c) PROVE AckUnderWay'
  BY <1>2 DEF on_start, service, control, worker, kernel, feed, Go, Local, Reset, Wait, Exits, StartDrain
<1>3. ASSUME NEW c \in Hosted, on_flush(c) PROVE AckUnderWay'
  BY <1>3 DEF on_flush, service, control, worker, kernel, feed, Go, Local, Reset, Wait, Exits, StartDrain
<1>4. ASSUME NEW c \in Hosted, on_stop(c) PROVE AckUnderWay'
  BY <1>4 DEF on_stop, service, control, worker, kernel, feed, Go, Local, Reset, Wait, Exits, StartDrain
<1>5. CASE CallbackSets
  BY <1>5 DEF CallbackSets, service, control, worker, kernel, feed, Go, Local, Reset, Wait, Exits, StartDrain
<1>6. CASE shutdown
  BY <1>6 DEF shutdown, service, control, worker, kernel, feed, Go, Local, Reset, Wait, Exits, StartDrain
<1>7. CASE ShutdownSets
  BY <1>7 DEF ShutdownSets, service, control, worker, kernel, feed, Go, Local, Reset, Wait, Exits, StartDrain
<1>8. CASE Join
  BY <1>8 DEF Join, service, control, worker, kernel, feed, Go, Local, Reset, Wait, Exits, StartDrain
<1>9. CASE KernelLogs
  BY <1>9 DEF KernelLogs, service, control, worker, kernel, feed, Go, Local, Reset, Wait, Exits, StartDrain
<1>10. CASE SetupCheck
  BY <1>10 DEF SetupCheck, service, control, worker, kernel, feed, Go, Local, Reset, Wait, Exits, StartDrain
<1>11. CASE SetupReset
  BY <1>11 DEF SetupReset, service, control, worker, kernel, feed, Go, Local, Reset, Wait, Exits, StartDrain
<1>12. CASE SetupRecheck
  BY <1>12 DEF SetupRecheck, service, control, worker, kernel, feed, Go, Local, Reset, Wait, Exits, StartDrain
<1>13. CASE SetupWait
  BY <1>13 DEF SetupWait, service, control, worker, kernel, feed, Go, Local, Reset, Wait, Exits, StartDrain
<1>14. CASE SetupExit
  BY <1>14 DEF SetupExit, service, control, worker, kernel, feed, Go, Local, Reset, Wait, Exits, StartDrain
<1>15. CASE OpenFails
  BY <1>15 DEF OpenFails, service, control, worker, kernel, feed, Go, Local, Reset, Wait, Exits, StartDrain
<1>16. CASE OpenRing
  BY <1>16 DEF OpenRing, service, control, worker, kernel, feed, Go, Local, Reset, Wait, Exits, StartDrain
<1>17. CASE Arm
  BY <1>17 DEF Arm, service, control, worker, kernel, feed, Go, Local, Reset, Wait, Exits, StartDrain
<1>18. CASE Read
  BY <1>18 DEF Read, service, control, worker, kernel, feed, Go, Local, Reset, Wait, Exits, StartDrain
<1>19. CASE Feed
  BY <1>19 DEF Feed, service, control, worker, kernel, feed, Go, Local, Reset, Wait, Exits, StartDrain
<1>20. CASE LoopReset
  BY <1>20 DEF LoopReset, service, control, worker, kernel, feed, Go, Local, Reset, Wait, Exits, StartDrain
<1>21. CASE LoopExit
  BY <1>21 DEF LoopExit, service, control, worker, kernel, feed, Go, Local, Reset, Wait, Exits, StartDrain
<1>22. CASE LoopDrain
  BY <1>22 DEF LoopDrain, service, control, worker, kernel, feed, Go, Local, Reset, Wait, Exits, StartDrain
<1>23. CASE Collect
  BY <1>23 DEF Collect, service, control, worker, kernel, feed, Go, Local, Reset, Wait, Exits, StartDrain
<1>24. CASE FinalDrain
  BY <1>24 DEF FinalDrain, service, control, worker, kernel, feed, Go, Local, Reset, Wait, Exits, StartDrain
<1>25. CASE Ack
  BY <1>25 DEF Ack, service, control, worker, kernel, feed, Go, Local, Reset, Wait, Exits, StartDrain
<1>26. CASE AckNext
  BY <1>26 DEF AckNext, service, control, worker, kernel, feed, Go, Local, Reset, Wait, Exits, StartDrain
<1>27. CASE Clear
  BY <1>27 DEF Clear, service, control, worker, kernel, feed, Go, Local, Reset, Wait, Exits, StartDrain
<1>28. CASE LoopExit2
  BY <1>28 DEF LoopExit2, service, control, worker, kernel, feed, Go, Local, Reset, Wait, Exits, StartDrain
<1>29. CASE Choose
  BY <1>29 DEF Choose, service, control, worker, kernel, feed, Go, Local, Reset, Wait, Exits, StartDrain
<1>30. CASE WaitTimeout
  BY <1>30 DEF WaitTimeout, service, control, worker, kernel, feed, Go, Local, Reset, Wait, Exits, StartDrain
<1>31. CASE LoopWait
  BY <1>31 DEF LoopWait, service, control, worker, kernel, feed, Go, Local, Reset, Wait, Exits, StartDrain
<1>32. CASE DropRing
  BY <1>32 DEF DropRing, service, control, worker, kernel, feed, Go, Local, Reset, Wait, Exits, StartDrain
<1>33. CASE UNCHANGED vars
  BY <1>33 DEF vars, service, control, worker, kernel, feed, Go, Local, Reset, Wait, Exits, StartDrain
<1> QED BY <1>1, <1>2, <1>3, <1>4, <1>5, <1>6, <1>7, <1>8, <1>9, <1>10, <1>11, <1>12, <1>13, <1>14, <1>15, <1>16, <1>17, <1>18, <1>19, <1>20, <1>21, <1>22, <1>23, <1>24, <1>25, <1>26, <1>27, <1>28, <1>29, <1>30, <1>31, <1>32, <1>33
        DEF Next, Service, Recorder, Worker

(* The ring holds no more than its size.                                      *)
LEMMA BoundStep == ASSUME StopsInv, [Next]_vars PROVE RingBounded'
<1> USE HostAssumption, OrderFacts DEF StopsInv, TypeOK, RingBounded
<1>1. ASSUME NEW c \in Hosted, on_setup(c) PROVE RingBounded'
  BY <1>1 DEF on_setup, service, control, worker, kernel, feed, Go, Local, Reset, Wait, Exits, StartDrain
<1>2. ASSUME NEW c \in Hosted, on_start(c) PROVE RingBounded'
  BY <1>2 DEF on_start, service, control, worker, kernel, feed, Go, Local, Reset, Wait, Exits, StartDrain
<1>3. ASSUME NEW c \in Hosted, on_flush(c) PROVE RingBounded'
  BY <1>3 DEF on_flush, service, control, worker, kernel, feed, Go, Local, Reset, Wait, Exits, StartDrain
<1>4. ASSUME NEW c \in Hosted, on_stop(c) PROVE RingBounded'
  BY <1>4 DEF on_stop, service, control, worker, kernel, feed, Go, Local, Reset, Wait, Exits, StartDrain
<1>5. CASE CallbackSets
  BY <1>5 DEF CallbackSets, service, control, worker, kernel, feed, Go, Local, Reset, Wait, Exits, StartDrain
<1>6. CASE shutdown
  BY <1>6 DEF shutdown, service, control, worker, kernel, feed, Go, Local, Reset, Wait, Exits, StartDrain
<1>7. CASE ShutdownSets
  BY <1>7 DEF ShutdownSets, service, control, worker, kernel, feed, Go, Local, Reset, Wait, Exits, StartDrain
<1>8. CASE Join
  BY <1>8 DEF Join, service, control, worker, kernel, feed, Go, Local, Reset, Wait, Exits, StartDrain
<1>9. CASE KernelLogs
  BY <1>9 DEF KernelLogs, service, control, worker, kernel, feed, Go, Local, Reset, Wait, Exits, StartDrain
<1>10. CASE SetupCheck
  BY <1>10 DEF SetupCheck, service, control, worker, kernel, feed, Go, Local, Reset, Wait, Exits, StartDrain
<1>11. CASE SetupReset
  BY <1>11 DEF SetupReset, service, control, worker, kernel, feed, Go, Local, Reset, Wait, Exits, StartDrain
<1>12. CASE SetupRecheck
  BY <1>12 DEF SetupRecheck, service, control, worker, kernel, feed, Go, Local, Reset, Wait, Exits, StartDrain
<1>13. CASE SetupWait
  BY <1>13 DEF SetupWait, service, control, worker, kernel, feed, Go, Local, Reset, Wait, Exits, StartDrain
<1>14. CASE SetupExit
  BY <1>14 DEF SetupExit, service, control, worker, kernel, feed, Go, Local, Reset, Wait, Exits, StartDrain
<1>15. CASE OpenFails
  BY <1>15 DEF OpenFails, service, control, worker, kernel, feed, Go, Local, Reset, Wait, Exits, StartDrain
<1>16. CASE OpenRing
  BY <1>16 DEF OpenRing, service, control, worker, kernel, feed, Go, Local, Reset, Wait, Exits, StartDrain
<1>17. CASE Arm
  BY <1>17 DEF Arm, service, control, worker, kernel, feed, Go, Local, Reset, Wait, Exits, StartDrain
<1>18. CASE Read
  BY <1>18 DEF Read, service, control, worker, kernel, feed, Go, Local, Reset, Wait, Exits, StartDrain
<1>19. CASE Feed
  BY <1>19 DEF Feed, service, control, worker, kernel, feed, Go, Local, Reset, Wait, Exits, StartDrain
<1>20. CASE LoopReset
  BY <1>20 DEF LoopReset, service, control, worker, kernel, feed, Go, Local, Reset, Wait, Exits, StartDrain
<1>21. CASE LoopExit
  BY <1>21 DEF LoopExit, service, control, worker, kernel, feed, Go, Local, Reset, Wait, Exits, StartDrain
<1>22. CASE LoopDrain
  BY <1>22 DEF LoopDrain, service, control, worker, kernel, feed, Go, Local, Reset, Wait, Exits, StartDrain
<1>23. CASE Collect
  BY <1>23 DEF Collect, service, control, worker, kernel, feed, Go, Local, Reset, Wait, Exits, StartDrain
<1>24. CASE FinalDrain
  BY <1>24 DEF FinalDrain, service, control, worker, kernel, feed, Go, Local, Reset, Wait, Exits, StartDrain
<1>25. CASE Ack
  BY <1>25 DEF Ack, service, control, worker, kernel, feed, Go, Local, Reset, Wait, Exits, StartDrain
<1>26. CASE AckNext
  BY <1>26 DEF AckNext, service, control, worker, kernel, feed, Go, Local, Reset, Wait, Exits, StartDrain
<1>27. CASE Clear
  BY <1>27 DEF Clear, service, control, worker, kernel, feed, Go, Local, Reset, Wait, Exits, StartDrain
<1>28. CASE LoopExit2
  BY <1>28 DEF LoopExit2, service, control, worker, kernel, feed, Go, Local, Reset, Wait, Exits, StartDrain
<1>29. CASE Choose
  BY <1>29 DEF Choose, service, control, worker, kernel, feed, Go, Local, Reset, Wait, Exits, StartDrain
<1>30. CASE WaitTimeout
  BY <1>30 DEF WaitTimeout, service, control, worker, kernel, feed, Go, Local, Reset, Wait, Exits, StartDrain
<1>31. CASE LoopWait
  BY <1>31 DEF LoopWait, service, control, worker, kernel, feed, Go, Local, Reset, Wait, Exits, StartDrain
<1>32. CASE DropRing
  BY <1>32 DEF DropRing, service, control, worker, kernel, feed, Go, Local, Reset, Wait, Exits, StartDrain
<1>33. CASE UNCHANGED vars
  BY <1>33 DEF vars, service, control, worker, kernel, feed, Go, Local, Reset, Wait, Exits, StartDrain
<1> QED BY <1>1, <1>2, <1>3, <1>4, <1>5, <1>6, <1>7, <1>8, <1>9, <1>10, <1>11, <1>12, <1>13, <1>14, <1>15, <1>16, <1>17, <1>18, <1>19, <1>20, <1>21, <1>22, <1>23, <1>24, <1>25, <1>26, <1>27, <1>28, <1>29, <1>30, <1>31, <1>32, <1>33
        DEF Next, Service, Recorder, Worker

(* A stop that comes behind the look at its flag leaves the event set.        *)
LEMMA StopsHeardStep == ASSUME StopsInv, [Next]_vars PROVE StopsHeard'
<1> USE HostAssumption, OrderFacts DEF StopsInv, TypeOK, StopsHeard, LoopsBegin, LookedAt, Places, Settled, Draining, Awake, Steps
<1>1. ASSUME NEW c \in Hosted, on_setup(c) PROVE StopsHeard'
  BY <1>1 DEF on_setup, service, control, worker, kernel, feed, Go, Local, Reset, Wait, Exits, StartDrain
<1>2. ASSUME NEW c \in Hosted, on_start(c) PROVE StopsHeard'
  BY <1>2 DEF on_start, service, control, worker, kernel, feed, Go, Local, Reset, Wait, Exits, StartDrain
<1>3. ASSUME NEW c \in Hosted, on_flush(c) PROVE StopsHeard'
  BY <1>3 DEF on_flush, service, control, worker, kernel, feed, Go, Local, Reset, Wait, Exits, StartDrain
<1>4. ASSUME NEW c \in Hosted, on_stop(c) PROVE StopsHeard'
  BY <1>4 DEF on_stop, service, control, worker, kernel, feed, Go, Local, Reset, Wait, Exits, StartDrain
<1>5. CASE CallbackSets
  BY <1>5 DEF CallbackSets, service, control, worker, kernel, feed, Go, Local, Reset, Wait, Exits, StartDrain
<1>6. CASE shutdown
  BY <1>6 DEF shutdown, service, control, worker, kernel, feed, Go, Local, Reset, Wait, Exits, StartDrain
<1>7. CASE ShutdownSets
  BY <1>7 DEF ShutdownSets, service, control, worker, kernel, feed, Go, Local, Reset, Wait, Exits, StartDrain
<1>8. CASE Join
  BY <1>8 DEF Join, service, control, worker, kernel, feed, Go, Local, Reset, Wait, Exits, StartDrain
<1>9. CASE KernelLogs
  BY <1>9 DEF KernelLogs, service, control, worker, kernel, feed, Go, Local, Reset, Wait, Exits, StartDrain
<1>10. CASE SetupCheck
  BY <1>10 DEF SetupCheck, service, control, worker, kernel, feed, Go, Local, Reset, Wait, Exits, StartDrain
<1>11. CASE SetupReset
  BY <1>11 DEF SetupReset, service, control, worker, kernel, feed, Go, Local, Reset, Wait, Exits, StartDrain
<1>12. CASE SetupRecheck
  BY <1>12 DEF SetupRecheck, service, control, worker, kernel, feed, Go, Local, Reset, Wait, Exits, StartDrain
<1>13. CASE SetupWait
  BY <1>13 DEF SetupWait, service, control, worker, kernel, feed, Go, Local, Reset, Wait, Exits, StartDrain
<1>14. CASE SetupExit
  BY <1>14 DEF SetupExit, service, control, worker, kernel, feed, Go, Local, Reset, Wait, Exits, StartDrain
<1>15. CASE OpenFails
  BY <1>15 DEF OpenFails, service, control, worker, kernel, feed, Go, Local, Reset, Wait, Exits, StartDrain
<1>16. CASE OpenRing
  BY <1>16 DEF OpenRing, service, control, worker, kernel, feed, Go, Local, Reset, Wait, Exits, StartDrain
<1>17. CASE Arm
  BY <1>17 DEF Arm, service, control, worker, kernel, feed, Go, Local, Reset, Wait, Exits, StartDrain
<1>18. CASE Read
  BY <1>18 DEF Read, service, control, worker, kernel, feed, Go, Local, Reset, Wait, Exits, StartDrain
<1>19. CASE Feed
  BY <1>19 DEF Feed, service, control, worker, kernel, feed, Go, Local, Reset, Wait, Exits, StartDrain
<1>20. CASE LoopReset
  BY <1>20 DEF LoopReset, service, control, worker, kernel, feed, Go, Local, Reset, Wait, Exits, StartDrain
<1>21. CASE LoopExit
  BY <1>21 DEF LoopExit, service, control, worker, kernel, feed, Go, Local, Reset, Wait, Exits, StartDrain
<1>22. CASE LoopDrain
  BY <1>22 DEF LoopDrain, service, control, worker, kernel, feed, Go, Local, Reset, Wait, Exits, StartDrain
<1>23. CASE Collect
  BY <1>23 DEF Collect, service, control, worker, kernel, feed, Go, Local, Reset, Wait, Exits, StartDrain
<1>24. CASE FinalDrain
  BY <1>24 DEF FinalDrain, service, control, worker, kernel, feed, Go, Local, Reset, Wait, Exits, StartDrain
<1>25. CASE Ack
  BY <1>25 DEF Ack, service, control, worker, kernel, feed, Go, Local, Reset, Wait, Exits, StartDrain
<1>26. CASE AckNext
  BY <1>26 DEF AckNext, service, control, worker, kernel, feed, Go, Local, Reset, Wait, Exits, StartDrain
<1>27. CASE Clear
  BY <1>27 DEF Clear, service, control, worker, kernel, feed, Go, Local, Reset, Wait, Exits, StartDrain
<1>28. CASE LoopExit2
  BY <1>28 DEF LoopExit2, service, control, worker, kernel, feed, Go, Local, Reset, Wait, Exits, StartDrain
<1>29. CASE Choose
  BY <1>29 DEF Choose, service, control, worker, kernel, feed, Go, Local, Reset, Wait, Exits, StartDrain
<1>30. CASE WaitTimeout
  BY <1>30 DEF WaitTimeout, service, control, worker, kernel, feed, Go, Local, Reset, Wait, Exits, StartDrain
<1>31. CASE LoopWait
  BY <1>31 DEF LoopWait, service, control, worker, kernel, feed, Go, Local, Reset, Wait, Exits, StartDrain
<1>32. CASE DropRing
  BY <1>32 DEF DropRing, service, control, worker, kernel, feed, Go, Local, Reset, Wait, Exits, StartDrain
<1>33. CASE UNCHANGED vars
  BY <1>33 DEF vars, service, control, worker, kernel, feed, Go, Local, Reset, Wait, Exits, StartDrain
<1> QED BY <1>1, <1>2, <1>3, <1>4, <1>5, <1>6, <1>7, <1>8, <1>9, <1>10, <1>11, <1>12, <1>13, <1>14, <1>15, <1>16, <1>17, <1>18, <1>19, <1>20, <1>21, <1>22, <1>23, <1>24, <1>25, <1>26, <1>27, <1>28, <1>29, <1>30, <1>31, <1>32, <1>33
        DEF Next, Service, Recorder, Worker

(* A stop moves from pending to collected to acked and is never repeated.     *)
LEMMA StopOnceStep == ASSUME StopsInv, [Next]_vars PROVE StopOnce'
<1> USE HostAssumption, OrderFacts DEF StopsInv, TypeOK, StopOnce, AckUnderWay, Places, Steps
<1>1. ASSUME NEW c \in Hosted, on_setup(c) PROVE StopOnce'
  BY <1>1 DEF on_setup, service, control, worker, kernel, feed, Go, Local, Reset, Wait, Exits, StartDrain
<1>2. ASSUME NEW c \in Hosted, on_start(c) PROVE StopOnce'
  BY <1>2 DEF on_start, service, control, worker, kernel, feed, Go, Local, Reset, Wait, Exits, StartDrain
<1>3. ASSUME NEW c \in Hosted, on_flush(c) PROVE StopOnce'
  BY <1>3 DEF on_flush, service, control, worker, kernel, feed, Go, Local, Reset, Wait, Exits, StartDrain
<1>4. ASSUME NEW c \in Hosted, on_stop(c) PROVE StopOnce'
  BY <1>4 DEF on_stop, service, control, worker, kernel, feed, Go, Local, Reset, Wait, Exits, StartDrain
<1>5. CASE CallbackSets
  BY <1>5 DEF CallbackSets, service, control, worker, kernel, feed, Go, Local, Reset, Wait, Exits, StartDrain
<1>6. CASE shutdown
  BY <1>6 DEF shutdown, service, control, worker, kernel, feed, Go, Local, Reset, Wait, Exits, StartDrain
<1>7. CASE ShutdownSets
  BY <1>7 DEF ShutdownSets, service, control, worker, kernel, feed, Go, Local, Reset, Wait, Exits, StartDrain
<1>8. CASE Join
  BY <1>8 DEF Join, service, control, worker, kernel, feed, Go, Local, Reset, Wait, Exits, StartDrain
<1>9. CASE KernelLogs
  BY <1>9 DEF KernelLogs, service, control, worker, kernel, feed, Go, Local, Reset, Wait, Exits, StartDrain
<1>10. CASE SetupCheck
  BY <1>10 DEF SetupCheck, service, control, worker, kernel, feed, Go, Local, Reset, Wait, Exits, StartDrain
<1>11. CASE SetupReset
  BY <1>11 DEF SetupReset, service, control, worker, kernel, feed, Go, Local, Reset, Wait, Exits, StartDrain
<1>12. CASE SetupRecheck
  BY <1>12 DEF SetupRecheck, service, control, worker, kernel, feed, Go, Local, Reset, Wait, Exits, StartDrain
<1>13. CASE SetupWait
  BY <1>13 DEF SetupWait, service, control, worker, kernel, feed, Go, Local, Reset, Wait, Exits, StartDrain
<1>14. CASE SetupExit
  BY <1>14 DEF SetupExit, service, control, worker, kernel, feed, Go, Local, Reset, Wait, Exits, StartDrain
<1>15. CASE OpenFails
  BY <1>15 DEF OpenFails, service, control, worker, kernel, feed, Go, Local, Reset, Wait, Exits, StartDrain
<1>16. CASE OpenRing
  BY <1>16 DEF OpenRing, service, control, worker, kernel, feed, Go, Local, Reset, Wait, Exits, StartDrain
<1>17. CASE Arm
  BY <1>17 DEF Arm, service, control, worker, kernel, feed, Go, Local, Reset, Wait, Exits, StartDrain
<1>18. CASE Read
  BY <1>18 DEF Read, service, control, worker, kernel, feed, Go, Local, Reset, Wait, Exits, StartDrain
<1>19. CASE Feed
  BY <1>19 DEF Feed, service, control, worker, kernel, feed, Go, Local, Reset, Wait, Exits, StartDrain
<1>20. CASE LoopReset
  BY <1>20 DEF LoopReset, service, control, worker, kernel, feed, Go, Local, Reset, Wait, Exits, StartDrain
<1>21. CASE LoopExit
  BY <1>21 DEF LoopExit, service, control, worker, kernel, feed, Go, Local, Reset, Wait, Exits, StartDrain
<1>22. CASE LoopDrain
  BY <1>22 DEF LoopDrain, service, control, worker, kernel, feed, Go, Local, Reset, Wait, Exits, StartDrain
<1>23. CASE Collect
  BY <1>23 DEF Collect, service, control, worker, kernel, feed, Go, Local, Reset, Wait, Exits, StartDrain
<1>24. CASE FinalDrain
  BY <1>24 DEF FinalDrain, service, control, worker, kernel, feed, Go, Local, Reset, Wait, Exits, StartDrain
<1>25. CASE Ack
  BY <1>25 DEF Ack, service, control, worker, kernel, feed, Go, Local, Reset, Wait, Exits, StartDrain
<1>26. CASE AckNext
  BY <1>26 DEF AckNext, service, control, worker, kernel, feed, Go, Local, Reset, Wait, Exits, StartDrain
<1>27. CASE Clear
  BY <1>27 DEF Clear, service, control, worker, kernel, feed, Go, Local, Reset, Wait, Exits, StartDrain
<1>28. CASE LoopExit2
  BY <1>28 DEF LoopExit2, service, control, worker, kernel, feed, Go, Local, Reset, Wait, Exits, StartDrain
<1>29. CASE Choose
  BY <1>29 DEF Choose, service, control, worker, kernel, feed, Go, Local, Reset, Wait, Exits, StartDrain
<1>30. CASE WaitTimeout
  BY <1>30 DEF WaitTimeout, service, control, worker, kernel, feed, Go, Local, Reset, Wait, Exits, StartDrain
<1>31. CASE LoopWait
  BY <1>31 DEF LoopWait, service, control, worker, kernel, feed, Go, Local, Reset, Wait, Exits, StartDrain
<1>32. CASE DropRing
  BY <1>32 DEF DropRing, service, control, worker, kernel, feed, Go, Local, Reset, Wait, Exits, StartDrain
<1>33. CASE UNCHANGED vars
  BY <1>33 DEF vars, service, control, worker, kernel, feed, Go, Local, Reset, Wait, Exits, StartDrain
<1> QED BY <1>1, <1>2, <1>3, <1>4, <1>5, <1>6, <1>7, <1>8, <1>9, <1>10, <1>11, <1>12, <1>13, <1>14, <1>15, <1>16, <1>17, <1>18, <1>19, <1>20, <1>21, <1>22, <1>23, <1>24, <1>25, <1>26, <1>27, <1>28, <1>29, <1>30, <1>31, <1>32, <1>33
        DEF Next, Service, Recorder, Worker

(* A loop leaves its counter at the first consumer.                           *)
LEMMA LoopsStep == ASSUME StopsInv, [Next]_vars PROVE LoopsBegin'
<1> USE HostAssumption, OrderFacts DEF StopsInv, TypeOK, LoopsBegin, Steps
<1>1. ASSUME NEW c \in Hosted, on_setup(c) PROVE LoopsBegin'
  BY <1>1 DEF on_setup, service, control, worker, kernel, feed, Go, Local, Reset, Wait, Exits, StartDrain
<1>2. ASSUME NEW c \in Hosted, on_start(c) PROVE LoopsBegin'
  BY <1>2 DEF on_start, service, control, worker, kernel, feed, Go, Local, Reset, Wait, Exits, StartDrain
<1>3. ASSUME NEW c \in Hosted, on_flush(c) PROVE LoopsBegin'
  BY <1>3 DEF on_flush, service, control, worker, kernel, feed, Go, Local, Reset, Wait, Exits, StartDrain
<1>4. ASSUME NEW c \in Hosted, on_stop(c) PROVE LoopsBegin'
  BY <1>4 DEF on_stop, service, control, worker, kernel, feed, Go, Local, Reset, Wait, Exits, StartDrain
<1>5. CASE CallbackSets
  BY <1>5 DEF CallbackSets, service, control, worker, kernel, feed, Go, Local, Reset, Wait, Exits, StartDrain
<1>6. CASE shutdown
  BY <1>6 DEF shutdown, service, control, worker, kernel, feed, Go, Local, Reset, Wait, Exits, StartDrain
<1>7. CASE ShutdownSets
  BY <1>7 DEF ShutdownSets, service, control, worker, kernel, feed, Go, Local, Reset, Wait, Exits, StartDrain
<1>8. CASE Join
  BY <1>8 DEF Join, service, control, worker, kernel, feed, Go, Local, Reset, Wait, Exits, StartDrain
<1>9. CASE KernelLogs
  BY <1>9 DEF KernelLogs, service, control, worker, kernel, feed, Go, Local, Reset, Wait, Exits, StartDrain
<1>10. CASE SetupCheck
  BY <1>10 DEF SetupCheck, service, control, worker, kernel, feed, Go, Local, Reset, Wait, Exits, StartDrain
<1>11. CASE SetupReset
  BY <1>11 DEF SetupReset, service, control, worker, kernel, feed, Go, Local, Reset, Wait, Exits, StartDrain
<1>12. CASE SetupRecheck
  BY <1>12 DEF SetupRecheck, service, control, worker, kernel, feed, Go, Local, Reset, Wait, Exits, StartDrain
<1>13. CASE SetupWait
  BY <1>13 DEF SetupWait, service, control, worker, kernel, feed, Go, Local, Reset, Wait, Exits, StartDrain
<1>14. CASE SetupExit
  BY <1>14 DEF SetupExit, service, control, worker, kernel, feed, Go, Local, Reset, Wait, Exits, StartDrain
<1>15. CASE OpenFails
  BY <1>15 DEF OpenFails, service, control, worker, kernel, feed, Go, Local, Reset, Wait, Exits, StartDrain
<1>16. CASE OpenRing
  BY <1>16 DEF OpenRing, service, control, worker, kernel, feed, Go, Local, Reset, Wait, Exits, StartDrain
<1>17. CASE Arm
  BY <1>17 DEF Arm, service, control, worker, kernel, feed, Go, Local, Reset, Wait, Exits, StartDrain
<1>18. CASE Read
  BY <1>18 DEF Read, service, control, worker, kernel, feed, Go, Local, Reset, Wait, Exits, StartDrain
<1>19. CASE Feed
  BY <1>19 DEF Feed, service, control, worker, kernel, feed, Go, Local, Reset, Wait, Exits, StartDrain
<1>20. CASE LoopReset
  BY <1>20 DEF LoopReset, service, control, worker, kernel, feed, Go, Local, Reset, Wait, Exits, StartDrain
<1>21. CASE LoopExit
  BY <1>21 DEF LoopExit, service, control, worker, kernel, feed, Go, Local, Reset, Wait, Exits, StartDrain
<1>22. CASE LoopDrain
  BY <1>22 DEF LoopDrain, service, control, worker, kernel, feed, Go, Local, Reset, Wait, Exits, StartDrain
<1>23. CASE Collect
  BY <1>23 DEF Collect, service, control, worker, kernel, feed, Go, Local, Reset, Wait, Exits, StartDrain
<1>24. CASE FinalDrain
  BY <1>24 DEF FinalDrain, service, control, worker, kernel, feed, Go, Local, Reset, Wait, Exits, StartDrain
<1>25. CASE Ack
  BY <1>25 DEF Ack, service, control, worker, kernel, feed, Go, Local, Reset, Wait, Exits, StartDrain
<1>26. CASE AckNext
  BY <1>26 DEF AckNext, service, control, worker, kernel, feed, Go, Local, Reset, Wait, Exits, StartDrain
<1>27. CASE Clear
  BY <1>27 DEF Clear, service, control, worker, kernel, feed, Go, Local, Reset, Wait, Exits, StartDrain
<1>28. CASE LoopExit2
  BY <1>28 DEF LoopExit2, service, control, worker, kernel, feed, Go, Local, Reset, Wait, Exits, StartDrain
<1>29. CASE Choose
  BY <1>29 DEF Choose, service, control, worker, kernel, feed, Go, Local, Reset, Wait, Exits, StartDrain
<1>30. CASE WaitTimeout
  BY <1>30 DEF WaitTimeout, service, control, worker, kernel, feed, Go, Local, Reset, Wait, Exits, StartDrain
<1>31. CASE LoopWait
  BY <1>31 DEF LoopWait, service, control, worker, kernel, feed, Go, Local, Reset, Wait, Exits, StartDrain
<1>32. CASE DropRing
  BY <1>32 DEF DropRing, service, control, worker, kernel, feed, Go, Local, Reset, Wait, Exits, StartDrain
<1>33. CASE UNCHANGED vars
  BY <1>33 DEF vars, service, control, worker, kernel, feed, Go, Local, Reset, Wait, Exits, StartDrain
<1> QED BY <1>1, <1>2, <1>3, <1>4, <1>5, <1>6, <1>7, <1>8, <1>9, <1>10, <1>11, <1>12, <1>13, <1>14, <1>15, <1>16, <1>17, <1>18, <1>19, <1>20, <1>21, <1>22, <1>23, <1>24, <1>25, <1>26, <1>27, <1>28, <1>29, <1>30, <1>31, <1>32, <1>33
        DEF Next, Service, Recorder, Worker

(* on_setup counts each data source once.                                     *)
LEMMA SetupsStep == ASSUME StopsInv, [Next]_vars PROVE SetupsCounted'
<1> USE DEF StopsInv, SetupsCounted
<1>1. ASSUME NEW c \in Hosted, on_setup(c) PROVE SetupsCounted'
  <2>1. SetUp' = SetUp \cup {c} /\ c \notin SetUp
    BY <1>1 DEF on_setup, SetUp, TypeOK
  <2>2. IsFiniteSet(SetUp)
    BY EnabledFinite, FS_Subset DEF SetUp
  <2>3. Cardinality(SetUp \cup {c}) = Cardinality(SetUp) + 1
    BY <2>1, <2>2, FS_AddElement
  <2> QED BY <2>1, <2>3, <1>1 DEF on_setup
<1>2. ASSUME NEW c \in Hosted, on_start(c) \/ on_stop(c) PROVE SetupsCounted'
  <2>1. SetUp' = SetUp
    BY <1>2, HostAssumption, ZenonT(60) DEF on_start, on_stop, SetUp, TypeOK
  <2> QED BY <2>1, <1>2 DEF on_start, on_stop
<1>3. CASE phase' = phase /\ setups_received' = setups_received
  BY <1>3 DEF SetUp
<1>4. ASSUME NEW c \in Hosted, on_flush(c) PROVE phase' = phase /\ setups_received' = setups_received
  BY <1>4 DEF on_flush, control
<1>5. CallbackSets \/ Recorder \/ KernelLogs => phase' = phase /\ setups_received' = setups_received
  BY DEF CallbackSets, Recorder, shutdown, ShutdownSets, Join, KernelLogs, service, control
<1>6. Worker => phase' = phase /\ setups_received' = setups_received
  BY DEF Worker, SetupCheck, SetupReset, SetupRecheck, SetupWait, SetupExit, OpenFails, OpenRing,
       Arm, Read, Feed, LoopReset, LoopExit, LoopDrain, Collect, FinalDrain, Ack, AckNext, Clear,
       LoopExit2, Choose, WaitTimeout, LoopWait, DropRing, Reset, Wait, Exits, StartDrain, Local,
       service, control
<1>7. UNCHANGED vars => phase' = phase /\ setups_received' = setups_received
  BY DEF vars, service, control
<1> QED BY <1>1, <1>2, <1>3, <1>4, <1>5, <1>6, <1>7 DEF Next, Service

(* Every variable keeps its type.                                            *)
LEMMA TypesStep == ASSUME StopsInv, [Next]_vars PROVE TypeOK'
<1> USE HostAssumption, OrderFacts DEF StopsInv, TypeOK, Steps, StopOnce, Places, RingBounded
<1>1. ASSUME NEW c \in Hosted, on_setup(c) PROVE TypeOK'
  <2>1. SetUp' \subseteq Enabled
    BY DEF SetUp
  <2>2. Cardinality(SetUp') \in 0..Cardinality(Enabled)
    BY <2>1, PartCount
  <2>3. setups_received' \in 0..Cardinality(Enabled)
    BY SetupsStep, <2>2 DEF SetupsCounted
  <2> QED BY <2>3, <1>1 DEF on_setup, service, control, worker, kernel, feed, Go, Local, Reset, Wait, Exits, StartDrain
<1>2. ASSUME NEW c \in Hosted, on_start(c) PROVE TypeOK'
  BY <1>2 DEF on_start, service, control, worker, kernel, feed, Go, Local, Reset, Wait, Exits, StartDrain
<1>3. ASSUME NEW c \in Hosted, on_flush(c) PROVE TypeOK'
  BY <1>3 DEF on_flush, service, control, worker, kernel, feed, Go, Local, Reset, Wait, Exits, StartDrain
<1>4. ASSUME NEW c \in Hosted, on_stop(c) PROVE TypeOK'
  BY <1>4 DEF on_stop, service, control, worker, kernel, feed, Go, Local, Reset, Wait, Exits, StartDrain
<1>5. CASE CallbackSets
  BY <1>5 DEF CallbackSets, service, control, worker, kernel, feed, Go, Local, Reset, Wait, Exits, StartDrain
<1>6. CASE shutdown
  BY <1>6 DEF shutdown, service, control, worker, kernel, feed, Go, Local, Reset, Wait, Exits, StartDrain
<1>7. CASE ShutdownSets
  BY <1>7 DEF ShutdownSets, service, control, worker, kernel, feed, Go, Local, Reset, Wait, Exits, StartDrain
<1>8. CASE Join
  BY <1>8 DEF Join, service, control, worker, kernel, feed, Go, Local, Reset, Wait, Exits, StartDrain
<1>9. CASE KernelLogs
  BY <1>9 DEF KernelLogs, service, control, worker, kernel, feed, Go, Local, Reset, Wait, Exits, StartDrain
<1>10. CASE SetupCheck
  BY <1>10 DEF SetupCheck, service, control, worker, kernel, feed, Go, Local, Reset, Wait, Exits, StartDrain
<1>11. CASE SetupReset
  BY <1>11 DEF SetupReset, service, control, worker, kernel, feed, Go, Local, Reset, Wait, Exits, StartDrain
<1>12. CASE SetupRecheck
  BY <1>12 DEF SetupRecheck, service, control, worker, kernel, feed, Go, Local, Reset, Wait, Exits, StartDrain
<1>13. CASE SetupWait
  BY <1>13 DEF SetupWait, service, control, worker, kernel, feed, Go, Local, Reset, Wait, Exits, StartDrain
<1>14. CASE SetupExit
  BY <1>14 DEF SetupExit, service, control, worker, kernel, feed, Go, Local, Reset, Wait, Exits, StartDrain
<1>15. CASE OpenFails
  BY <1>15 DEF OpenFails, service, control, worker, kernel, feed, Go, Local, Reset, Wait, Exits, StartDrain
<1>16. CASE OpenRing
  BY <1>16 DEF OpenRing, service, control, worker, kernel, feed, Go, Local, Reset, Wait, Exits, StartDrain
<1>17. CASE Arm
  BY <1>17 DEF Arm, service, control, worker, kernel, feed, Go, Local, Reset, Wait, Exits, StartDrain
<1>18. CASE Read
  <2>1. drained' \in drained..produced
    BY <1>18 DEF Read, Go
  <2>2. fed \in [Hosted -> 0..drained']
    BY <2>1
  <2>3. drained' \in 0..produced
    BY <2>1
  <2>4. read_failed' \in BOOLEAN
    BY <1>18, Zenon DEF Read
  <2> QED BY <2>2, <2>3, <2>4, <1>18 DEF Read, service, control, worker, kernel, feed, Go, Local, Reset, Wait, Exits, StartDrain
<1>19. CASE Feed
  BY <1>19 DEF Feed, service, control, worker, kernel, feed, Go, Local, Reset, Wait, Exits, StartDrain
<1>20. CASE LoopReset
  BY <1>20 DEF LoopReset, service, control, worker, kernel, feed, Go, Local, Reset, Wait, Exits, StartDrain
<1>21. CASE LoopExit
  BY <1>21 DEF LoopExit, service, control, worker, kernel, feed, Go, Local, Reset, Wait, Exits, StartDrain
<1>22. CASE LoopDrain
  <2>1. CASE StartDrain("poll", "collect")
    BY <2>1 DEF service, control, worker, kernel, feed, Go, Local, Reset, Wait, Exits, StartDrain
  <2>2. CASE Go("poll", "collect") /\ UNCHANGED signaled /\ Local
    BY <2>2 DEF service, control, worker, kernel, feed, Go, Local, Reset, Wait, Exits, StartDrain
  <2> QED BY <2>1, <2>2, <1>22 DEF LoopDrain
<1>23. CASE Collect
  <2>1. taken' \subseteq Hosted
    BY <1>23, ZenonT(60) DEF Collect
  <2>2. pending_stopper' \in [Hosted -> BOOLEAN]
    BY <1>23 DEF Collect
  <2>3. k' \in DOMAIN Order /\ wpc' \in Steps
    BY <1>23 DEF Collect
  <2> QED BY <2>1, <2>2, <2>3, <1>23 DEF Collect, service, control, worker, kernel, feed, Go, Local, Reset, Wait, Exits, StartDrain
<1>24. CASE FinalDrain
  BY <1>24 DEF FinalDrain, service, control, worker, kernel, feed, Go, Local, Reset, Wait, Exits, StartDrain
<1>25. CASE Ack
  BY <1>25 DEF Ack, service, control, worker, kernel, feed, Go, Local, Reset, Wait, Exits, StartDrain
<1>26. CASE AckNext
  BY <1>26 DEF AckNext, service, control, worker, kernel, feed, Go, Local, Reset, Wait, Exits, StartDrain
<1>27. CASE Clear
  BY <1>27 DEF Clear, service, control, worker, kernel, feed, Go, Local, Reset, Wait, Exits, StartDrain
<1>28. CASE LoopExit2
  BY <1>28 DEF LoopExit2, service, control, worker, kernel, feed, Go, Local, Reset, Wait, Exits, StartDrain
<1>29. CASE Choose
  BY <1>29 DEF Choose, service, control, worker, kernel, feed, Go, Local, Reset, Wait, Exits, StartDrain
<1>30. CASE WaitTimeout
  BY <1>30 DEF WaitTimeout, service, control, worker, kernel, feed, Go, Local, Reset, Wait, Exits, StartDrain
<1>31. CASE LoopWait
  BY <1>31 DEF LoopWait, service, control, worker, kernel, feed, Go, Local, Reset, Wait, Exits, StartDrain
<1>32. CASE DropRing
  BY <1>32 DEF DropRing, service, control, worker, kernel, feed, Go, Local, Reset, Wait, Exits, StartDrain
<1>33. CASE UNCHANGED vars
  BY <1>33 DEF vars, service, control, worker, kernel, feed, Go, Local, Reset, Wait, Exits, StartDrain
<1> QED BY <1>1, <1>2, <1>3, <1>4, <1>5, <1>6, <1>7, <1>8, <1>9, <1>10, <1>11, <1>12, <1>13, <1>14, <1>15, <1>16, <1>17, <1>18, <1>19, <1>20, <1>21, <1>22, <1>23, <1>24, <1>25, <1>26, <1>27, <1>28, <1>29, <1>30, <1>31, <1>32, <1>33
        DEF Next, Service, Recorder, Worker

(* The final drain reads the whole ring and hands it to every consumer whose
   stop was collected before any of them is acked; later feeds only add.      *)
LEMMA FeedStep == ASSUME kernel_buffer_events <= DRAIN_CAPACITY, StopsInv, FeedInv, [Next]_vars PROVE FeedInv'
<1> USE HostAssumption, OrderFacts DEF StopsInv, FeedInv, TypeOK, Steps, StopOnce, AckUnderWay, LoopsBegin, Places, RingBounded, DrainCovers, Covered, FinalDrainFed, NoneYet, Before
<1>1. ASSUME NEW c \in Hosted, on_setup(c) PROVE FeedInv'
  BY <1>1 DEF on_setup, service, control, worker, kernel, feed, Go, Local, Reset, Wait, Exits, StartDrain
<1>2. ASSUME NEW c \in Hosted, on_start(c) PROVE FeedInv'
  BY <1>2 DEF on_start, service, control, worker, kernel, feed, Go, Local, Reset, Wait, Exits, StartDrain
<1>3. ASSUME NEW c \in Hosted, on_flush(c) PROVE FeedInv'
  BY <1>3 DEF on_flush, service, control, worker, kernel, feed, Go, Local, Reset, Wait, Exits, StartDrain
<1>4. ASSUME NEW c \in Hosted, on_stop(c) PROVE FeedInv'
  BY <1>4 DEF on_stop, service, control, worker, kernel, feed, Go, Local, Reset, Wait, Exits, StartDrain
<1>5. CASE CallbackSets
  BY <1>5 DEF CallbackSets, service, control, worker, kernel, feed, Go, Local, Reset, Wait, Exits, StartDrain
<1>6. CASE shutdown
  BY <1>6 DEF shutdown, service, control, worker, kernel, feed, Go, Local, Reset, Wait, Exits, StartDrain
<1>7. CASE ShutdownSets
  BY <1>7 DEF ShutdownSets, service, control, worker, kernel, feed, Go, Local, Reset, Wait, Exits, StartDrain
<1>8. CASE Join
  BY <1>8 DEF Join, service, control, worker, kernel, feed, Go, Local, Reset, Wait, Exits, StartDrain
<1>9. CASE KernelLogs
  BY <1>9 DEF KernelLogs, service, control, worker, kernel, feed, Go, Local, Reset, Wait, Exits, StartDrain
<1>10. CASE SetupCheck
  BY <1>10 DEF SetupCheck, service, control, worker, kernel, feed, Go, Local, Reset, Wait, Exits, StartDrain
<1>11. CASE SetupReset
  BY <1>11 DEF SetupReset, service, control, worker, kernel, feed, Go, Local, Reset, Wait, Exits, StartDrain
<1>12. CASE SetupRecheck
  BY <1>12 DEF SetupRecheck, service, control, worker, kernel, feed, Go, Local, Reset, Wait, Exits, StartDrain
<1>13. CASE SetupWait
  BY <1>13 DEF SetupWait, service, control, worker, kernel, feed, Go, Local, Reset, Wait, Exits, StartDrain
<1>14. CASE SetupExit
  BY <1>14 DEF SetupExit, service, control, worker, kernel, feed, Go, Local, Reset, Wait, Exits, StartDrain
<1>15. CASE OpenFails
  BY <1>15 DEF OpenFails, service, control, worker, kernel, feed, Go, Local, Reset, Wait, Exits, StartDrain
<1>16. CASE OpenRing
  BY <1>16 DEF OpenRing, service, control, worker, kernel, feed, Go, Local, Reset, Wait, Exits, StartDrain
<1>17. CASE Arm
  BY <1>17 DEF Arm, service, control, worker, kernel, feed, Go, Local, Reset, Wait, Exits, StartDrain
<1>18. CASE Read
  <2>1. ~read_failed' => drained' = produced
    BY <1>18 DEF Read, Go
  <2>2. \A c \in Hosted : produced >= mark[c]
    OBVIOUS
  <2>3. \A c \in taken : drained' >= mark[c] \/ read_failed'
    BY <2>1, <2>2
  <2>4. FinalDrainFed'
    BY <1>18 DEF Read, service, control, worker, kernel, feed, Go, Local, Reset, Wait, Exits, StartDrain
  <2> QED BY <2>3, <2>4, <1>18 DEF Read, service, control, worker, kernel, feed, Go, Local, Reset, Wait, Exits, StartDrain
<1>19. CASE Feed
  BY <1>19 DEF Feed, service, control, worker, kernel, feed, Go, Local, Reset, Wait, Exits, StartDrain
<1>20. CASE LoopReset
  BY <1>20 DEF LoopReset, service, control, worker, kernel, feed, Go, Local, Reset, Wait, Exits, StartDrain
<1>21. CASE LoopExit
  BY <1>21 DEF LoopExit, service, control, worker, kernel, feed, Go, Local, Reset, Wait, Exits, StartDrain
<1>22. CASE LoopDrain
  BY <1>22 DEF LoopDrain, service, control, worker, kernel, feed, Go, Local, Reset, Wait, Exits, StartDrain
<1>23. CASE Collect
  BY <1>23 DEF Collect, service, control, worker, kernel, feed, Go, Local, Reset, Wait, Exits, StartDrain
<1>24. CASE FinalDrain
  BY <1>24 DEF FinalDrain, service, control, worker, kernel, feed, Go, Local, Reset, Wait, Exits, StartDrain
<1>25. CASE Ack
  BY <1>25 DEF Ack, service, control, worker, kernel, feed, Go, Local, Reset, Wait, Exits, StartDrain
<1>26. CASE AckNext
  BY <1>26 DEF AckNext, service, control, worker, kernel, feed, Go, Local, Reset, Wait, Exits, StartDrain
<1>27. CASE Clear
  BY <1>27 DEF Clear, service, control, worker, kernel, feed, Go, Local, Reset, Wait, Exits, StartDrain
<1>28. CASE LoopExit2
  BY <1>28 DEF LoopExit2, service, control, worker, kernel, feed, Go, Local, Reset, Wait, Exits, StartDrain
<1>29. CASE Choose
  BY <1>29 DEF Choose, service, control, worker, kernel, feed, Go, Local, Reset, Wait, Exits, StartDrain
<1>30. CASE WaitTimeout
  BY <1>30 DEF WaitTimeout, service, control, worker, kernel, feed, Go, Local, Reset, Wait, Exits, StartDrain
<1>31. CASE LoopWait
  BY <1>31 DEF LoopWait, service, control, worker, kernel, feed, Go, Local, Reset, Wait, Exits, StartDrain
<1>32. CASE DropRing
  BY <1>32 DEF DropRing, service, control, worker, kernel, feed, Go, Local, Reset, Wait, Exits, StartDrain
<1>33. CASE UNCHANGED vars
  BY <1>33 DEF vars, service, control, worker, kernel, feed, Go, Local, Reset, Wait, Exits, StartDrain
<1> QED BY <1>1, <1>2, <1>3, <1>4, <1>5, <1>6, <1>7, <1>8, <1>9, <1>10, <1>11, <1>12, <1>13, <1>14, <1>15, <1>16, <1>17, <1>18, <1>19, <1>20, <1>21, <1>22, <1>23, <1>24, <1>25, <1>26, <1>27, <1>28, <1>29, <1>30, <1>31, <1>32, <1>33
        DEF Next, Service, Recorder, Worker


(* The invariant holds at the start.                                          *)
LEMMA InitHolds == Init => StopsInv /\ FeedInv
<1> SUFFICES ASSUME Init PROVE StopsInv /\ FeedInv
  OBVIOUS
<1> USE HostAssumption, OrderFacts DEF Init
<1>1. SetUp = {}
  BY DEF SetUp
<1>2. SetupsCounted
  BY <1>1, FS_EmptySet DEF SetupsCounted
<1>3. Cardinality(Enabled) \in Nat
  BY EnabledFinite, FS_CardinalityType
<1>4. TypeOK
  <2>1. /\ phase \in [Hosted -> {"registered", "setup", "started", "stopping"}]
        /\ running \in [Hosted -> BOOLEAN] /\ pending_stopper \in [Hosted -> BOOLEAN]
        /\ signaled \in BOOLEAN /\ exit_requested \in BOOLEAN
        /\ opened \in BOOLEAN /\ read_failed \in BOOLEAN /\ armed \in BOOLEAN
    OBVIOUS
  <2>2. /\ produced \in 0..MaxEvents /\ drained \in 0..produced
        /\ fed \in [Hosted -> 0..drained] /\ mark \in [Hosted -> 0..produced]
        /\ flush_acks \in 0..MaxFlushes /\ stop_acks \in [Hosted -> 0..1]
        /\ setups_received \in 0..Cardinality(Enabled)
    BY <1>3
  <2>3. /\ wpc \in Steps /\ k \in DOMAIN Order /\ ret \in {"collect", "ack"}
        /\ taken \subseteq Hosted /\ live \subseteq Hosted
        /\ cb \in {"none", "set"} /\ shut \in {"no", "set", "join", "joined"}
    BY DEF Steps
  <2> QED BY <2>1, <2>2, <2>3 DEF TypeOK
<1>5. ExitHeard /\ StopsHeard /\ StopOnce /\ AckUnderWay /\ LoopsBegin /\ Owned /\ NoneYet /\ RingBounded
  BY DEF ExitHeard, StopsHeard, StopOnce, AckUnderWay, LoopsBegin, Owned, NoneYet, RingBounded,
         Settled, Draining, LookedAt
<1>6. FeedInv
  BY DEF FeedInv, DrainCovers, FinalDrainFed
<1> QED BY <1>2, <1>4, <1>5, <1>6 DEF StopsInv

(* One step of any thread keeps the part of the invariant about stops.        *)
LEMMA StopsStep == ASSUME StopsInv, [Next]_vars PROVE StopsInv'
BY TypesStep, ExitHeardStep, StopsHeardStep, StopOnceStep, AckStep, LoopsStep, OwnedStep,
   NoneYetStep, SetupsStep, BoundStep DEF StopsInv

------------------------------------------------------------------------------
(* What the host promises.                                                   *)

(* Whatever the threads do and however small the worker's batch is, a stop    *)
(* is asked for, collected and acked once, the worker never sleeps over one   *)
(* (NoLostWakeup) and the ring and kperf are free after shutdown.             *)
THEOREM StopsHeld == Spec => [](StopsInv /\ NoLostWakeup /\ SingletonsReleased)
<1>1. Init => StopsInv
  BY InitHolds
<1>2. StopsInv /\ [Next]_vars => StopsInv'
  BY StopsStep
<1>3. StopsInv => NoLostWakeup
  <2> SUFFICES ASSUME StopsInv, wpc = "wait",
                      exit_requested \/ \E c \in Hosted : pending_stopper[c]
               PROVE Awake
    BY DEF NoLostWakeup, Awake
  <2>1. CASE exit_requested
    BY <2>1 DEF StopsInv, ExitHeard, Settled
  <2>2. ASSUME NEW c \in Hosted, pending_stopper[c] PROVE Awake
    BY <2>2, Placed DEF StopsInv, StopsHeard, LookedAt, Settled
  <2> QED BY <2>1, <2>2
<1>4. StopsInv => SingletonsReleased
  BY DEF StopsInv, Owned, SingletonsReleased
<1> QED BY <1>1, <1>2, <1>3, <1>4, PTL DEF Spec

(* When one drain can read the whole kernel ring, as with the default sizes,  *)
(* a stop is acked only after its consumer was handed every event logged      *)
(* before the stop that the ring still held: HostSafe, for every number of    *)
(* events, flushes, hosted and enabled data sources.                          *)
THEOREM HostSafeHolds ==
  ASSUME kernel_buffer_events <= DRAIN_CAPACITY PROVE Spec => []HostSafe
<1>1. Init => FeedInv /\ StopsInv
  BY InitHolds
<1>2. StopsInv /\ FeedInv /\ [Next]_vars => FeedInv'
  BY FeedStep
<1>3. StopsInv /\ [Next]_vars => StopsInv'
  BY StopsStep
<1>4. StopsInv /\ NoLostWakeup /\ SingletonsReleased /\ FeedInv => HostSafe
  BY DEF StopsInv, FeedInv, HostSafe
<1> QED BY <1>1, <1>2, <1>3, <1>4, StopsHeld, PTL DEF Spec

=============================================================================
