----------------------------- MODULE HeapQueue -----------------------------
(***************************************************************************)
(* What the shared-memory heap ring promises its two users: a queue in     *)
(* which a slot is reserved in one step and published in a later one, by   *)
(* any number of producers, and from which one consumer takes records in   *)
(* reservation order, each once, whole, and only after it was published.   *)
(* A reserved head that is not yet published holds back everything behind  *)
(* it.  Memory, cursors and the spinlock are left to HeapRing.             *)
(***************************************************************************)
EXTENDS Naturals, Sequences

CONSTANT PayloadSizes           \* payload lengths, in bytes, a producer asks for

VARIABLES
    log,        \* every reservation ever made: [len, pub], in order
    out         \* every record the consumer took: [len, val], in order

qvars == <<log, out>>

Init ==
    /\ log = << >>
    /\ out = << >>

\* A producer obtains the next slot.
Reserve(n) ==
    /\ log' = Append(log, [len |-> n, pub |-> FALSE])
    /\ UNCHANGED out

\* The producer that holds slot i makes it visible.
Publish(i) ==
    /\ ~log[i].pub
    /\ log' = [log EXCEPT ![i].pub = TRUE]
    /\ UNCHANGED out

\* The consumer takes the oldest record; record i's payload is {i}.
Take ==
    /\ Len(out) < Len(log)
    /\ log[Len(out) + 1].pub
    /\ out' = Append(out, [len |-> log[Len(out) + 1].len, val |-> {Len(out) + 1}])
    /\ UNCHANGED log

Next ==
    \/ \E n \in PayloadSizes : Reserve(n)
    \/ \E i \in 1..Len(log) : Publish(i)
    \/ Take

Safety == Init /\ [][Next]_qvars

\* A consumer that keeps draining never leaves a published head behind.
Spec == Safety /\ WF_qvars(Take)
=============================================================================
