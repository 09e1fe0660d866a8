------------------------------ MODULE LaneQueue ------------------------------
(***************************************************************************)
(* What the queue of one lane promises, and what CommandLanes takes for    *)
(* granted: a set of entries out of which the one of highest priority      *)
(* comes first, and the oldest among those.                                *)
(***************************************************************************)
EXTENDS Integers, FiniteSets

CONSTANTS Priority,   \* the priorities, highest first when compared with >
          MaxEntries  \* bound: entries enqueued in one behaviour

VARIABLES queued,  \* the entries, each its sequence number and priority
          next,    \* nextQueueSequence
          reply    \* what the last call returned

Nothing == 0

Before(e, f) == e.prio > f.prio \/ (e.prio = f.prio /\ e.seq < f.seq)

Init == queued = {} /\ next = 1 /\ reply = Nothing

\* An entry learns how many others it will wait for.
Enqueue(p) ==
    LET e == [seq |-> next, prio |-> p]
    IN  /\ next <= MaxEntries
        /\ queued' = queued \cup {e}
        /\ next' = next + 1
        /\ reply' = Cardinality({f \in queued : Before(f, e)})

Dequeue ==
    \E e \in queued :
        /\ \A f \in queued \ {e} : Before(e, f)
        /\ queued' = queued \ {e} /\ reply' = e.seq
        /\ UNCHANGED next

DequeueNothing == queued = {} /\ reply' = Nothing /\ UNCHANGED <<queued, next>>

Next == (\E p \in Priority : Enqueue(p)) \/ Dequeue \/ DequeueNothing

Spec == Init /\ [][Next]_<<queued, next, reply>>
=============================================================================
