------------------------------- MODULE LaneRing -------------------------------
(***************************************************************************)
(* The queue of one lane as command-queue.state.ts builds it: three        *)
(* circular buffers, one for each priority, that double when they are full *)
(* and give their memory back when they are empty.                         *)
(*                                                                         *)
(* An entry is its sequence number; Nothing is an unused slot.             *)
(***************************************************************************)
EXTENDS Integers

CONSTANTS InitialCapacity,  \* INITIAL_QUEUE_RING_CAPACITY
          MaxEntries        \* bound: entries enqueued in one behaviour

ASSUME RingAssumption == InitialCapacity \in Nat \ {0} /\ MaxEntries \in Nat

VARIABLES rings,   \* priority -> QueueRing
          length,  \* LaneQueue.length
          next, reply

vars == <<rings, length, next, reply>>

Priority == {-1, 0, 1}
Nothing == 0
Slot == 0 .. MaxEntries

\* `entries' is an array of `capacity' slots.
EmptyRing == [capacity |-> 0, entries |-> [i \in 0 .. -1 |-> Nothing],
              head |-> 0, length |-> 0]

Init == /\ rings = [p \in Priority |-> EmptyRing]
        /\ length = 0 /\ next = 1 /\ reply = Nothing

Larger(m, n) == IF m >= n THEN m ELSE n

\* The entry `i' places behind the head.
At(ring, i) == ring.entries[(ring.head + i) % ring.capacity]

\* Fault: growing appends free slots where the array ends.
GrownUnrotated(ring) ==
    LET capacity == Larger(InitialCapacity, ring.length * 2)
    IN  [ring EXCEPT !.capacity = capacity,
                     !.entries = [i \in 0 .. capacity - 1 |->
                        IF i < ring.length THEN ring.entries[i] ELSE Nothing]]

\* The copy that starts at the head, twice as large.
Grown(ring) ==
    LET capacity == Larger(InitialCapacity, ring.length * 2)
    IN  [ring EXCEPT !.capacity = capacity, !.head = 0,
                     !.entries = [i \in 0 .. capacity - 1 |->
                        IF i < ring.length THEN At(ring, i) ELSE Nothing]]

\* appendQueueRing
Appended(ring, e) ==
    LET r == IF ring.length = ring.capacity THEN Grown(ring) ELSE ring
    IN  [r EXCEPT !.entries[(r.head + r.length) % r.capacity] = e, !.length = @ + 1]

\* Fault: the slot keeps the entry that left it.
DequeuedKeepingSlot(ring) ==
    IF ring.length = 1 THEN EmptyRing
    ELSE [ring EXCEPT !.length = @ - 1, !.head = (@ + 1) % ring.capacity]

\* Fault: the head walks off the array.
DequeuedOffTheEnd(ring) ==
    IF ring.length = 1 THEN EmptyRing
    ELSE [ring EXCEPT !.entries[ring.head] = Nothing, !.length = @ - 1, !.head = @ + 1]

\* dequeueQueueRing of a ring that is not empty.
Dequeued(ring) ==
    IF ring.length = 1 THEN EmptyRing
    ELSE [ring EXCEPT !.entries[ring.head] = Nothing, !.length = @ - 1,
                      !.head = (@ + 1) % ring.capacity]

-----------------------------------------------------------------------------
\* Fault: only the entries of the same ring are counted.
AheadInOwnRing(p) == rings[p].length

\* What enqueueLaneQueue returns.
Ahead(p) ==
    rings[p].length + (IF p <= 0 THEN rings[1].length ELSE 0)
                    + (IF p < 0 THEN rings[0].length ELSE 0)

Enqueue(p) ==
    /\ next <= MaxEntries
    /\ rings' = [rings EXCEPT ![p] = Appended(@, next)]
    /\ length' = length + 1 /\ next' = next + 1
    /\ reply' = Ahead(p)

\* The ring that peekLaneQueue and dequeueLaneQueue come to.
Served(p) == rings[p].length > 0 /\ \A q \in Priority : q > p => rings[q].length = 0

\* dequeueLaneQueue, also from the loop of clearCommandLane.
Dequeue ==
    \E p \in Priority :
        /\ Served(p)
        /\ rings' = [rings EXCEPT ![p] = Dequeued(@)]
        /\ reply' = rings[p].entries[rings[p].head]
        /\ length' = length - 1 /\ UNCHANGED next

DequeueNothing ==
    /\ \A p \in Priority : rings[p].length = 0
    /\ reply' = Nothing /\ UNCHANGED <<rings, length, next>>

Next == (\E p \in Priority : Enqueue(p)) \/ Dequeue \/ DequeueNothing

Spec == Init /\ [][Next]_vars

-----------------------------------------------------------------------------
\* The arrays have the size that the arithmetic modulo the capacity relies on,
\* and the head never leaves them.
TypeOK ==
    /\ \A p \in Priority : LET r == rings[p] IN
          /\ DOMAIN r.entries = 0 .. r.capacity - 1
          /\ \A i \in DOMAIN r.entries : r.entries[i] \in Slot
          /\ r.length \in 0 .. r.capacity
          /\ IF r.capacity = 0 THEN r.head = 0 ELSE r.head \in 0 .. r.capacity - 1
    /\ next \in 1 .. MaxEntries + 1 /\ reply \in Slot

Live(r) == {(r.head + i) % r.capacity : i \in 0 .. r.length - 1}

\* A burst that has been served leaves nothing behind: exactly the slots between
\* head and tail hold an entry (with the closures of its caller), an empty ring
\* holds no array, and the length that stops the drain loop is that of the rings.
NothingRetained ==
    /\ \A p \in Priority : LET r == rings[p] IN
          /\ \A i \in DOMAIN r.entries : r.entries[i] # Nothing <=> i \in Live(r)
          /\ r.length = 0 => r.capacity = 0
    /\ length = rings[-1].length + rings[0].length + rings[1].length

\* The rings are the queue they stand for: whatever the wrapping, growing and
\* shrinking, entries leave by priority and age, and each is told its place.
QueuedIn(p) == {[seq |-> At(rings[p], i), prio |-> p] : i \in 0 .. rings[p].length - 1}
Promise == INSTANCE LaneQueue WITH queued <- UNION {QueuedIn(p) : p \in Priority}
IsPriorityQueue == Promise!Spec
=============================================================================
