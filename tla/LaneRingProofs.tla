---------------------------- MODULE LaneRingProofs ----------------------------
(***************************************************************************)
(* Three rings that wrap, double and give their memory back are the        *)
(* priority queue they stand for, for every initial capacity and every     *)
(* number of entries: LaneRing implements LaneQueue.                       *)
(*                                                                         *)
(* The argument reads a ring through At, the entry at a distance from the  *)
(* head: appending leaves those entries where they are and adds one behind *)
(* them, dequeueing moves each of them one place to the front.             *)
(***************************************************************************)
EXTENDS LaneRing, FiniteSetTheorems, TLAPS

-----------------------------------------------------------------------------
(* One ring                                                                *)

\* An array of the size that the ring says, with its head inside.
Shaped(r) ==
    /\ r \in [capacity : Nat, entries : UNION {[0 .. c - 1 -> Slot] : c \in Nat},
              head : Nat, length : Nat]
    /\ r.entries \in [0 .. r.capacity - 1 -> Slot]
    /\ r.length <= r.capacity
    /\ IF r.capacity = 0 THEN r.head = 0 ELSE r.head < r.capacity

\* The slots in use are those between head and tail.
Tidy(r) == \A i \in 0 .. r.capacity - 1 : r.entries[i] # Nothing <=> i \in Live(r)

\* Older entries are nearer to the head.
Aged(r) == \A i, j \in 0 .. r.length - 1 : i < j => At(r, i) < At(r, j)

\* Where the entry at distance i is, and which slots are in use, without remainders.
Place(r, i) == IF r.head + i < r.capacity THEN r.head + i ELSE r.head + i - r.capacity
InUse(r, i) == \/ r.head <= i /\ i < r.head + r.length
               \/ i + r.capacity < r.head + r.length

\* One lap around the array at most: the remainder is a subtraction.
LEMMA Remainder ==
  ASSUME NEW c \in Nat, NEW h \in Nat, NEW i \in Nat, h < c, i <= c
  PROVE  (h + i) % c = IF h + i < c THEN h + i ELSE h + i - c
  OBVIOUS

\* What the arithmetic modulo the capacity comes to.
LEMMA Wrapped ==
  ASSUME NEW r, Shaped(r), NEW i \in Nat, i <= r.capacity, r.capacity > 0
  PROVE  (r.head + i) % r.capacity = Place(r, i)
  <1>1. r.head \in Nat /\ r.capacity \in Nat /\ r.head < r.capacity
    BY DEF Shaped
  <1> QED
    BY <1>1, Remainder, Zenon DEF Place

\* The numbers of a ring, and how they bound one another.
LEMMA Fields ==
  ASSUME NEW r, Shaped(r)
  PROVE  /\ r.head \in Nat /\ r.capacity \in Nat /\ r.length \in Nat
         /\ r.length <= r.capacity
         /\ r.capacity > 0 => r.head < r.capacity
         /\ r.capacity = 0 => r.head = 0
  BY DEF Shaped

\* The entry at a distance from the head, without the remainder.
LEMMA EntryAt ==
  ASSUME NEW r, Shaped(r), NEW i \in Nat, i <= r.capacity, r.capacity > 0
  PROVE  At(r, i) = r.entries[Place(r, i)]
  BY Wrapped DEF At

\* A slot is live when it is between head and tail, or before a tail that wrapped.
LEMMA LiveSlots ==
  ASSUME NEW r, Shaped(r), NEW s \in 0 .. r.capacity - 1
  PROVE  s \in Live(r) <=> InUse(r, s)
  <1>1. PICK c \in Nat, h \in Nat, n \in Nat : c = r.capacity /\ h = r.head /\ n = r.length
    BY Fields
  <1>2. s \in 0 .. c - 1 /\ s \in Nat /\ c > 0 /\ h < c /\ n <= c
    BY <1>1, Fields
  <1>3. \A k \in 0 .. n - 1 :
          (r.head + k) % r.capacity = IF h + k < c THEN h + k ELSE h + k - c
    <2> TAKE k \in 0 .. n - 1
    <2>1. k \in Nat /\ k <= c
      BY <1>2
    <2> QED
      BY <2>1, <1>1, <1>2, Remainder
  <1>4. Live(r) = {IF h + k < c THEN h + k ELSE h + k - c : k \in 0 .. n - 1}
    BY <1>1, <1>3 DEF Live
  <1>5. (\E k \in 0 .. n - 1 : s = IF h + k < c THEN h + k ELSE h + k - c)
        <=> (h <= s /\ s < h + n) \/ s + c < h + n
    <2>1. ASSUME h <= s, s < h + n
          PROVE  \E k \in 0 .. n - 1 : s = IF h + k < c THEN h + k ELSE h + k - c
      <3> DEFINE k == s - h
      <3>1. k \in 0 .. n - 1 /\ s = IF h + k < c THEN h + k ELSE h + k - c
        BY <2>1, <1>2
      <3> QED
        BY <3>1
    <2>2. ASSUME s + c < h + n
          PROVE  \E k \in 0 .. n - 1 : s = IF h + k < c THEN h + k ELSE h + k - c
      <3> DEFINE k == s + c - h
      <3>1. k \in 0 .. n - 1 /\ s = IF h + k < c THEN h + k ELSE h + k - c
        BY <2>2, <1>2
      <3> QED
        BY <3>1
    <2> QED
      BY <2>1, <2>2, <1>2
  <1> QED
    BY <1>1, <1>4, <1>5 DEF InUse

\* A ring with an entry put behind its last one.
Put(r, e) == [capacity |-> r.capacity, head |-> r.head, length |-> r.length + 1,
              entries |-> [r.entries EXCEPT ![Place(r, r.length)] = e]]

\* An append to a ring with room leaves the entries before it where they are.
LEMMA PutEntry ==
  ASSUME NEW r, Shaped(r), Tidy(r), r.length < r.capacity,
         NEW e \in Slot, e # Nothing
  PROVE  LET s == Put(r, e)
         IN  /\ Shaped(s) /\ Tidy(s) /\ s.length = r.length + 1
             /\ \A i \in 0 .. r.length - 1 : At(s, i) = At(r, i)
             /\ At(s, r.length) = e
  <1> DEFINE s == Put(r, e)
  <1>1. PICK c \in Nat, h \in Nat, n \in Nat : c = r.capacity /\ h = r.head /\ n = r.length
    BY Fields
  <1>2. c > 0 /\ h < c /\ n < c
    BY <1>1, Fields
  <1>3. PICK t \in 0 .. c - 1 : t = IF h + n < c THEN h + n ELSE h + n - c
    <2>1. (IF h + n < c THEN h + n ELSE h + n - c) \in 0 .. c - 1
      BY <1>2
    <2> QED
      BY <2>1
  <1>4. PICK a \in [0 .. c - 1 -> Slot] : a = r.entries
    <2>1. r.entries \in [0 .. r.capacity - 1 -> Slot]
      BY DEF Shaped
    <2> QED
      BY <2>1, <1>1, Zenon
  <1>5. s = [capacity |-> c, head |-> h, length |-> n + 1, entries |-> [a EXCEPT ![t] = e]]
    <2>1. Place(r, r.length) = t
      BY <1>1, <1>3 DEF Place
    <2> QED
      BY <2>1, <1>1, <1>4, Zenon DEF Put
  <1> HIDE DEF s
  <1>6. /\ s.capacity = c /\ s.head = h /\ s.length = n + 1
        /\ s.entries = [a EXCEPT ![t] = e] /\ s.entries \in [0 .. c - 1 -> Slot]
    BY <1>5
  <1>7. Shaped(s)
    <2>1. s.entries \in UNION {[0 .. k - 1 -> Slot] : k \in Nat}
      BY <1>6
    <2> QED
      BY <2>1, <1>5, <1>6, <1>2 DEF Shaped
  <1>8. Tidy(s)
    <2> SUFFICES ASSUME NEW i \in 0 .. c - 1
                 PROVE  s.entries[i] # Nothing <=> InUse(s, i)
      BY <1>6, <1>7, LiveSlots DEF Tidy
    <2>1. a[i] # Nothing <=> (h <= i /\ i < h + n) \/ i + c < h + n
      BY <1>1, <1>4, LiveSlots DEF Tidy, InUse
    <2>2. InUse(s, i) <=> (h <= i /\ i < h + n + 1) \/ i + c < h + n + 1
      BY <1>6 DEF InUse
    <2>3. s.entries[i] = IF i = t THEN e ELSE a[i]
      BY <1>6
    <2> QED
      BY <2>1, <2>2, <2>3, <1>2, <1>3
  <1>9. At(s, n) = e
    <2>1. Place(s, n) = t
      BY <1>6, <1>3, Zenon DEF Place
    <2>2. n \in Nat /\ n <= s.capacity /\ s.capacity > 0
      BY <1>2, <1>6
    <2>3. At(s, n) = s.entries[t]
      BY <2>1, <2>2, <1>7, EntryAt
    <2> QED
      BY <2>3, <1>6
  <1>10. ASSUME NEW i \in 0 .. n - 1
         PROVE  At(s, i) = At(r, i)
    <2>1. PICK k \in 0 .. c - 1 : k = IF h + i < c THEN h + i ELSE h + i - c
      <3>1. (IF h + i < c THEN h + i ELSE h + i - c) \in 0 .. c - 1
        BY <1>2
      <3> QED
        BY <3>1
    <2>2. k # t
      BY <2>1, <1>2, <1>3
    <2>3. /\ i \in Nat /\ i <= r.capacity /\ r.capacity > 0
          /\ i <= s.capacity /\ s.capacity > 0
      <3>1. i <= c
        BY <1>2
      <3> QED
        BY <3>1, <1>1, <1>2, <1>6
    <2>4. Place(s, i) = k /\ Place(r, i) = k
      BY <2>1, <1>1, <1>6, Zenon DEF Place
    <2>5. At(s, i) = s.entries[k] /\ At(r, i) = a[k]
      BY <2>3, <2>4, <1>4, <1>7, EntryAt
    <2> QED
      BY <2>2, <2>5, <1>6
  <1> QED
    BY <1>1, <1>6, <1>7, <1>8, <1>9, <1>10 DEF s

\* The store that appendQueueRing makes is such a put.
LEMMA StoreIsPut ==
  ASSUME NEW r, Shaped(r), r.length < r.capacity, NEW e \in Slot
  PROVE  [r EXCEPT !.entries[(r.head + r.length) % r.capacity] = e, !.length = @ + 1]
            = Put(r, e)
  <1>1. (r.head + r.length) % r.capacity = Place(r, r.length)
    <2>1. r.length \in Nat /\ r.length <= r.capacity /\ r.capacity > 0
      BY Fields
    <2> QED
      BY <2>1, Wrapped
  <1>2. r = [capacity |-> r.capacity, entries |-> r.entries, head |-> r.head,
             length |-> r.length]
    BY DEF Shaped
  <1>3. ASSUME NEW t \in Nat
        PROVE  [r EXCEPT !.entries[t] = e, !.length = @ + 1]
                 = [capacity |-> r.capacity, head |-> r.head, length |-> r.length + 1,
                    entries |-> [r.entries EXCEPT ![t] = e]]
    <2>1. PICK c \in Nat, h \in Nat, n \in Nat :
            c = r.capacity /\ h = r.head /\ n = r.length
      BY Fields
    <2>2. PICK a \in [0 .. c - 1 -> Slot] : a = r.entries
      <3>1. r.entries \in [0 .. r.capacity - 1 -> Slot]
        BY DEF Shaped
      <3> QED
        BY <3>1, <2>1, Zenon
    <2>3. r = [capacity |-> c, entries |-> a, head |-> h, length |-> n]
      BY <1>2, <2>2, <2>1, Zenon
    <2>4. PICK u : u = [r EXCEPT !.entries[t] = e, !.length = @ + 1]
      OBVIOUS
    <2>5. u = [capacity |-> c, head |-> h, length |-> n + 1, entries |-> [a EXCEPT ![t] = e]]
      BY <2>3, <2>4
    <2> QED
      BY <2>1, <2>2, <2>4, <2>5, Zenon
  <1>4. Place(r, r.length) \in Nat
    BY Fields DEF Place
  <1> QED
    BY <1>1, <1>3, <1>4, Zenon DEF Put

\* A full ring that grows keeps its entries in their order, from slot 0 on.
LEMMA GrownRing ==
  ASSUME NEW r, Shaped(r), Tidy(r), r.length = r.capacity
  PROVE  LET g == Grown(r)
         IN  /\ Shaped(g) /\ Tidy(g) /\ g.length = r.length /\ g.length < g.capacity
             /\ \A i \in 0 .. r.length - 1 : At(g, i) = At(r, i)
  <1> DEFINE g == Grown(r)
  <1>1. PICK n \in Nat : n = r.length
    BY Fields
  <1>2. PICK c \in Nat : c = Larger(InitialCapacity, n * 2) /\ n < c
    BY RingAssumption DEF Larger
  <1>3. ASSUME NEW i \in 0 .. n - 1
        PROVE  At(r, i) \in Slot /\ At(r, i) # Nothing
    <2>1. PICK h \in Nat : h = r.head /\ h < n
      BY <1>1, Fields
    <2>2. PICK k \in 0 .. n - 1 : k = IF h + i < n THEN h + i ELSE h + i - n
      <3>1. (IF h + i < n THEN h + i ELSE h + i - n) \in 0 .. n - 1
        BY <2>1
      <3> QED
        BY <3>1
    <2>3. Place(r, i) = k
      BY <1>1, <2>1, <2>2 DEF Place
    <2>4. i \in Nat /\ i <= r.capacity /\ r.capacity > 0
      BY <1>1
    <2>5. At(r, i) = r.entries[k]
      BY <2>3, <2>4, EntryAt
    <2>6. InUse(r, k)
      BY <1>1, <2>1, <2>2 DEF InUse
    <2>7. k \in 0 .. r.capacity - 1
      BY <1>1
    <2>8. r.entries[k] # Nothing
      BY <2>6, <2>7, LiveSlots DEF Tidy
    <2>9. r.entries[k] \in Slot
      BY <2>7 DEF Shaped
    <2> QED
      BY <2>5, <2>8, <2>9
  <1>4. PICK a : a = [i \in 0 .. c - 1 |-> IF i < n THEN At(r, i) ELSE Nothing]
    OBVIOUS
  <1>5. a \in [0 .. c - 1 -> Slot]
    <2>1. Nothing \in Slot
      BY RingAssumption DEF Nothing, Slot
    <2> QED
      BY <1>3, <1>4, <2>1
  <1>6. g = [capacity |-> c, entries |-> a, head |-> 0, length |-> n]
    <2>1. r = [capacity |-> r.capacity, entries |-> r.entries, head |-> r.head,
               length |-> r.length]
      BY DEF Shaped
    <2>2. g = [r EXCEPT !.capacity = c, !.head = 0, !.entries = a]
      BY <1>1, <1>2, <1>4 DEF Grown
    <2> QED
      BY <2>1, <2>2, <1>1
  <1> HIDE DEF g
  <1>7. g.capacity = c /\ g.head = 0 /\ g.length = n /\ g.entries = a
    BY <1>6
  <1>8. Shaped(g)
    <2>1. g.entries \in UNION {[0 .. k - 1 -> Slot] : k \in Nat}
      BY <1>5, <1>7
    <2>2. g \in [capacity : Nat, entries : UNION {[0 .. k - 1 -> Slot] : k \in Nat},
                 head : Nat, length : Nat]
      BY <2>1, <1>6, <1>7
    <2> QED
      BY <2>2, <1>2, <1>5, <1>7 DEF Shaped
  <1>9. Tidy(g)
    <2> SUFFICES ASSUME NEW i \in 0 .. c - 1
                 PROVE  a[i] # Nothing <=> InUse(g, i)
      BY <1>7, <1>8, LiveSlots DEF Tidy
    <2>1. InUse(g, i) <=> i < n
      BY <1>2, <1>7 DEF InUse
    <2>2. a[i] = IF i < n THEN At(r, i) ELSE Nothing
      BY <1>4
    <2>3. i < n => i \in 0 .. n - 1
      OBVIOUS
    <2> QED
      BY <2>1, <2>2, <2>3, <1>3
  <1>10. ASSUME NEW i \in 0 .. n - 1
         PROVE  At(g, i) = At(r, i)
    <2>1. i \in Nat /\ i <= c /\ c > 0 /\ i < c /\ i \in 0 .. c - 1 /\ i < n
      BY <1>2
    <2>2. Place(g, i) = i
      BY <1>7, <2>1 DEF Place
    <2>3. At(g, i) = a[i]
      BY <2>1, <2>2, <1>7, <1>8, EntryAt
    <2> QED
      BY <2>1, <2>3, <1>4
  <1> QED
    BY <1>1, <1>2, <1>7, <1>8, <1>9, <1>10 DEF g

\* A queue that is empty holds no array.
Shrunk(r) == r.length = 0 => r.capacity = 0

\* appendQueueRing, whether or not the ring had to grow.
LEMMA AppendedRing ==
  ASSUME NEW r, Shaped(r), Tidy(r), NEW e \in Slot, e # Nothing
  PROVE  LET s == Appended(r, e)
         IN  /\ Shaped(s) /\ Tidy(s) /\ s.length = r.length + 1
             /\ \A i \in 0 .. r.length - 1 : At(s, i) = At(r, i)
             /\ At(s, r.length) = e
  <1>1. CASE r.length = r.capacity
    <2> DEFINE g == Grown(r)
    <2>1. /\ Shaped(g) /\ Tidy(g) /\ g.length = r.length /\ g.length < g.capacity
          /\ \A i \in 0 .. r.length - 1 : At(g, i) = At(r, i)
      BY <1>1, GrownRing
    <2>2. Appended(r, e) = Put(g, e)
      <3>1. Appended(r, e) = [g EXCEPT !.entries[(g.head + g.length) % g.capacity] = e,
                                       !.length = @ + 1]
        BY <1>1, Zenon DEF Appended
      <3> QED
        BY <3>1, <2>1, StoreIsPut, Zenon
    <2> HIDE DEF g
    <2> QED
      BY <2>1, <2>2, PutEntry
  <1>2. CASE r.length # r.capacity
    <2>1. r.length < r.capacity
      BY <1>2, Fields
    <2>2. Appended(r, e) = Put(r, e)
      <3>1. Appended(r, e) = [r EXCEPT !.entries[(r.head + r.length) % r.capacity] = e,
                                       !.length = @ + 1]
        BY <1>2, Zenon DEF Appended
      <3> QED
        BY <3>1, <2>1, StoreIsPut, Zenon
    <2> QED
      BY <2>1, <2>2, PutEntry
  <1> QED
    BY <1>1, <1>2

\* dequeueQueueRing: the slot of the head is freed, every other entry moves up.
LEMMA DequeuedRing ==
  ASSUME NEW r, Shaped(r), Tidy(r), r.length > 0
  PROVE  LET s == Dequeued(r)
         IN  /\ Shaped(s) /\ Tidy(s) /\ Shrunk(s) /\ s.length = r.length - 1
             /\ \A i \in 0 .. r.length - 2 : At(s, i) = At(r, i + 1)
  <1> DEFINE s == Dequeued(r)
  <1>1. PICK c \in Nat, h \in Nat, n \in Nat : c = r.capacity /\ h = r.head /\ n = r.length
    BY Fields
  <1>2. c > 0 /\ h < c /\ n <= c /\ n > 0
    BY <1>1, Fields
  <1>3. CASE n = 1
    <2>1. s = EmptyRing
      BY <1>1, <1>3 DEF Dequeued
    <2> HIDE DEF s
    <2>2. s.capacity = 0 /\ s.head = 0 /\ s.length = 0
      BY <2>1 DEF EmptyRing
    <2>3. s.entries \in [0 .. 0 - 1 -> Slot]
      BY <2>1 DEF EmptyRing
    <2>4. Shaped(s)
      BY <2>1, <2>2, <2>3 DEF Shaped, EmptyRing
    <2>5. Tidy(s) /\ Shrunk(s)
      BY <2>2 DEF Tidy, Shrunk
    <2> QED
      BY <2>2, <2>4, <2>5, <1>1, <1>3 DEF s
  <1>4. CASE n > 1
    <2>1. PICK a \in [0 .. c - 1 -> Slot] : a = r.entries
      <3>1. r.entries \in [0 .. r.capacity - 1 -> Slot]
        BY DEF Shaped
      <3> QED
        BY <3>1, <1>1, Zenon
    <2>2. PICK t \in 0 .. c - 1 : t = IF h + 1 < c THEN h + 1 ELSE h + 1 - c
      <3>1. (IF h + 1 < c THEN h + 1 ELSE h + 1 - c) \in 0 .. c - 1
        BY <1>2
      <3> QED
        BY <3>1
    <2>3. s = [capacity |-> c, entries |-> [a EXCEPT ![h] = Nothing], head |-> t,
               length |-> n - 1]
      <3>1. (r.head + 1) % r.capacity = t
        <4>1. 1 <= c
          BY <1>2
        <4>2. (h + 1) % c = t
          BY <4>1, <1>2, <2>2, Remainder
        <4> QED
          BY <4>2, <1>1, Zenon
      <3>2. r = [capacity |-> c, entries |-> a, head |-> h, length |-> n]
        BY <1>1, <2>1 DEF Shaped
      <3>3. s = [r EXCEPT !.entries[r.head] = Nothing, !.length = @ - 1,
                          !.head = (@ + 1) % r.capacity]
        <4>1. r.length # 1
          BY <1>1, <1>4
        <4> QED
          BY <4>1, Zenon DEF Dequeued
      <3>4. s = [r EXCEPT !.entries[h] = Nothing, !.length = @ - 1, !.head = t]
        BY <3>1, <3>3, <1>1, Zenon
      <3> QED
        BY <3>2, <3>4
    <2> HIDE DEF s
    <2>4. /\ s.capacity = c /\ s.head = t /\ s.length = n - 1
          /\ s.entries = [a EXCEPT ![h] = Nothing] /\ s.entries \in [0 .. c - 1 -> Slot]
      <3>1. Nothing \in Slot
        BY RingAssumption DEF Nothing, Slot
      <3> QED
        BY <2>3, <3>1
    <2>5. Shaped(s)
      <3>1. s.entries \in UNION {[0 .. k - 1 -> Slot] : k \in Nat}
        BY <2>4
      <3>2. n - 1 \in Nat /\ n - 1 <= c /\ t \in Nat /\ t < c
        BY <1>2
      <3>3. s \in [capacity : Nat, entries : UNION {[0 .. k - 1 -> Slot] : k \in Nat},
                   head : Nat, length : Nat]
        BY <3>1, <3>2, <2>3, <2>4
      <3> QED
        BY <3>2, <3>3, <2>4, <1>2 DEF Shaped
    <2>6. Tidy(s)
      <3> SUFFICES ASSUME NEW i \in 0 .. c - 1
                   PROVE  s.entries[i] # Nothing <=> InUse(s, i)
        BY <2>4, <2>5, LiveSlots DEF Tidy
      <3>1. a[i] # Nothing <=> (h <= i /\ i < h + n) \/ i + c < h + n
        BY <1>1, <2>1, LiveSlots DEF Tidy, InUse
      <3>2. InUse(s, i) <=> (t <= i /\ i < t + (n - 1)) \/ i + c < t + (n - 1)
        BY <2>4 DEF InUse
      <3>3. s.entries[i] = IF i = h THEN Nothing ELSE a[i]
        BY <2>4
      <3>4. CASE h + 1 < c
        BY <3>1, <3>2, <3>3, <3>4, <1>2, <1>4, <2>2
      <3>5. CASE h + 1 = c
        BY <3>1, <3>2, <3>3, <3>5, <1>2, <1>4, <2>2
      <3> QED
        BY <3>4, <3>5, <1>2
    <2>7. ASSUME NEW i \in 0 .. n - 2
          PROVE  At(s, i) = At(r, i + 1)
      <3>1. PICK j \in Nat : j = i + 1 /\ j < n
        BY <1>4
      <3>2. PICK k \in 0 .. c - 1 : k = IF h + j < c THEN h + j ELSE h + j - c
        <4>1. (IF h + j < c THEN h + j ELSE h + j - c) \in 0 .. c - 1
          BY <1>2, <3>1
        <4> QED
          BY <4>1
      <3>3. k # h /\ k = IF t + i < c THEN t + i ELSE t + i - c
        BY <1>2, <2>2, <3>1, <3>2
      <3>4. Place(s, i) = k
        BY <2>4, <3>3, Zenon DEF Place
      <3>5. Place(r, j) = k
        BY <1>1, <3>2, Zenon DEF Place
      <3>6. /\ i \in Nat /\ i <= s.capacity /\ s.capacity > 0
            /\ j <= r.capacity /\ r.capacity > 0
        <4>1. i <= c /\ j <= c
          BY <1>2, <3>1
        <4> QED
          BY <4>1, <1>1, <1>2, <2>4
      <3>7. At(s, i) = s.entries[k] /\ At(r, j) = a[k]
        BY <3>4, <3>5, <3>6, <2>1, <2>5, EntryAt
      <3> QED
        BY <3>1, <3>3, <3>7, <2>4
    <2>8. Shrunk(s) /\ s.length = r.length - 1
      BY <2>4, <1>1, <1>4 DEF Shrunk
    <2> QED
      BY <1>1, <2>5, <2>6, <2>7, <2>8 DEF s
  <1> QED
    BY <1>2, <1>3, <1>4

-----------------------------------------------------------------------------
(* The three rings                                                         *)

\* Each ring is a run of entries, the oldest at the head, all of them numbered
\* before m.
RingInv(r, m) ==
    /\ Shaped(r) /\ Tidy(r) /\ Shrunk(r) /\ Aged(r)
    /\ \A i \in 0 .. r.length - 1 : At(r, i) \in 1 .. m - 1

\* The inductive invariant.  The numbers given out bound what is queued, which is
\* why a reply is always one.
RingsInv ==
    /\ rings = [p \in Priority |-> rings[p]]
    /\ \A p \in Priority : RingInv(rings[p], next)
    /\ next \in 1 .. MaxEntries + 1 /\ reply \in Slot
    /\ length = rings[-1].length + rings[0].length + rings[1].length
    /\ length <= next - 1

\* The newest entry goes behind all the others of its ring.
LEMMA AppendKeeps ==
  ASSUME NEW m \in 1 .. MaxEntries, NEW r, RingInv(r, m)
  PROVE  RingInv(Appended(r, m), m + 1)
  <1> DEFINE s == Appended(r, m)
  <1>1. m \in Slot /\ m # Nothing /\ m \in Nat /\ MaxEntries \in Nat
    BY RingAssumption DEF Slot, Nothing
  <1>2. /\ Shaped(s) /\ Tidy(s) /\ s.length = r.length + 1
        /\ \A i \in 0 .. r.length - 1 : At(s, i) = At(r, i)
        /\ At(s, r.length) = m
    BY <1>1, AppendedRing DEF RingInv
  <1>3. PICK n \in Nat : n = r.length
    BY Fields DEF RingInv
  <1> HIDE DEF s
  <1>4. ASSUME NEW i \in 0 .. n
        PROVE  At(s, i) = IF i = n THEN m ELSE At(r, i)
    <2>1. i # n => i \in 0 .. n - 1
      OBVIOUS
    <2> QED
      BY <2>1, <1>2, <1>3
  <1>5. \A i \in 0 .. n - 1 : At(r, i) \in 1 .. m - 1
    BY <1>3 DEF RingInv
  <1>6. \A i, j \in 0 .. n - 1 : i < j => At(r, i) < At(r, j)
    BY <1>3 DEF RingInv, Aged
  <1>7. \A i \in 0 .. n : At(s, i) \in 1 .. m
    BY <1>1, <1>4, <1>5
  <1>8. \A i, j \in 0 .. n : i < j => At(s, i) < At(s, j)
    <2> TAKE i, j \in 0 .. n
    <2> HAVE i < j
    <2>1. i \in 0 .. n - 1
      OBVIOUS
    <2>2. At(s, i) = At(r, i) /\ At(r, i) \in 1 .. m - 1
      BY <2>1, <1>4, <1>5
    <2>3. CASE j = n
      <3>1. At(s, j) = m
        BY <2>3, <1>4
      <3> QED
        BY <2>2, <3>1, <1>1
    <2>4. CASE j # n
      <3>1. j \in 0 .. n - 1
        BY <2>4
      <3>2. At(s, j) = At(r, j)
        BY <3>1, <2>4, <1>4
      <3> QED
        BY <2>1, <2>2, <3>1, <3>2, <1>6
    <2> QED
      BY <2>3, <2>4
  <1>9. s.length = n + 1 /\ 0 .. s.length - 1 = 0 .. n /\ (m + 1) - 1 = m
    BY <1>1, <1>2, <1>3
  <1>10. Aged(s) /\ Shrunk(s)
    BY <1>8, <1>9 DEF Aged, Shrunk
  <1> QED
    BY <1>2, <1>7, <1>9, <1>10 DEF RingInv, s

\* What is left when the oldest entry has gone is a run of entries again.
LEMMA DequeueKeeps ==
  ASSUME NEW m \in Nat, NEW r, RingInv(r, m), r.length > 0
  PROVE  RingInv(Dequeued(r), m)
  <1> DEFINE s == Dequeued(r)
  <1>1. /\ Shaped(s) /\ Tidy(s) /\ Shrunk(s) /\ s.length = r.length - 1
        /\ \A i \in 0 .. r.length - 2 : At(s, i) = At(r, i + 1)
    BY DequeuedRing DEF RingInv
  <1>2. PICK n \in Nat : n = r.length /\ n > 0
    BY Fields DEF RingInv
  <1> HIDE DEF s
  <1>3. 0 .. s.length - 1 = 0 .. n - 2
    BY <1>1, <1>2
  <1>4. \A i \in 0 .. n - 2 : i + 1 \in 0 .. n - 1 /\ At(s, i) = At(r, i + 1)
    BY <1>1, <1>2
  <1>5. \A i \in 0 .. n - 2 : At(s, i) \in 1 .. m - 1
    BY <1>2, <1>4 DEF RingInv
  <1>6. \A i, j \in 0 .. n - 2 : i < j => At(s, i) < At(s, j)
    <2> TAKE i, j \in 0 .. n - 2
    <2> HAVE i < j
    <2>1. PICK k \in 0 .. n - 1 : k = i + 1
      OBVIOUS
    <2>2. PICK l \in 0 .. n - 1 : l = j + 1
      OBVIOUS
    <2>3. At(r, k) < At(r, l)
      BY <2>1, <2>2, <1>2 DEF RingInv, Aged
    <2> QED
      BY <2>1, <2>2, <2>3, <1>4
  <1> QED
    BY <1>1, <1>3, <1>5, <1>6 DEF RingInv, Aged, s

\* A later number changes nothing for the rings that were not touched.
LEMMA LaterKeeps ==
  ASSUME NEW m \in Nat, NEW r, RingInv(r, m)
  PROVE  RingInv(r, m + 1)
  <1>1. \A x \in 1 .. m - 1 : x \in 1 .. (m + 1) - 1
    OBVIOUS
  <1> QED
    BY <1>1 DEF RingInv

-----------------------------------------------------------------------------
(* The inductive invariant                                                 *)

\* Three empty rings, without arrays.
LEMMA InitRings == Init => RingsInv
  <1> SUFFICES ASSUME Init PROVE RingsInv
    OBVIOUS
  <1>1. RingInv(EmptyRing, 1)
    <2>1. EmptyRing.length = 0 /\ EmptyRing.capacity = 0 /\ EmptyRing.head = 0
      BY DEF EmptyRing
    <2>2. EmptyRing.entries \in [0 .. 0 - 1 -> Slot]
      BY DEF EmptyRing
    <2>3. Shaped(EmptyRing)
      BY <2>1, <2>2 DEF Shaped, EmptyRing
    <2> QED
      BY <2>1, <2>3 DEF RingInv, Tidy, Shrunk, Aged
  <1>2. EmptyRing.length = 0
    BY DEF EmptyRing
  <1> QED
    BY <1>1, <1>2, RingAssumption DEF Init, RingsInv, Priority, Slot, Nothing

\* enqueueLaneQueue keeps the three rings in order.
LEMMA EnqueueRings ==
  ASSUME RingsInv, NEW p \in Priority, Enqueue(p)
  PROVE  RingsInv'
  <1>1. next \in 1 .. MaxEntries /\ next \in Nat /\ MaxEntries \in Nat
    BY RingAssumption DEF RingsInv, Enqueue
  <1>2. /\ rings' = [rings EXCEPT ![p] = Appended(rings[p], next)]
        /\ next' = next + 1 /\ length' = length + 1
    BY DEF Enqueue
  <1>3. \A q \in Priority : rings'[q] = IF q = p THEN Appended(rings[p], next) ELSE rings[q]
    BY <1>2 DEF RingsInv
  <1>4. rings' = [q \in Priority |-> rings'[q]]
    BY <1>2 DEF RingsInv
  <1>5. ASSUME NEW q \in Priority PROVE RingInv(rings'[q], next')
    <2>1. RingInv(rings[q], next)
      BY DEF RingsInv
    <2> QED
      BY <2>1, <1>1, <1>2, <1>3, AppendKeeps, LaterKeeps
  <1>6. \A q \in Priority : rings[q].length \in Nat
    BY Fields DEF RingsInv, RingInv
  <1>7. Appended(rings[p], next).length = rings[p].length + 1
    <2>1. Shaped(rings[p]) /\ Tidy(rings[p])
      BY DEF RingsInv, RingInv
    <2>2. next \in Slot /\ next # Nothing
      BY <1>1 DEF Slot, Nothing
    <2> QED
      BY <2>1, <2>2, AppendedRing
  <1>8. \A q \in Priority : rings'[q].length = IF q = p THEN rings[q].length + 1
                                                      ELSE rings[q].length
    BY <1>3, <1>7
  <1>9. length' = rings'[-1].length + rings'[0].length + rings'[1].length
    BY <1>2, <1>6, <1>8 DEF RingsInv, Priority
  <1>10. reply' \in Slot /\ length' <= next' - 1
    <2>1. PICK a \in Nat, b \in Nat, c \in Nat :
            a = rings[-1].length /\ b = rings[0].length /\ c = rings[1].length
      BY <1>6 DEF Priority
    <2>2. length = a + b + c /\ length <= next - 1
      BY <2>1 DEF RingsInv
    <2>3. reply' \in {a + b + c, b + c, c}
      <3>1. reply' = rings[p].length + (IF p <= 0 THEN c ELSE 0) + (IF p < 0 THEN b ELSE 0)
        BY <2>1 DEF Enqueue, Ahead
      <3>2. CASE p = -1
        BY <3>1, <3>2, <2>1
      <3>3. CASE p = 0
        BY <3>1, <3>3, <2>1
      <3>4. CASE p = 1
        BY <3>1, <3>4, <2>1
      <3> QED
        BY <3>2, <3>3, <3>4 DEF Priority
    <2> QED
      BY <2>2, <2>3, <1>1, <1>2 DEF Slot
  <1> QED
    BY <1>1, <1>2, <1>4, <1>5, <1>9, <1>10 DEF RingsInv

\* The oldest entry of a ring, which is the one that leaves it.
LEMMA HeadEntry ==
  ASSUME NEW m \in Nat, NEW r, RingInv(r, m), r.length > 0
  PROVE  r.entries[r.head] = At(r, 0) /\ At(r, 0) \in 1 .. m - 1
  <1>1. /\ r.capacity \in Nat /\ r.capacity > 0 /\ r.length \in Nat
        /\ r.head \in Nat /\ r.head < r.capacity
    BY Fields DEF RingInv
  <1>2. Place(r, 0) = r.head
    BY <1>1 DEF Place
  <1>3. At(r, 0) = r.entries[r.head]
    <2>1. 0 \in Nat /\ 0 <= r.capacity /\ Shaped(r)
      BY <1>1 DEF RingInv
    <2> QED
      BY <1>1, <1>2, <2>1, EntryAt, Zenon
  <1>4. 0 \in 0 .. r.length - 1
    BY <1>1
  <1> QED
    BY <1>3, <1>4 DEF RingInv

\* dequeueLaneQueue keeps the three rings in order.
LEMMA DequeueRings ==
  ASSUME RingsInv, NEW p \in Priority, Served(p),
         rings' = [rings EXCEPT ![p] = Dequeued(rings[p])],
         reply' = rings[p].entries[rings[p].head],
         length' = length - 1, UNCHANGED next
  PROVE  RingsInv'
  <1>1. next \in Nat /\ MaxEntries \in Nat /\ next <= MaxEntries + 1
    BY RingAssumption DEF RingsInv
  <1>2. rings[p].length > 0 /\ RingInv(rings[p], next)
    BY DEF RingsInv, Served
  <1>3. \A q \in Priority : rings'[q] = IF q = p THEN Dequeued(rings[p]) ELSE rings[q]
    BY DEF RingsInv
  <1>4. rings' = [q \in Priority |-> rings'[q]]
    BY DEF RingsInv
  <1>5. ASSUME NEW q \in Priority PROVE RingInv(rings'[q], next')
    <2>1. RingInv(rings[q], next)
      BY DEF RingsInv
    <2> QED
      BY <2>1, <1>1, <1>2, <1>3, DequeueKeeps
  <1>6. \A q \in Priority : rings[q].length \in Nat
    BY Fields DEF RingsInv, RingInv
  <1>7. Dequeued(rings[p]).length = rings[p].length - 1
    BY <1>2, DequeuedRing DEF RingInv
  <1>8. \A q \in Priority : rings'[q].length = IF q = p THEN rings[q].length - 1
                                                      ELSE rings[q].length
    BY <1>3, <1>7
  <1>9. length' = rings'[-1].length + rings'[0].length + rings'[1].length
    BY <1>6, <1>8 DEF RingsInv, Priority
  <1>10. reply' \in Slot
    BY <1>1, <1>2, HeadEntry DEF Slot
  <1>11. length' <= next' - 1
    BY <1>1, <1>6 DEF RingsInv, Priority
  <1> QED
    BY <1>1, <1>4, <1>5, <1>9, <1>10, <1>11 DEF RingsInv

\* So does every step.
LEMMA NextRings == RingsInv /\ [Next]_vars => RingsInv'
  <1> SUFFICES ASSUME RingsInv, [Next]_vars PROVE RingsInv'
    OBVIOUS
  <1>1. ASSUME NEW p \in Priority, Enqueue(p) PROVE RingsInv'
    BY <1>1, EnqueueRings
  <1>2. CASE Dequeue
    <2>1. PICK p \in Priority :
            /\ Served(p) /\ rings' = [rings EXCEPT ![p] = Dequeued(rings[p])]
            /\ reply' = rings[p].entries[rings[p].head]
            /\ length' = length - 1 /\ UNCHANGED next
      BY <1>2 DEF Dequeue
    <2> QED
      BY <2>1, DequeueRings
  <1>3. CASE DequeueNothing
    <2>1. reply' \in Slot
      BY <1>3, RingAssumption DEF DequeueNothing, Slot, Nothing
    <2> QED
      BY <2>1, <1>3 DEF DequeueNothing, RingsInv
  <1>4. CASE UNCHANGED vars
    BY <1>4 DEF vars, RingsInv
  <1> QED
    BY <1>1, <1>2, <1>3, <1>4 DEF Next

\* What the arithmetic of the rings rests on, for every initial capacity.
THEOREM RingsInvariant == Spec => []RingsInv
  BY InitRings, NextRings, PTL DEF Spec

\* The arrays always have the size that the arithmetic modulo the capacity takes
\* them to have, and the head is always inside.
THEOREM TypeCorrect == Spec => []TypeOK
  <1>1. RingsInv => TypeOK
    <2> SUFFICES ASSUME RingsInv PROVE TypeOK
      OBVIOUS
    <2>1. ASSUME NEW p \in Priority
          PROVE  LET r == rings[p] IN
                   /\ DOMAIN r.entries = 0 .. r.capacity - 1
                   /\ \A i \in DOMAIN r.entries : r.entries[i] \in Slot
                   /\ r.length \in 0 .. r.capacity
                   /\ IF r.capacity = 0 THEN r.head = 0 ELSE r.head \in 0 .. r.capacity - 1
      <3>1. Shaped(rings[p])
        BY DEF RingsInv, RingInv
      <3> QED
        BY <3>1, Fields DEF Shaped
    <2> QED
      BY <2>1 DEF RingsInv, TypeOK
  <1> QED
    BY RingsInvariant, <1>1, PTL

\* A burst that has been served leaves nothing behind, however often its rings
\* wrapped, grew and shrank: no slot outside head and tail holds an entry.
THEOREM NothingIsRetained == Spec => []NothingRetained
  <1>1. RingsInv => NothingRetained
    <2> SUFFICES ASSUME RingsInv PROVE NothingRetained
      OBVIOUS
    <2>1. ASSUME NEW p \in Priority
          PROVE  LET r == rings[p] IN
                   /\ \A i \in DOMAIN r.entries : r.entries[i] # Nothing <=> i \in Live(r)
                   /\ r.length = 0 => r.capacity = 0
      <3>1. Shaped(rings[p]) /\ Tidy(rings[p]) /\ Shrunk(rings[p])
        BY DEF RingsInv, RingInv
      <3>2. DOMAIN rings[p].entries = 0 .. rings[p].capacity - 1
        BY <3>1 DEF Shaped
      <3> QED
        BY <3>1, <3>2 DEF Tidy, Shrunk
    <2> QED
      BY <2>1 DEF RingsInv, NothingRetained
  <1> QED
    BY RingsInvariant, <1>1, PTL

-----------------------------------------------------------------------------
(* The queue that the rings stand for                                      *)

\* The entries of a ring of priority p, as the queue has them.
Entries(r, p) == {[seq |-> At(r, i), prio |-> p] : i \in 0 .. r.length - 1}

\* Appending adds the new entry to those of its ring.
LEMMA EntriesAppended ==
  ASSUME NEW m \in 1 .. MaxEntries, NEW r, RingInv(r, m), NEW p \in Priority
  PROVE  Entries(Appended(r, m), p) = Entries(r, p) \cup {[seq |-> m, prio |-> p]}
  <1> DEFINE s == Appended(r, m)
  <1>1. m \in Slot /\ m # Nothing
    BY RingAssumption DEF Slot, Nothing
  <1>2. /\ s.length = r.length + 1
        /\ \A i \in 0 .. r.length - 1 : At(s, i) = At(r, i)
        /\ At(s, r.length) = m
    BY <1>1, AppendedRing DEF RingInv
  <1>3. PICK n \in Nat : n = r.length
    BY Fields DEF RingInv
  <1> HIDE DEF s
  <1>4. 0 .. s.length - 1 = (0 .. n - 1) \cup {n}
    BY <1>2, <1>3
  <1>5. Entries(s, p) = {[seq |-> At(s, i), prio |-> p] : i \in (0 .. n - 1) \cup {n}}
    BY <1>4 DEF Entries
  <1>6. Entries(r, p) = {[seq |-> At(r, i), prio |-> p] : i \in 0 .. n - 1}
    BY <1>3 DEF Entries
  <1>7. Entries(s, p) = Entries(r, p) \cup {[seq |-> m, prio |-> p]}
    BY <1>2, <1>3, <1>5, <1>6
  <1> QED
    BY <1>7 DEF s

\* Dequeueing takes the oldest away and no other.
LEMMA EntriesDequeued ==
  ASSUME NEW m \in Nat, NEW r, RingInv(r, m), r.length > 0, NEW p \in Priority
  PROVE  Entries(Dequeued(r), p) = Entries(r, p) \ {[seq |-> At(r, 0), prio |-> p]}
  <1> DEFINE s == Dequeued(r)  head == [seq |-> At(r, 0), prio |-> p]
  <1>1. /\ s.length = r.length - 1
        /\ \A i \in 0 .. r.length - 2 : At(s, i) = At(r, i + 1)
    BY DequeuedRing DEF RingInv
  <1>2. PICK n \in Nat : n = r.length /\ n > 0
    BY Fields DEF RingInv
  <1>3. \A i, j \in 0 .. n - 1 : i < j => At(r, i) < At(r, j)
    BY <1>2 DEF RingInv, Aged
  <1>4. \A i \in 0 .. n - 1 : At(r, i) \in Nat
    BY <1>2 DEF RingInv
  <1> HIDE DEF s
  <1>5. ASSUME NEW e \in Entries(s, p) PROVE e \in Entries(r, p) \ {head}
    <2>1. PICK i \in 0 .. n - 2 : e = [seq |-> At(s, i), prio |-> p]
      BY <1>1, <1>2 DEF Entries
    <2>2. PICK j \in 0 .. n - 1 : j = i + 1 /\ 0 < j /\ 0 \in 0 .. n - 1
      BY <2>1
    <2>3. e = [seq |-> At(r, j), prio |-> p]
      BY <1>1, <1>2, <2>1, <2>2
    <2>4. At(r, 0) < At(r, j) /\ At(r, 0) \in Nat /\ At(r, j) \in Nat
      BY <1>3, <1>4, <2>2
    <2>5. e # head
      BY <2>3, <2>4
    <2> QED
      BY <2>2, <2>3, <2>5, <1>2 DEF Entries
  <1>6. ASSUME NEW e \in Entries(r, p), e # head PROVE e \in Entries(s, p)
    <2>1. PICK j \in 0 .. n - 1 : e = [seq |-> At(r, j), prio |-> p]
      BY <1>2 DEF Entries
    <2>2. j # 0
      BY <1>6, <2>1
    <2>3. PICK i \in 0 .. n - 2 : j = i + 1
      <3>1. j - 1 \in 0 .. n - 2 /\ j = (j - 1) + 1
        BY <2>2
      <3> QED
        BY <3>1
    <2>4. At(s, i) = At(r, j)
      BY <1>1, <1>2, <2>3
    <2> QED
      BY <2>1, <2>3, <2>4, <1>1, <1>2 DEF Entries
  <1> QED
    BY <1>5, <1>6 DEF s

\* No two places of a ring hold the same entry: a ring counts its entries.
LEMMA EntriesCount ==
  ASSUME NEW m \in Nat, NEW r, RingInv(r, m), NEW p \in Priority
  PROVE  IsFiniteSet(Entries(r, p)) /\ Cardinality(Entries(r, p)) = r.length
  <1>1. PICK n \in Nat : n = r.length
    BY Fields DEF RingInv
  <1>2. IsFiniteSet(0 .. n - 1) /\ Cardinality(0 .. n - 1) = n
    BY FS_Interval
  <1>3. \A i, j \in 0 .. n - 1 : i < j => At(r, i) < At(r, j)
    BY <1>1 DEF RingInv, Aged
  <1>4. \A i \in 0 .. n - 1 : At(r, i) \in Nat
    BY <1>1 DEF RingInv
  <1> DEFINE f == [i \in 0 .. n - 1 |-> [seq |-> At(r, i), prio |-> p]]
  <1>5. Entries(r, p) = {[seq |-> At(r, i), prio |-> p] : i \in 0 .. n - 1}
    BY <1>1 DEF Entries
  <1>6. f \in Surjection(0 .. n - 1, Entries(r, p))
    BY <1>5 DEF Surjection
  <1>7. f \in Injection(0 .. n - 1, Entries(r, p))
    <2>1. f \in [0 .. n - 1 -> Entries(r, p)]
      BY <1>5
    <2>2. ASSUME NEW i \in 0 .. n - 1, NEW j \in 0 .. n - 1, f[i] = f[j]
          PROVE  i = j
      <3>1. At(r, i) = At(r, j)
        BY <2>2
      <3> QED
        BY <3>1, <1>3, <1>4
    <2> QED
      BY <2>1, <2>2 DEF Injection, IsInjective
  <1>8. ExistsBijection(0 .. n - 1, Entries(r, p))
    BY <1>6, <1>7 DEF ExistsBijection, Bijection
  <1> QED
    BY <1>1, <1>2, <1>8, FS_Bijection

\* An entry is known by its priority and its age; the head is the oldest.
LEMMA EntryFacts ==
  ASSUME NEW m \in Nat, NEW r, RingInv(r, m), NEW p \in Priority, NEW e \in Entries(r, p)
  PROVE  /\ e.prio = p /\ e.seq \in 1 .. m - 1
         /\ e = [seq |-> e.seq, prio |-> e.prio]
         /\ e # [seq |-> At(r, 0), prio |-> p] => At(r, 0) < e.seq
  <1>1. PICK n \in Nat : n = r.length
    BY Fields DEF RingInv
  <1>2. PICK i \in 0 .. n - 1 : e = [seq |-> At(r, i), prio |-> p]
    BY <1>1 DEF Entries
  <1>3. At(r, i) \in 1 .. m - 1
    BY <1>1 DEF RingInv
  <1>4. i # 0 => At(r, 0) < At(r, i)
    BY <1>1 DEF RingInv, Aged
  <1> QED
    BY <1>2, <1>3, <1>4

-----------------------------------------------------------------------------
(* The rings implement the queue                                           *)

\* The refinement mapping.
Queued == UNION {QueuedIn(p) : p \in Priority}

\* The operator that the instance brings along is the one of FiniteSets.
LEMMA SameCardinality ==
  ASSUME NEW S
  PROVE  Promise!Cardinality(S) = Cardinality(S)
  BY DEF Promise!Cardinality, Cardinality

\* The queue is what the three rings hold.
LEMMA QueuedParts ==
  Queued = Entries(rings[-1], -1) \cup Entries(rings[0], 0) \cup Entries(rings[1], 1)
  BY DEF Queued, QueuedIn, Entries, Priority

\* And it still is after a step.
LEMMA QueuedPartsNext ==
  Queued' = Entries(rings'[-1], -1) \cup Entries(rings'[0], 0) \cup Entries(rings'[1], 1)
  BY DEF Queued, QueuedIn, Entries, Priority, At

\* Empty rings are an empty queue.
LEMMA RefineInit == Init => Promise!Init
  <1> SUFFICES ASSUME Init PROVE Promise!Init
    OBVIOUS
  <1>1. \A p \in Priority : Entries(rings[p], p) = {}
    BY DEF Init, Entries, EmptyRing
  <1>2. Queued = {}
    BY <1>1, QueuedParts DEF Priority
  <1> QED
    BY <1>2 DEF Init, Promise!Init, Queued, Nothing, Promise!Nothing

\* Rings that share no entry are counted one by one.
LEMMA DisjointUnion ==
  ASSUME NEW m \in Nat, NEW n \in Nat, NEW S, NEW T, S \cap T = {},
         IsFiniteSet(S), IsFiniteSet(T), Cardinality(S) = m, Cardinality(T) = n
  PROVE  IsFiniteSet(S \cup T) /\ Cardinality(S \cup T) = m + n
  <1>1. /\ IsFiniteSet(S \cup T)
        /\ Cardinality(S \cup T) = Cardinality(S) + Cardinality(T) - Cardinality(S \cap T)
    BY FS_Union
  <1>2. Cardinality(S \cap T) = 0
    BY FS_EmptySet
  <1> QED
    BY <1>1, <1>2

\* The entries that wait in front of a new one, counted in all three rings.
LEMMA AheadCounts ==
  ASSUME RingsInv, NEW p \in Priority
  PROVE  Cardinality({f \in Queued : Promise!Before(f, [seq |-> next, prio |-> p])})
           = Ahead(p)
  <1> DEFINE new == [seq |-> next, prio |-> p]
             ahead == {f \in Queued : Promise!Before(f, new)}
             E(q) == Entries(rings[q], q)
  <1>1. next \in Nat /\ \A q \in Priority : RingInv(rings[q], next)
    BY RingAssumption DEF RingsInv
  <1>2. \A q \in Priority : IsFiniteSet(E(q)) /\ Cardinality(E(q)) = rings[q].length
    BY <1>1, EntriesCount
  <1>3. \A q \in Priority : rings[q].length \in Nat
    BY <1>1, Fields DEF RingInv
  <1>4. \A q \in Priority : \A f \in E(q) : f.prio = q /\ f.seq < next /\ f.seq \in Nat
    BY <1>1, EntryFacts
  <1>5. \A q \in Priority : \A f \in E(q) : Promise!Before(f, new) <=> q >= p
    <2> TAKE q \in Priority
    <2> TAKE f \in E(q)
    <2>1. f.prio = q /\ f.seq < next
      BY <1>4
    <2>2. Promise!Before(f, new) <=> q > p \/ (q = p /\ f.seq < next)
      BY <2>1 DEF Promise!Before
    <2> QED
      BY <2>1, <2>2 DEF Priority
  <1>6. Queued = E(-1) \cup E(0) \cup E(1)
    BY QueuedParts
  <1>7. /\ E(0) \cap E(1) = {} /\ E(-1) \cap E(1) = {} /\ E(-1) \cap E(0) = {}
    BY <1>4 DEF Priority
  <1>8. PICK a \in Nat, b \in Nat, c \in Nat :
          a = rings[-1].length /\ b = rings[0].length /\ c = rings[1].length
    BY <1>3 DEF Priority
  <1> HIDE DEF E, new, ahead
  <1>9. IsFiniteSet(E(0) \cup E(1)) /\ Cardinality(E(0) \cup E(1)) = b + c
    <2>1. /\ IsFiniteSet(E(0)) /\ Cardinality(E(0)) = b
          /\ IsFiniteSet(E(1)) /\ Cardinality(E(1)) = c
      BY <1>2, <1>8 DEF Priority
    <2> QED
      BY <2>1, <1>7, DisjointUnion
  <1>10. Cardinality(E(-1) \cup (E(0) \cup E(1))) = a + (b + c)
    <2>1. E(-1) \cap (E(0) \cup E(1)) = {}
      BY <1>7
    <2>2. b + c \in Nat
      OBVIOUS
    <2>3. IsFiniteSet(E(-1)) /\ Cardinality(E(-1)) = a
      BY <1>2, <1>8 DEF Priority
    <2> QED
      BY <2>1, <2>2, <2>3, <1>9, DisjointUnion
  <1>11. Ahead(p) = rings[p].length + (IF p <= 0 THEN c ELSE 0) + (IF p < 0 THEN b ELSE 0)
    BY <1>8 DEF Ahead
  <1>12. \A f : f \in ahead <=> f \in Queued /\ Promise!Before(f, new)
    BY DEF ahead
  <1>13. Cardinality(ahead) = Ahead(p)
    <2>1. CASE p = 1
      <3>1. ahead = E(1)
        BY <1>5, <1>6, <1>12, <2>1 DEF Priority
      <3>2. Cardinality(E(1)) = c
        BY <1>2, <1>8 DEF Priority
      <3> QED
        BY <3>1, <3>2, <1>8, <1>11, <2>1
    <2>2. CASE p = 0
      <3>1. ahead = E(0) \cup E(1)
        BY <1>5, <1>6, <1>12, <2>2 DEF Priority
      <3> QED
        BY <3>1, <1>8, <1>9, <1>11, <2>2
    <2>3. CASE p = -1
      <3>1. ahead = E(-1) \cup (E(0) \cup E(1))
        BY <1>5, <1>6, <1>12, <2>3 DEF Priority
      <3> QED
        BY <3>1, <1>8, <1>10, <1>11, <2>3
    <2> QED
      BY <2>1, <2>2, <2>3 DEF Priority
  <1> QED
    BY <1>13 DEF ahead, new

\* An enqueue of the rings is one of the queue, with the same answer.
LEMMA RefineEnqueue ==
  ASSUME RingsInv, NEW p \in Priority, Enqueue(p)
  PROVE  Promise!Enqueue(p)
  <1>1. next \in 1 .. MaxEntries /\ next \in Nat
    BY RingAssumption DEF RingsInv, Enqueue
  <1>2. \A q \in Priority : rings'[q] = IF q = p THEN Appended(rings[p], next) ELSE rings[q]
    BY DEF Enqueue, RingsInv
  <1>3. Entries(rings'[p], p) = Entries(rings[p], p) \cup {[seq |-> next, prio |-> p]}
    BY <1>1, <1>2, EntriesAppended DEF RingsInv
  <1>4. \A q \in Priority \ {p} : Entries(rings'[q], q) = Entries(rings[q], q)
    BY <1>2
  <1>5. Queued' = Queued \cup {[seq |-> next, prio |-> p]}
    BY <1>3, <1>4, QueuedParts, QueuedPartsNext DEF Priority
  <1>6. reply' = Cardinality({f \in Queued : Promise!Before(f, [seq |-> next, prio |-> p])})
    BY AheadCounts DEF Enqueue
  <1>7. next <= MaxEntries /\ next' = next + 1
    BY DEF Enqueue
  <1> QED
    <2> DEFINE e == [seq |-> next, prio |-> p]
    <2>1. (UNION {QueuedIn(q) : q \in Priority})'
            = (UNION {QueuedIn(q) : q \in Priority}) \cup {e}
      BY <1>5 DEF Queued
    <2>2. reply' = Cardinality({f \in (UNION {QueuedIn(q) : q \in Priority}) :
                                  Promise!Before(f, e)})
      BY <1>6 DEF Queued
    <2> QED
      BY <2>1, <2>2, <1>7, SameCardinality DEF Promise!Enqueue

\* The head of the ring served comes before everything else that is queued.
LEMMA RefineDequeue ==
  ASSUME RingsInv, Dequeue
  PROVE  Promise!Dequeue
  <1>1. PICK p \in Priority :
          /\ Served(p) /\ rings' = [rings EXCEPT ![p] = Dequeued(rings[p])]
          /\ reply' = rings[p].entries[rings[p].head] /\ UNCHANGED next
    BY DEF Dequeue
  <1> DEFINE e == [seq |-> At(rings[p], 0), prio |-> p]
  <1>2. next \in Nat /\ \A q \in Priority : RingInv(rings[q], next)
    BY RingAssumption DEF RingsInv
  <1>3. PICK n \in Nat : n = rings[p].length /\ n > 0
    BY <1>1, <1>2, Fields DEF RingInv, Served
  <1>4. e \in Entries(rings[p], p)
    <2>1. 0 \in 0 .. n - 1
      BY <1>3
    <2> QED
      BY <2>1, <1>3 DEF Entries
  <1>5. \A q \in Priority : q > p => Entries(rings[q], q) = {}
    <2>1. \A q \in Priority : q > p => rings[q].length = 0
      BY <1>1 DEF Served
    <2> QED
      BY <2>1 DEF Entries
  <1>6. ASSUME NEW f \in Queued \ {e} PROVE Promise!Before(e, f)
    <2>1. PICK q \in Priority : f \in Entries(rings[q], q)
      BY <1>6, QueuedParts DEF Priority
    <2>2. ~(q > p)
      BY <2>1, <1>5
    <2>3. f.prio = q
      BY <2>1, <1>2, EntryFacts
    <2>4. CASE q = p
      <3>1. At(rings[p], 0) < f.seq
        BY <1>2, <1>6, <2>1, <2>4, EntryFacts
      <3> QED
        BY <3>1, <2>3, <2>4 DEF Promise!Before
    <2>5. CASE q # p
      <3>1. p > q
        BY <2>2, <2>5 DEF Priority
      <3> QED
        BY <3>1, <2>3 DEF Promise!Before
    <2> QED
      BY <2>4, <2>5
  <1>7. \A q \in Priority : rings'[q] = IF q = p THEN Dequeued(rings[p]) ELSE rings[q]
    BY <1>1 DEF RingsInv
  <1>8. Entries(rings'[p], p) = Entries(rings[p], p) \ {e}
    <2>1. rings[p].length > 0
      BY <1>3
    <2> QED
      BY <2>1, <1>2, <1>7, EntriesDequeued
  <1>9. ASSUME NEW q \in Priority, q # p
        PROVE  Entries(rings'[q], q) = Entries(rings[q], q) \ {e}
    <2>1. e \notin Entries(rings[q], q)
      BY <1>2, <1>9, EntryFacts
    <2> QED
      BY <2>1, <1>7, <1>9
  <1>10. \A q \in Priority : Entries(rings'[q], q) = Entries(rings[q], q) \ {e}
    BY <1>8, <1>9
  <1>11. Queued' = Queued \ {e}
    BY <1>10, QueuedParts, QueuedPartsNext DEF Priority
  <1>12. e \in Queued
    BY <1>4, QueuedParts DEF Priority
  <1>13. reply' = e.seq
    BY <1>1, <1>2, <1>3, HeadEntry
  <1> QED
    BY <1>1, <1>6, <1>11, <1>12, <1>13 DEF Promise!Dequeue, Queued

\* Rings that are all empty have nothing to hand out.
LEMMA RefineNothing ==
  ASSUME DequeueNothing
  PROVE  Promise!DequeueNothing
  <1>1. \A p \in Priority : Entries(rings[p], p) = {}
    BY DEF DequeueNothing, Entries
  <1>2. Queued = {}
    BY <1>1, QueuedParts DEF Priority
  <1>3. Queued' = Queued
    BY QueuedParts, QueuedPartsNext DEF DequeueNothing
  <1> QED
    BY <1>2, <1>3 DEF DequeueNothing, Promise!DequeueNothing, Promise!Nothing, Nothing, Queued

\* Every step of the rings is a step of the queue, or leaves it alone.
LEMMA RefineNext ==
  ASSUME RingsInv, [Next]_vars
  PROVE  [Promise!Next]_<<Queued, next, reply>>
  <1>1. ASSUME NEW p \in Priority, Enqueue(p) PROVE Promise!Next
    BY <1>1, RefineEnqueue DEF Promise!Next
  <1>2. CASE Dequeue
    BY <1>2, RefineDequeue DEF Promise!Next
  <1>3. CASE DequeueNothing
    BY <1>3, RefineNothing DEF Promise!Next
  <1>4. CASE UNCHANGED vars
    <2>1. rings' = rings /\ next' = next /\ reply' = reply
      BY <1>4 DEF vars
    <2>2. Queued' = Queued
      BY <2>1, QueuedParts, QueuedPartsNext
    <2> QED
      BY <2>1, <2>2
  <1> QED
    BY <1>1, <1>2, <1>3, <1>4 DEF Next

\* Whatever the wrapping, growing and shrinking, for every initial capacity: the
\* rings serve by priority and then by age, and tell each entry its place.
THEOREM RingsAreTheQueue == Spec => IsPriorityQueue
  <1>1. RingsInv /\ [Next]_vars
          => [Promise!Next]_<<UNION {QueuedIn(p) : p \in Priority}, next, reply>>
    BY RefineNext DEF Queued
  <1> QED
    BY RefineInit, RingsInvariant, <1>1, PTL DEF Spec, IsPriorityQueue, Promise!Spec

=============================================================================
