------------------------- MODULE CommandLanesProofs -------------------------
(***************************************************************************)
(* Theorems of CommandLanes for every set of lanes and groups, every       *)
(* publication and every bound, in three parts.                            *)
(*                                                                         *)
(* Types: the call stack and the state of the lanes.                       *)
(*                                                                         *)
(* Wakeups: a lane that could start something when the thread is back in   *)
(* its event loop does not exist.  The inductive invariant says that any   *)
(* lane that can start is covered by a drain that has begun and not        *)
(* returned, or by the lanes a commit pass has still to visit.             *)
(*                                                                         *)
(* Service: who is served, and when.  Slots belong to current tasks,       *)
(* entries of one lane start in order, a group starts the best head first, *)
(* budgets hold across publications, and reservations can be claimed.      *)
(***************************************************************************)
EXTENDS CommandLanes, SequenceTheorems, FiniteSetTheorems, TLAPS

-----------------------------------------------------------------------------
(* The call stack                                                          *)

\* What the top of a non-empty stack is and what popping it leaves.
LEMMA StackFacts ==
  ASSUME calls \in Seq(Frame), calls # <<>>
  PROVE  /\ Len(calls) \in Nat \ {0}
         /\ Top \in Frame
         /\ Pop \in Seq(Frame)
         /\ Len(Pop) = Len(calls) - 1
         /\ \A i \in 1..(Len(calls) - 1) : Pop[i] = calls[i]
  <1>1. Len(calls) \in Nat \ {0}
    BY EmptySeq
  <1>2. \A i \in 1..Len(calls) : calls[i] \in Frame
    BY ElementOfSeq
  <1>3. \A i \in 1..(Len(calls) - 1) : calls[i] \in Frame
    BY <1>1, <1>2
  <1>4. /\ Pop \in Seq(Frame)
        /\ Len(Pop) = IF 1 <= Len(calls) - 1 THEN Len(calls) - 1 - 1 + 1 ELSE 0
        /\ \A i \in 1..(Len(calls) - 1 - 1 + 1) : Pop[i] = calls[1 + i - 1]
    BY <1>1, <1>3, SubSeqProperties DEF Pop
  <1>5. ASSUME NEW i \in 1..(Len(calls) - 1) PROVE Pop[i] = calls[i]
    <2>1. i \in 1..(Len(calls) - 1 - 1 + 1) /\ 1 + i - 1 = i
      BY <1>1
    <2> QED
      BY <1>4, <2>1
  <1>6. Len(calls) \in 1..Len(calls)
    BY <1>1
  <1>7. Len(Pop) = Len(calls) - 1
    <2> DEFINE n == Len(calls)
    <2>1. n \in Nat /\ n >= 1
      BY <1>1
    <2>2. Len(Pop) = IF 1 <= n - 1 THEN n - 1 - 1 + 1 ELSE 0
      BY <1>4
    <2> HIDE DEF n
    <2>3. Len(Pop) = n - 1
      BY <2>1, <2>2
    <2> QED
      BY <2>3 DEF n
  <1>8. Top \in Frame
    BY <1>2, <1>6 DEF Top
  <1> QED
    BY <1>1, <1>4, <1>5, <1>7, <1>8

\* Replacing the top frame's callback flag keeps a stack of frames.
LEMMA TopWaiting ==
  ASSUME calls \in Seq(Frame), TopIs("lane"), NEW b \in BOOLEAN
  PROVE  /\ [Top EXCEPT !.waiting = b] \in LaneFrame
         /\ Append(Pop, [Top EXCEPT !.waiting = b]) \in Seq(Frame)
  <1>1. Top \in LaneFrame
    BY StackFacts DEF TopIs, Frame, GroupFrame
  <1>2. [Top EXCEPT !.waiting = b] \in LaneFrame
    BY <1>1 DEF LaneFrame
  <1> QED
    BY <1>2, StackFacts DEF TopIs, Frame

\* A drain call leaves well-typed guards and a well-typed stack.
LEMMA DrainReadyType ==
  ASSUME TypeOK, NEW l \in Lane, DrainReady(l)
  PROVE  /\ draining' \subseteq Lane
         /\ drainingGroups' \subseteq Group
         /\ calls' \in Seq(Frame)
  <1>1. groupOf[l] # NoGroup => groupOf[l] \in Group
    BY DEF TypeOK
  <1>2. [op |-> "lane", lane |-> l, single |-> FALSE, waiting |-> FALSE] \in Frame
    BY DEF Frame, LaneFrame
  <1>3. \A g \in Group : [op |-> "group", group |-> g] \in Frame
    BY DEF Frame, GroupFrame
  <1>4. draining \subseteq Lane /\ drainingGroups \subseteq Group /\ calls \in Seq(Frame)
    BY DEF TypeOK
  <1>5. \A f \in Frame : Append(calls, f) \in Seq(Frame)
    BY <1>4
  <1>6. CASE groupOf[l] # NoGroup /\ groupOf[l] \notin drainingGroups
    BY <1>1, <1>3, <1>4, <1>5, <1>6 DEF DrainReady, callVars
  <1>7. CASE groupOf[l] = NoGroup /\ l \notin draining
    BY <1>2, <1>4, <1>5, <1>7 DEF DrainReady, callVars
  <1>8. CASE IF groupOf[l] = NoGroup THEN l \in draining ELSE groupOf[l] \in drainingGroups
    BY <1>4, <1>8 DEF DrainReady, callVars
  <1> QED
    BY <1>6, <1>7, <1>8

-----------------------------------------------------------------------------
(* Type correctness                                                        *)

\* The gateway begins with typed lanes, none of which is in a group.
LEMMA InitType == Init => TypeOK
  <1> SUFFICES ASSUME Init PROVE TypeOK
    OBVIOUS
  <1>1. EmptySpec \in GroupSpec
    BY DEF EmptySpec, GroupSpec
  <1>2. \E l \in Lane : TRUE
    BY LaneAssumption
  <1>3. (CHOOSE l \in Lane : TRUE) \in Lane
    BY <1>2
  <1>4. calls \in Seq(Frame)
    BY EmptySeq DEF Init
  <1>5. nextSeq \in 1..(MaxEntries + 1)
    BY BoundsAssumption DEF Init
  <1>6. /\ status \in [Entry -> Status] /\ laneOf \in [Entry -> Lane]
        /\ prio \in [Entry -> Priority] /\ gen \in [Entry -> Nat]
    BY <1>3 DEF Init, Status, Priority
  <1>7. /\ active \in [Lane -> SUBSET Entry] /\ width \in [Lane -> Nat]
        /\ generation \in [Lane -> Nat] /\ groups \in [Group -> GroupSpec]
        /\ groupOf \in [Lane -> Group \cup {NoGroup}]
    BY <1>1, WidthAssumption DEF Init
  <1> QED
    BY <1>4, <1>5, <1>6, <1>7 DEF Init, TypeOK

\* A publication's registry is made of specifications.
LEMMA PublishType ==
  ASSUME TypeOK, NEW p \in Publications, Publish(p)
  PROVE  /\ width' \in [Lane -> Nat]
         /\ groups' \in [Group -> GroupSpec]
         /\ groupOf' \in [Lane -> Group \cup {NoGroup}]
         /\ todo' \subseteq Lane
  <1>1. p \in Publication
    BY PublicationAssumption
  <1>2. /\ p.lanes \subseteq Lane /\ p.widths \in [Lane -> Nat]
        /\ p.clear \subseteq Group /\ p.group \in Group \cup {NoGroup}
        /\ p.spec \in GroupSpec
    BY <1>1 DEF Publication
  <1>3. EmptySpec \in GroupSpec
    BY DEF EmptySpec, GroupSpec
  <1>4. ClearedGroups(p) \in [Group -> GroupSpec]
    BY <1>3 DEF ClearedGroups, TypeOK
  <1>5. ClearedOwner(p) \in [Lane -> Group \cup {NoGroup}]
    BY DEF ClearedOwner, TypeOK
  <1>6. width' \in [Lane -> Nat]
    BY <1>2 DEF Publish, Install, TypeOK
  <1>7. p.spec.members \subseteq Lane
    BY <1>2 DEF GroupSpec
  <1>8. \A g \in Group : groups[g].members \subseteq Lane
    BY DEF TypeOK, GroupSpec
  <1>9. \A g \in Group : ClearedGroups(p)[g].members \subseteq Lane
    BY <1>4 DEF GroupSpec
  <1>9a. todo' \subseteq Lane
    BY <1>2 DEF Publish, Install, Touched
  <1>10. CASE p.group = NoGroup
    BY <1>10, <1>4, <1>5, <1>6, <1>9a DEF Publish, Install
  <1>11. CASE p.group \in Group
    <2>0. p.group # NoGroup
      BY <1>11, LaneAssumption
    <2> DEFINE gs == ClearedGroups(p)
               own == ClearedOwner(p)
    <2>1. \A g \in Group : \A X \in SUBSET Lane :
             [gs[g] EXCEPT !.members = X] \in GroupSpec
      BY <1>4 DEF GroupSpec
    <2>2. \A g \in Group :
             {m \in gs[g].members : ~(m \in p.spec.members /\ own[m] = g)} \in SUBSET Lane
      BY <1>9
    <2>2a. \A g \in Group :
             [gs[g] EXCEPT !.members = {m \in @ : ~(m \in p.spec.members /\ own[m] = g)}]
               \in GroupSpec
      BY <2>1, <2>2, <1>4 DEF GroupSpec
    <2>3. InstalledGroups(p, gs, own) \in [Group -> GroupSpec]
      BY <2>2a, <1>2 DEF InstalledGroups
    <2>4. InstalledOwner(p, gs, own) \in [Lane -> Group \cup {NoGroup}]
      BY <1>5, <1>11 DEF InstalledOwner
    <2> QED
      BY <2>0, <1>6, <2>3, <2>4, <1>9a DEF Publish, Install
  <1> QED
    BY <1>2, <1>10, <1>11

\* Every handler of the lanes leaves their state typed.
LEMMA NextType == TypeOK /\ [Next]_vars => TypeOK'
  <1> SUFFICES ASSUME TypeOK, [Next]_vars PROVE TypeOK'
    OBVIOUS
  <1> USE DEF entryVars, configVars, callVars
  <1>1. ASSUME NEW l \in Lane, NEW e \in Entry, LaneStart(l, e) PROVE TypeOK'
    BY <1>1, TopWaiting DEF LaneStart, Admit, TypeOK, Status
  <1>2. ASSUME CallbackReturn PROVE TypeOK'
    BY <1>2, TopWaiting DEF CallbackReturn, InCallback, TypeOK
  <1>3. ASSUME NEW l \in Lane, LaneReturn(l) PROVE TypeOK'
    BY <1>3, StackFacts DEF LaneReturn, TopIs, TypeOK
  <1>4. ASSUME NEW g \in Group, NEW l \in Lane, NEW e \in Entry, GroupStart(g, l, e)
        PROVE  TypeOK'
    <2>1. [op |-> "lane", lane |-> l, single |-> TRUE, waiting |-> TRUE] \in Frame
      BY DEF Frame, LaneFrame
    <2> QED
      BY <1>4, <2>1 DEF GroupStart, Admit, TypeOK, Status
  <1>5. ASSUME NEW g \in Group, GroupReturn(g) PROVE TypeOK'
    BY <1>5, StackFacts DEF GroupReturn, TopIs, TypeOK
  <1>6. ASSUME NEW l \in Lane, DrainNext(l) PROVE TypeOK'
    BY <1>6, DrainReadyType DEF DrainNext, TypeOK
  <1>7. ASSUME NEW l \in Lane, NEW p \in Priorities, Enqueue(l, p) PROVE TypeOK'
    <2>1. nextSeq \in Entry
      BY <1>7, BoundsAssumption DEF Enqueue, Entry, TypeOK
    <2>2. p \in Priority
      BY BoundsAssumption
    <2>3. /\ draining' \subseteq Lane /\ drainingGroups' \subseteq Group
          /\ calls' \in Seq(Frame)
      BY <1>7, DrainReadyType DEF Enqueue
    <2>4. nextSeq' \in 1..(MaxEntries + 1)
      BY <1>7, BoundsAssumption DEF Enqueue, TypeOK
    <2> QED
      BY <1>7, <2>1, <2>2, <2>3, <2>4 DEF Enqueue, TypeOK, Status
  <1>8. ASSUME NEW e \in Entry, Complete(e)
        PROVE  /\ active' \in [Lane -> SUBSET Entry]
               /\ draining' \subseteq Lane /\ drainingGroups' \subseteq Group
               /\ calls' \in Seq(Frame)
    <2>1. laneOf[e] \in Lane
      BY DEF TypeOK
    <2>2. CASE gen[e] = generation[laneOf[e]]
      <3>1. DrainReady(laneOf[e]) /\ active' = [active EXCEPT ![laneOf[e]] = @ \ {e}]
        BY <1>8, <2>2 DEF Complete
      <3>2. active' \in [Lane -> SUBSET Entry]
        BY <2>1, <3>1 DEF TypeOK
      <3> QED
        BY <2>1, <3>1, <3>2, DrainReadyType
    <2>3. CASE gen[e] # generation[laneOf[e]]
      BY <1>8, <2>3 DEF Complete, TypeOK
    <2> QED
      BY <2>2, <2>3
  <1>9. ASSUME NEW e \in Entry, TaskFinish(e) PROVE TypeOK'
    BY <1>8, <1>9 DEF TaskFinish, TypeOK, Status
  <1>10. ASSUME NEW e \in Entry, TaskTimeout(e) PROVE TypeOK'
    BY <1>8, <1>10 DEF TaskTimeout, TypeOK, Status
  <1>11. ASSUME NEW e \in Entry, OrphanEnd(e) PROVE TypeOK'
    BY <1>11 DEF OrphanEnd, TypeOK, Status
  <1>12. ASSUME NEW l \in Lane, ClearLane(l) PROVE TypeOK'
    BY <1>12 DEF ClearLane, TypeOK, Status
  <1>13. ASSUME NEW l \in Lane, ResetLane(l) PROVE TypeOK'
    BY <1>13, DrainReadyType DEF ResetLane, TypeOK
  <1>14. ASSUME ResetAllLanes PROVE TypeOK'
    <2>1. active' \in [Lane -> SUBSET Entry]
      BY <1>14 DEF ResetAllLanes
    <2>2. generation' \in [Lane -> Nat]
      BY <1>14 DEF ResetAllLanes, TypeOK
    <2>3. todo' \subseteq Lane /\ closed' \in BOOLEAN
      BY <1>14 DEF ResetAllLanes
    <2> QED
      BY <1>14, <2>1, <2>2, <2>3 DEF ResetAllLanes, TypeOK
  <1>15. ASSUME NEW l \in Lane, NEW w \in Widths, SetConcurrency(l, w) PROVE TypeOK'
    BY <1>15, DrainReadyType, WidthAssumption DEF SetConcurrency, TypeOK
  <1>16. ASSUME NEW p \in Publications, Publish(p) PROVE TypeOK'
    BY <1>16, PublishType DEF Publish, Install, CoveredBy, TypeOK
  <1>17. ASSUME CloseAdmission \/ ReopenAdmission PROVE TypeOK'
    BY <1>17 DEF CloseAdmission, ReopenAdmission, TypeOK
  <1>18. ASSUME UNCHANGED vars PROVE TypeOK'
    BY <1>18 DEF vars, TypeOK
  <1> QED
    BY <1>1, <1>2, <1>3, <1>4, <1>5, <1>6, <1>7, <1>9, <1>10, <1>11, <1>12, <1>13,
       <1>14, <1>15, <1>16, <1>17, <1>18 DEF Next, RunToCompletion, Handler

\* Every reachable state of the queue is well typed, whatever the lanes, the
\* groups, the publications and the bounds.
THEOREM TypeCorrect == Spec => []TypeOK
  BY InitType, NextType, PTL DEF Spec

-----------------------------------------------------------------------------
(* The inductive invariant of the wakeups                                  *)

\* Each frame on the stack has its guard set, and each guard its frame.
GuardsOnStack ==
  /\ \A i \in 1..Len(calls) : calls[i].op = "lane" => calls[i].lane \in draining
  /\ \A i \in 1..Len(calls) : calls[i].op = "group" => calls[i].group \in drainingGroups
  /\ \A l \in draining :
        \E i \in 1..Len(calls) : calls[i].op = "lane" /\ calls[i].lane = l
  /\ \A g \in drainingGroups :
        \E i \in 1..Len(calls) : calls[i].op = "group" /\ calls[i].group = g

\* A guard admits one drain: no lane and no group is on the stack twice.
DrainsOnce ==
  \A i, j \in 1..Len(calls) :
    \/ calls[i].op = "lane" /\ calls[j].op = "lane" /\ calls[i].lane = calls[j].lane
    \/ calls[i].op = "group" /\ calls[j].op = "group" /\ calls[i].group = calls[j].group
    => i = j

\* An unbounded lane drain belongs to an ungrouped lane; a bounded one was
\* called by the drain of the lane's group.
FrameOwner ==
  \A i \in 1..Len(calls) : calls[i].op = "lane" =>
    IF calls[i].single
    THEN /\ groupOf[calls[i].lane] # NoGroup
         /\ i > 1 /\ calls[i - 1].op = "group"
         /\ calls[i - 1].group = groupOf[calls[i].lane]
    ELSE groupOf[calls[i].lane] = NoGroup

Covered(l) == \/ l \in todo
              \/ groupOf[l] = NoGroup /\ l \in draining
              \/ groupOf[l] # NoGroup /\ groupOf[l] \in drainingGroups

StartableIsCovered == \A l \in Lane : Startable(l) => Covered(l)

StackInv == GuardsOnStack /\ DrainsOnce /\ FrameOwner
WakeupInv == TypeOK /\ RegistryConsistent /\ StackInv /\ StartableIsCovered

-----------------------------------------------------------------------------
(* Capacity seen by one lane                                               *)

\* Every lane's slot count is a number.
LEMMA CountNat ==
  ASSUME TypeOK, NEW l \in Lane
  PROVE  ActiveCount(l) \in Nat
  <1>1. IsFiniteSet(Entry)
    BY BoundsAssumption, FS_Interval DEF Entry
  <1>2. active[l] \subseteq Entry
    BY DEF TypeOK
  <1> QED
    BY <1>1, <1>2, FS_Subset, FS_CardinalityType DEF ActiveCount

\* A lane whose width, owner and group are untouched, and whose group's tasks
\* are untouched, is as blocked as it was.
LEMMA SameBlock ==
  ASSUME TypeOK, RegistryConsistent, NEW m \in Lane,
         width'[m] = width[m], groupOf'[m] = groupOf[m], active'[m] = active[m],
         groupOf[m] # NoGroup => groups'[groupOf[m]] = groups[groupOf[m]],
         \A n \in Lane : groupOf[m] # NoGroup /\ groupOf[n] = groupOf[m]
                            => active'[n] = active[n]
  PROVE  BlockReason(m)' = BlockReason(m)
  <1>1. ActiveCount(m)' = ActiveCount(m)
    BY DEF ActiveCount
  <1>2. CASE groupOf[m] = NoGroup
    BY <1>1, <1>2 DEF BlockReason
  <1>3. CASE groupOf[m] # NoGroup
    <2>0. PICK g \in Group : g = groupOf[m]
      BY <1>3 DEF TypeOK
    <2>1. groups'[g] = groups[g] /\ groupOf'[m] = g
      BY <1>3, <2>0
    <2>2. \A n \in groups[g].members : n \in Lane /\ active'[n] = active[n]
      BY <1>3, <2>0 DEF RegistryConsistent, TypeOK, GroupSpec
    <2>3. GroupActive(g)' = GroupActive(g)
      <3>1. {e \in Entry : \E n \in groups[g].members : e \in active[n]}
              = {e \in Entry : \E n \in groups'[g].members : e \in active'[n]}
        BY <2>1, <2>2
      <3> QED
        BY <3>1 DEF GroupActive
    <2>4. \A n \in groups[g].members : ActiveCount(n)' = ActiveCount(n)
      BY <2>2 DEF ActiveCount
    <2>5. UnfilledExcept(g, m)' = UnfilledExcept(g, m)
      <3>1. \A r \in (groups[g].members \ {m}) \X (1..groups[g].budget) :
               ActiveCount(r[1])' = ActiveCount(r[1])
        BY <2>4
      <3> QED
        BY <2>1, <3>1 DEF UnfilledExcept
    <2> QED
      BY <1>1, <1>3, <2>0, <2>1, <2>3, <2>5 DEF BlockReason
  <1> QED
    BY <1>2, <1>3

-----------------------------------------------------------------------------
(* The stack under each kind of step                                       *)

\* A drain that is called becomes the last frame of the stack and leaves the frames
\* below it as they are.
LEMMA PushFacts ==
  ASSUME calls \in Seq(Frame), NEW f \in Frame, calls' = Append(calls, f)
  PROVE  /\ Len(calls) \in Nat
         /\ Len(calls') = Len(calls) + 1
         /\ calls'[Len(calls) + 1] = f
         /\ \A i \in 1..Len(calls) : calls'[i] = calls[i]
  <1>1. Len(calls) \in Nat
    BY LenProperties
  <1> QED
    BY <1>1

\* Pushing the drain of a lane whose guard was free keeps the stack sound.
LEMMA PushLane ==
  ASSUME TypeOK, StackInv, NEW l \in Lane, NEW b \in BOOLEAN, NEW w \in BOOLEAN,
         l \notin draining, groupOf' = groupOf, drainingGroups' = drainingGroups,
         draining' = draining \cup {l},
         calls' = Append(calls, [op |-> "lane", lane |-> l, single |-> b, waiting |-> w]),
         IF b THEN /\ groupOf[l] # NoGroup
                   /\ TopIs("group") /\ Top.group = groupOf[l]
              ELSE groupOf[l] = NoGroup
  PROVE  StackInv'
  <1> DEFINE f == [op |-> "lane", lane |-> l, single |-> b, waiting |-> w]
             n == Len(calls)
  <1>1. f \in Frame /\ calls \in Seq(Frame)
    BY DEF Frame, LaneFrame, TypeOK
  <1>2. f.op = "lane" /\ f.lane = l /\ f.single = b
    OBVIOUS
  <1> HIDE DEF f
  <1>3. /\ n \in Nat /\ Len(calls') = n + 1 /\ calls'[n + 1] = f
        /\ \A i \in 1..n : calls'[i] = calls[i]
    BY <1>1, PushFacts DEF f
  <1>4. \A i \in 1..n : ~(calls[i].op = "lane" /\ calls[i].lane = l)
    BY DEF StackInv, GuardsOnStack
  <1>5. b => n >= 1 /\ calls[n].op = "group" /\ calls[n].group = groupOf[l]
    <2>1. calls # <<>> => n >= 1
      BY <1>1, StackFacts
    <2> QED
      BY <2>1 DEF TopIs, Top
  <1> HIDE DEF n
  <1>6. GuardsOnStack'
    BY <1>2, <1>3 DEF StackInv, GuardsOnStack
  <1>7. DrainsOnce'
    BY <1>2, <1>3, <1>4 DEF StackInv, DrainsOnce
  <1>8. FrameOwner'
    <2> SUFFICES ASSUME NEW i \in 1..(n + 1), calls'[i].op = "lane"
                 PROVE  IF calls'[i].single
                        THEN /\ groupOf[calls'[i].lane] # NoGroup
                             /\ i > 1 /\ calls'[i - 1].op = "group"
                             /\ calls'[i - 1].group = groupOf[calls'[i].lane]
                        ELSE groupOf[calls'[i].lane] = NoGroup
      BY <1>3 DEF FrameOwner
    <2>1. CASE i = n + 1
      BY <1>2, <1>3, <1>5, <2>1
    <2>2. CASE i \in 1..n
      <3>1. calls'[i] = calls[i] /\ (i > 1 => calls'[i - 1] = calls[i - 1])
        BY <1>3, <2>2
      <3> QED
        BY <2>2, <3>1 DEF StackInv, FrameOwner, n
    <2> QED
      BY <1>3, <2>1, <2>2
  <1> QED
    BY <1>6, <1>7, <1>8 DEF StackInv

\* So does pushing the drain of a group.
LEMMA PushGroup ==
  ASSUME TypeOK, StackInv, NEW g \in Group, g \notin drainingGroups,
         groupOf' = groupOf, draining' = draining,
         drainingGroups' = drainingGroups \cup {g},
         calls' = Append(calls, [op |-> "group", group |-> g])
  PROVE  StackInv'
  <1> DEFINE f == [op |-> "group", group |-> g]
             n == Len(calls)
  <1>1. f \in Frame /\ calls \in Seq(Frame)
    BY DEF Frame, GroupFrame, TypeOK
  <1>2. f.op = "group" /\ f.group = g
    OBVIOUS
  <1> HIDE DEF f
  <1>3. /\ n \in Nat /\ Len(calls') = n + 1 /\ calls'[n + 1] = f
        /\ \A i \in 1..n : calls'[i] = calls[i]
    BY <1>1, PushFacts DEF f
  <1>4. \A i \in 1..n : ~(calls[i].op = "group" /\ calls[i].group = g)
    BY DEF StackInv, GuardsOnStack
  <1> HIDE DEF n
  <1>6. GuardsOnStack'
    BY <1>2, <1>3 DEF StackInv, GuardsOnStack, n
  <1>7. DrainsOnce'
    BY <1>2, <1>3, <1>4 DEF StackInv, DrainsOnce, n
  <1>8. FrameOwner'
    <2> SUFFICES ASSUME NEW i \in 1..(n + 1), calls'[i].op = "lane"
                 PROVE  IF calls'[i].single
                        THEN /\ groupOf[calls'[i].lane] # NoGroup
                             /\ i > 1 /\ calls'[i - 1].op = "group"
                             /\ calls'[i - 1].group = groupOf[calls'[i].lane]
                        ELSE groupOf[calls'[i].lane] = NoGroup
      BY <1>3 DEF FrameOwner
    <2>1. i # n + 1 /\ i \in 1..n
      BY <1>2, <1>3
    <2>2. calls'[i] = calls[i] /\ (i > 1 => calls'[i - 1] = calls[i - 1])
      BY <1>3, <2>1
    <2> QED
      BY <2>1, <2>2 DEF StackInv, FrameOwner, n
  <1> QED
    BY <1>6, <1>7, <1>8 DEF StackInv

\* A drain call leaves its lane covered and what was covered covered.
LEMMA DrainReadyStack ==
  ASSUME TypeOK, StackInv, NEW l \in Lane, DrainReady(l), groupOf' = groupOf
  PROVE  /\ StackInv'
         /\ groupOf[l] = NoGroup => l \in draining'
         /\ groupOf[l] # NoGroup => groupOf[l] \in drainingGroups'
         /\ draining \subseteq draining' /\ drainingGroups \subseteq drainingGroups'
  <1>1. CASE /\ groupOf[l] # NoGroup /\ groupOf[l] \notin drainingGroups
             /\ drainingGroups' = drainingGroups \cup {groupOf[l]}
             /\ calls' = Append(calls, [op |-> "group", group |-> groupOf[l]])
             /\ UNCHANGED draining
    <2>1. groupOf[l] \in Group
      BY <1>1 DEF TypeOK
    <2>2. StackInv'
      BY <1>1, <2>1, PushGroup
    <2> QED
      BY <1>1, <2>2
  <1>2. CASE /\ groupOf[l] = NoGroup /\ l \notin draining
             /\ draining' = draining \cup {l}
             /\ calls' = Append(calls, [op |-> "lane", lane |-> l,
                                        single |-> FALSE, waiting |-> FALSE])
             /\ UNCHANGED drainingGroups
    <2>1. StackInv'
      BY <1>2, PushLane
    <2> QED
      BY <1>2, <2>1
  <1>3. CASE /\ IF groupOf[l] = NoGroup THEN l \in draining ELSE groupOf[l] \in drainingGroups
             /\ UNCHANGED callVars
    BY <1>3 DEF callVars, StackInv, GuardsOnStack, DrainsOnce, FrameOwner
  <1> QED
    BY <1>1, <1>2, <1>3 DEF DrainReady

\* Popping the drain of a lane, once its guard is released.
LEMMA PopLane ==
  ASSUME TypeOK, StackInv, NEW l \in Lane, TopIs("lane"), Top.lane = l,
         calls' = Pop, draining' = draining \ {l},
         drainingGroups' = drainingGroups, groupOf' = groupOf
  PROVE  StackInv'
  <1> DEFINE n == Len(calls)
  <1>1. calls \in Seq(Frame) /\ calls # <<>> /\ calls[n].op = "lane" /\ calls[n].lane = l
    BY DEF TypeOK, TopIs, Top
  <1>2. /\ n \in Nat \ {0} /\ Len(calls') = n - 1
        /\ \A i \in 1..(n - 1) : calls'[i] = calls[i]
    BY <1>1, StackFacts
  <1> HIDE DEF n
  <1>3. \A i \in 1..(n - 1) : ~(calls[i].op = "lane" /\ calls[i].lane = l)
    BY <1>1, <1>2 DEF StackInv, DrainsOnce, n
  <1>4. GuardsOnStack'
    <2>1. \A i \in 1..(n - 1) : calls[i].op = "lane" => calls[i].lane \in draining'
      BY <1>2, <1>3 DEF StackInv, GuardsOnStack, n
    <2>2. \A m \in draining' :
             \E i \in 1..(n - 1) : calls'[i].op = "lane" /\ calls'[i].lane = m
      <3> SUFFICES ASSUME NEW m \in draining, m # l
                   PROVE \E i \in 1..(n - 1) : calls'[i].op = "lane" /\ calls'[i].lane = m
        OBVIOUS
      <3>1. PICK i \in 1..n : calls[i].op = "lane" /\ calls[i].lane = m
        BY DEF StackInv, GuardsOnStack, n
      <3>2. i \in 1..(n - 1)
        BY <1>1, <1>2, <3>1
      <3> QED
        BY <1>2, <3>1, <3>2
    <2>3. \A g \in drainingGroups :
             \E i \in 1..(n - 1) : calls'[i].op = "group" /\ calls'[i].group = g
      <3> SUFFICES ASSUME NEW g \in drainingGroups
                   PROVE \E i \in 1..(n - 1) : calls'[i].op = "group" /\ calls'[i].group = g
        OBVIOUS
      <3>1. PICK i \in 1..n : calls[i].op = "group" /\ calls[i].group = g
        BY DEF StackInv, GuardsOnStack, n
      <3>2. i \in 1..(n - 1)
        BY <1>1, <1>2, <3>1
      <3> QED
        BY <1>2, <3>1, <3>2
    <2>4. \A i \in 1..(n - 1) : calls[i].op = "group" => calls[i].group \in drainingGroups
      BY <1>2 DEF StackInv, GuardsOnStack, n
    <2> QED
      BY <1>2, <2>1, <2>2, <2>3, <2>4 DEF GuardsOnStack
  <1>5. DrainsOnce'
    BY <1>2 DEF StackInv, DrainsOnce, n
  <1>6. FrameOwner'
    <2> SUFFICES ASSUME NEW i \in 1..(n - 1), calls'[i].op = "lane"
                 PROVE  IF calls'[i].single
                        THEN /\ groupOf[calls'[i].lane] # NoGroup
                             /\ i > 1 /\ calls'[i - 1].op = "group"
                             /\ calls'[i - 1].group = groupOf[calls'[i].lane]
                        ELSE groupOf[calls'[i].lane] = NoGroup
      BY <1>2 DEF FrameOwner
    <2>1. i \in 1..n /\ calls'[i] = calls[i] /\ (i > 1 => calls'[i - 1] = calls[i - 1])
      BY <1>2
    <2> QED
      BY <2>1 DEF StackInv, FrameOwner, n
  <1> QED
    BY <1>4, <1>5, <1>6 DEF StackInv

\* Popping the drain of a group, once its guard is released.
LEMMA PopGroup ==
  ASSUME TypeOK, StackInv, NEW g \in Group, TopIs("group"), Top.group = g,
         calls' = Pop, drainingGroups' = drainingGroups \ {g},
         draining' = draining, groupOf' = groupOf
  PROVE  StackInv'
  <1> DEFINE n == Len(calls)
  <1>1. calls \in Seq(Frame) /\ calls # <<>> /\ calls[n].op = "group" /\ calls[n].group = g
    BY DEF TypeOK, TopIs, Top
  <1>2. /\ n \in Nat \ {0} /\ Len(calls') = n - 1
        /\ \A i \in 1..(n - 1) : calls'[i] = calls[i]
    BY <1>1, StackFacts
  <1> HIDE DEF n
  <1>3. \A i \in 1..(n - 1) : ~(calls[i].op = "group" /\ calls[i].group = g)
    BY <1>1, <1>2 DEF StackInv, DrainsOnce, n
  <1>4. GuardsOnStack'
    <2>1. \A i \in 1..(n - 1) : calls[i].op = "group" => calls[i].group \in drainingGroups'
      BY <1>2, <1>3 DEF StackInv, GuardsOnStack, n
    <2>2. \A h \in drainingGroups' :
             \E i \in 1..(n - 1) : calls'[i].op = "group" /\ calls'[i].group = h
      <3> SUFFICES ASSUME NEW h \in drainingGroups, h # g
                   PROVE \E i \in 1..(n - 1) : calls'[i].op = "group" /\ calls'[i].group = h
        OBVIOUS
      <3>1. PICK i \in 1..n : calls[i].op = "group" /\ calls[i].group = h
        BY DEF StackInv, GuardsOnStack, n
      <3>2. i \in 1..(n - 1)
        BY <1>1, <1>2, <3>1
      <3> QED
        BY <1>2, <3>1, <3>2
    <2>3. \A m \in draining :
             \E i \in 1..(n - 1) : calls'[i].op = "lane" /\ calls'[i].lane = m
      <3> SUFFICES ASSUME NEW m \in draining
                   PROVE \E i \in 1..(n - 1) : calls'[i].op = "lane" /\ calls'[i].lane = m
        OBVIOUS
      <3>1. PICK i \in 1..n : calls[i].op = "lane" /\ calls[i].lane = m
        BY DEF StackInv, GuardsOnStack, n
      <3>2. i \in 1..(n - 1)
        BY <1>1, <1>2, <3>1
      <3> QED
        BY <1>2, <3>1, <3>2
    <2>4. \A i \in 1..(n - 1) : calls[i].op = "lane" => calls[i].lane \in draining
      BY <1>2 DEF StackInv, GuardsOnStack, n
    <2> QED
      BY <1>2, <2>1, <2>2, <2>3, <2>4 DEF GuardsOnStack
  <1>5. DrainsOnce'
    <2> SUFFICES ASSUME NEW i \in 1..(n - 1), NEW j \in 1..(n - 1),
                        \/ /\ calls'[i].op = "lane" /\ calls'[j].op = "lane"
                           /\ calls'[i].lane = calls'[j].lane
                        \/ /\ calls'[i].op = "group" /\ calls'[j].op = "group"
                           /\ calls'[i].group = calls'[j].group
                 PROVE  i = j
      BY <1>2 DEF DrainsOnce
    <2>1. /\ i \in 1..n /\ calls'[i] = calls[i]
          /\ j \in 1..n /\ calls'[j] = calls[j]
      BY <1>2
    <2> QED
      BY <2>1 DEF StackInv, DrainsOnce, n
  <1>6. FrameOwner'
    <2> SUFFICES ASSUME NEW i \in 1..(n - 1), calls'[i].op = "lane"
                 PROVE  IF calls'[i].single
                        THEN /\ groupOf[calls'[i].lane] # NoGroup
                             /\ i > 1 /\ calls'[i - 1].op = "group"
                             /\ calls'[i - 1].group = groupOf[calls'[i].lane]
                        ELSE groupOf[calls'[i].lane] = NoGroup
      BY <1>2 DEF FrameOwner
    <2>1. i \in 1..n /\ calls'[i] = calls[i] /\ (i > 1 => calls'[i - 1] = calls[i - 1])
      BY <1>2
    <2> QED
      BY <2>1 DEF StackInv, FrameOwner, n
  <1> QED
    BY <1>4, <1>5, <1>6 DEF StackInv

\* Entering or leaving the callback changes no owner and no guard.
LEMMA WaitingStack ==
  ASSUME TypeOK, StackInv, TopIs("lane"), NEW b \in BOOLEAN,
         calls' = Append(Pop, [Top EXCEPT !.waiting = b]),
         draining' = draining, drainingGroups' = drainingGroups, groupOf' = groupOf
  PROVE  StackInv'
  <1> DEFINE n == Len(calls)
             f == [Top EXCEPT !.waiting = b]
  <1>1. calls \in Seq(Frame) /\ calls # <<>>
    BY DEF TypeOK, TopIs
  <1>2. /\ n \in Nat \ {0} /\ Pop \in Seq(Frame) /\ Len(Pop) = n - 1
        /\ \A i \in 1..(n - 1) : Pop[i] = calls[i]
    BY <1>1, StackFacts
  <1>3. Top \in LaneFrame /\ Top = calls[n]
    BY <1>1, StackFacts DEF TopIs, Top, Frame, GroupFrame
  <1>4. f.op = calls[n].op /\ f.lane = calls[n].lane /\ f.single = calls[n].single
    BY <1>3 DEF LaneFrame
  <1> HIDE DEF n, f
  <1>5. /\ Len(calls') = n /\ calls'[n] = f
        /\ \A i \in 1..(n - 1) : calls'[i] = calls[i]
    BY <1>2 DEF f
  <1>6. calls[n].op = "lane"
    BY <1>3 DEF LaneFrame
  <1>7. \A i \in 1..n : /\ calls'[i].op = calls[i].op
                        /\ calls[i].op = "lane" => /\ calls'[i].lane = calls[i].lane
                                                   /\ calls'[i].single = calls[i].single
                        /\ calls[i].op = "group" => calls'[i].group = calls[i].group
    <2> SUFFICES ASSUME NEW i \in 1..n
                 PROVE  /\ calls'[i].op = calls[i].op
                        /\ calls[i].op = "lane" => /\ calls'[i].lane = calls[i].lane
                                                   /\ calls'[i].single = calls[i].single
                        /\ calls[i].op = "group" => calls'[i].group = calls[i].group
      OBVIOUS
    <2>1. CASE i = n
      BY <1>4, <1>5, <1>6, <2>1
    <2>2. CASE i \in 1..(n - 1)
      BY <1>5, <2>2
    <2> QED
      BY <1>2, <2>1, <2>2
  <1>8. GuardsOnStack'
    BY <1>5, <1>7 DEF StackInv, GuardsOnStack, n
  <1>9. DrainsOnce'
    BY <1>5, <1>7 DEF StackInv, DrainsOnce, n
  <1>10. FrameOwner'
    <2> SUFFICES ASSUME NEW i \in 1..n, calls'[i].op = "lane"
                 PROVE  IF calls'[i].single
                        THEN /\ groupOf[calls'[i].lane] # NoGroup
                             /\ i > 1 /\ calls'[i - 1].op = "group"
                             /\ calls'[i - 1].group = groupOf[calls'[i].lane]
                        ELSE groupOf[calls'[i].lane] = NoGroup
      BY <1>5 DEF FrameOwner
    <2>1. /\ calls[i].op = "lane" /\ calls'[i].lane = calls[i].lane
          /\ calls'[i].single = calls[i].single
      BY <1>7
    <2>2. i > 1 => calls'[i - 1] = calls[i - 1]
      BY <1>2, <1>5
    <2> QED
      BY <2>1, <2>2 DEF StackInv, FrameOwner, n
  <1> QED
    BY <1>8, <1>9, <1>10 DEF StackInv

-----------------------------------------------------------------------------
(* Publications                                                            *)

\* A publication keeps the registry's maps in agreement, and a lane it does not
\* touch keeps its width, its owner and its owner's definition.
LEMMA PublishRegistry ==
  ASSUME TypeOK, RegistryConsistent, NEW p \in Publications, Publish(p)
  PROVE  /\ RegistryConsistent'
         /\ \A m \in Lane \ Touched(p) :
               /\ width'[m] = width[m] /\ groupOf'[m] = groupOf[m]
               /\ groupOf[m] # NoGroup => groups'[groupOf[m]] = groups[groupOf[m]]
  <1> DEFINE gs == ClearedGroups(p)
             own == ClearedOwner(p)
  <1>1. p \in Publication
    BY PublicationAssumption
  <1>2. /\ p.lanes \subseteq Lane /\ p.clear \subseteq Group
        /\ p.group \in Group \cup {NoGroup} /\ p.spec \in GroupSpec
    BY <1>1 DEF Publication
  <1>3. \A l \in Lane, g \in Group : own[l] = g <=> l \in gs[g].members
    <2> SUFFICES ASSUME NEW l \in Lane, NEW g \in Group
                 PROVE  own[l] = g <=> l \in gs[g].members
      OBVIOUS
    <2>1. EmptySpec.members = {}
      BY DEF EmptySpec
    <2>2. g # NoGroup
      BY LaneAssumption
    <2>3. gs[g] = IF g \in p.clear THEN EmptySpec ELSE groups[g]
      BY DEF ClearedGroups
    <2>4. own[l] = IF \E h \in p.clear : l \in groups[h].members THEN NoGroup ELSE groupOf[l]
      BY DEF ClearedOwner
    <2>5. \A h \in Group : groupOf[l] = h <=> l \in groups[h].members
      BY DEF RegistryConsistent
    <2> HIDE DEF gs, own
    <2> QED
      BY <1>2, <2>1, <2>2, <2>3, <2>4, <2>5
  <1>4. /\ gs \in [Group -> GroupSpec] /\ own \in [Lane -> Group \cup {NoGroup}]
    <2>1. EmptySpec \in GroupSpec
      BY DEF EmptySpec, GroupSpec
    <2> QED
      BY <2>1 DEF ClearedGroups, ClearedOwner, TypeOK
  <1>5. \A m \in Lane : m \notin p.lanes => width'[m] = width[m]
    BY DEF Publish, Install
  <1>6. \A m \in Lane \ Touched(p) :
           /\ m \notin p.lanes
           /\ \A g \in p.clear : m \notin groups[g].members
    BY DEF Touched
  <1>7. \A m \in Lane \ Touched(p) :
           /\ own[m] = groupOf[m]
           /\ groupOf[m] # NoGroup => gs[groupOf[m]] = groups[groupOf[m]]
    <2> SUFFICES ASSUME NEW m \in Lane \ Touched(p)
                 PROVE  /\ own[m] = groupOf[m]
                        /\ groupOf[m] # NoGroup => gs[groupOf[m]] = groups[groupOf[m]]
      OBVIOUS
    <2>1. \A g \in p.clear : m \notin groups[g].members
      BY <1>6
    <2>2. own[m] = groupOf[m]
      BY <2>1 DEF ClearedOwner
    <2>3. ASSUME groupOf[m] # NoGroup PROVE gs[groupOf[m]] = groups[groupOf[m]]
      <3>1. groupOf[m] \in Group
        BY <2>3 DEF TypeOK
      <3>2. m \in groups[groupOf[m]].members
        BY <3>1 DEF RegistryConsistent
      <3> QED
        BY <2>1, <3>1, <3>2 DEF ClearedGroups
    <2> QED
      BY <2>2, <2>3
  <1>8. CASE p.group = NoGroup
    <2>1. groups' = gs /\ groupOf' = own
      BY <1>8 DEF Publish, Install
    <2> HIDE DEF gs, own
    <2>2. RegistryConsistent'
      BY <1>3, <2>1 DEF RegistryConsistent
    <2> QED
      BY <1>5, <1>6, <1>7, <2>1, <2>2
  <1>9. CASE p.group \in Group
    <2>0. p.group # NoGroup
      BY <1>9, LaneAssumption
    <2>1. groups' = InstalledGroups(p, gs, own) /\ groupOf' = InstalledOwner(p, gs, own)
      BY <2>0 DEF Publish, Install
    <2>2. \A m \in Lane \ Touched(p) :
             /\ m \notin gs[p.group].members /\ m \notin p.spec.members
             /\ \A k \in p.spec.members : own[k] # NoGroup => m \notin gs[own[k]].members
      BY <2>0 DEF Touched, Regrouped, LeftBehind
    <2> HIDE DEF gs, own
    <2>3. \A g \in Group : g # p.group =>
             groups'[g] = [gs[g] EXCEPT !.members =
                             {m \in @ : ~(m \in p.spec.members /\ own[m] = g)}]
      BY <2>1 DEF InstalledGroups
    <2>4. groups'[p.group] = p.spec
      BY <1>9, <2>1 DEF InstalledGroups
    <2>5. \A g \in Group : g # p.group =>
             /\ groups'[g].members = {m \in gs[g].members : ~(m \in p.spec.members /\ own[m] = g)}
             /\ groups'[g].budget = gs[g].budget /\ groups'[g].reserve = gs[g].reserve
      <3>1. ASSUME NEW r \in GroupSpec, NEW ms
            PROVE  LET e == [r EXCEPT !.members = ms]
                   IN  e.members = ms /\ e.budget = r.budget /\ e.reserve = r.reserve
        BY DEF GroupSpec
      <3>2. ASSUME NEW g \in Group, g # p.group
            PROVE  /\ groups'[g].members =
                        {m \in gs[g].members : ~(m \in p.spec.members /\ own[m] = g)}
                   /\ groups'[g].budget = gs[g].budget /\ groups'[g].reserve = gs[g].reserve
        <4>1. gs[g] \in GroupSpec
          BY <1>4
        <4>2. groups'[g] = [gs[g] EXCEPT !.members =
                              {m \in gs[g].members : ~(m \in p.spec.members /\ own[m] = g)}]
          BY <2>3, <3>2
        <4> QED
          BY <3>1, <4>1, <4>2
      <3> QED
        BY <3>2
    <2>6. \A l \in Lane : groupOf'[l] = IF l \in p.spec.members THEN p.group
                                        ELSE IF l \in gs[p.group].members THEN NoGroup
                                        ELSE own[l]
      BY <2>1 DEF InstalledOwner
    <2>7. RegistryConsistent'
      <3> SUFFICES ASSUME NEW l \in Lane, NEW g \in Group
                   PROVE  groupOf'[l] = g <=> l \in groups'[g].members
        BY DEF RegistryConsistent
      <3>1. CASE g = p.group
        BY <1>3, <1>9, <2>0, <2>4, <2>6, <3>1, LaneAssumption
      <3>2. CASE g # p.group
        <4>1. CASE l \in p.spec.members
          BY <1>3, <2>5, <2>6, <3>2, <4>1
        <4>2. CASE l \notin p.spec.members /\ l \in gs[p.group].members
          BY <1>3, <1>9, <2>5, <2>6, <3>2, <4>2, LaneAssumption
        <4>3. CASE l \notin p.spec.members /\ l \notin gs[p.group].members
          BY <1>3, <2>5, <2>6, <3>2, <4>3
        <4> QED
          BY <4>1, <4>2, <4>3
      <3> QED
        BY <3>1, <3>2
    <2>8. ASSUME NEW m \in Lane \ Touched(p)
          PROVE  /\ groupOf'[m] = groupOf[m]
                 /\ groupOf[m] # NoGroup => groups'[groupOf[m]] = groups[groupOf[m]]
      <3>1. groupOf'[m] = groupOf[m]
        BY <1>7, <2>2, <2>6
      <3>2. ASSUME groupOf[m] # NoGroup
            PROVE  groups'[groupOf[m]] = groups[groupOf[m]]
        <4>1. PICK g \in Group : g = groupOf[m]
          BY <3>2 DEF TypeOK
        <4>2. own[m] = g /\ m \in gs[g].members /\ gs[g] = groups[g]
          BY <1>3, <1>7, <3>2, <4>1
        <4>3. g # p.group
          BY <2>2, <4>2
        <4>4. \A k \in gs[g].members : ~(k \in p.spec.members /\ own[k] = g)
          BY <2>2, <3>2, <4>1, <4>2
        <4>5. /\ groups'[g].members = gs[g].members
              /\ groups'[g].budget = gs[g].budget /\ groups'[g].reserve = gs[g].reserve
          <5>1. groups'[g].members = {k \in gs[g].members : ~(k \in p.spec.members /\ own[k] = g)}
            BY <2>5, <4>3
          <5>2. groups'[g].members = gs[g].members
            BY <4>4, <5>1
          <5> QED
            BY <2>5, <4>3, <5>2
        <4>6. groups'[g] \in GroupSpec /\ gs[g] \in GroupSpec
          BY <1>4, PublishType
        <4>7. \A r \in GroupSpec : r = [budget |-> r.budget, members |-> r.members,
                                        reserve |-> r.reserve]
          BY DEF GroupSpec
        <4>8. groups'[g] = gs[g]
          BY <4>5, <4>6, <4>7
        <4> QED
          BY <4>1, <4>2, <4>8
      <3> QED
        BY <3>1, <3>2
    <2> QED
      BY <1>5, <1>6, <2>7, <2>8
  <1> QED
    BY <1>2, <1>8, <1>9

-----------------------------------------------------------------------------
(* Every step keeps startable lanes covered                                *)

\* A lane that gains no entry and sees the same capacity does not become
\* startable.
LEMMA NotWoken ==
  ASSUME TypeOK, RegistryConsistent, NEW m \in Lane,
         width'[m] = width[m], groupOf'[m] = groupOf[m], active'[m] = active[m],
         groupOf[m] # NoGroup => groups'[groupOf[m]] = groups[groupOf[m]],
         \A n \in Lane : groupOf[m] # NoGroup /\ groupOf[n] = groupOf[m]
                            => active'[n] = active[n],
         \A e \in Entry : status'[e] = "queued" /\ laneOf'[e] = m
                             => status[e] = "queued" /\ laneOf[e] = m,
         Startable(m)'
  PROVE  Startable(m)
  <1>1. Queued(m)' \subseteq Queued(m)
    BY DEF Queued
  <1>2. BlockReason(m)' = BlockReason(m)
    BY SameBlock
  <1> QED
    BY <1>1, <1>2 DEF Startable

\* A step that disturbs the slots of lane l alone and covers l and l's group
\* keeps every startable lane covered.
LEMMA DisturbOne ==
  ASSUME TypeOK, RegistryConsistent, StartableIsCovered, NEW l \in Lane,
         width' = width \/ (\A m \in Lane \ {l} : width'[m] = width[m]),
         groupOf' = groupOf, groups' = groups,
         \A m \in Lane \ {l} : active'[m] = active[m],
         \A e \in Entry : status'[e] = "queued" /\ laneOf'[e] # l
                             => status[e] = "queued" /\ laneOf'[e] = laneOf[e],
         todo \subseteq todo',
         draining \subseteq draining', drainingGroups \subseteq drainingGroups',
         groupOf[l] = NoGroup => l \in draining',
         groupOf[l] # NoGroup => groupOf[l] \in drainingGroups'
  PROVE  StartableIsCovered'
  <1> SUFFICES ASSUME NEW m \in Lane, Startable(m)' PROVE Covered(m)'
    BY DEF StartableIsCovered
  <1>1. CASE m = l \/ (groupOf[l] # NoGroup /\ groupOf[m] = groupOf[l])
    BY <1>1 DEF Covered
  <1>2. CASE m # l /\ ~(groupOf[l] # NoGroup /\ groupOf[m] = groupOf[l])
    <2>1. \A n \in Lane : groupOf[m] # NoGroup /\ groupOf[n] = groupOf[m]
                             => active'[n] = active[n]
      BY <1>2
    <2>2. Startable(m)
      BY <1>2, <2>1, NotWoken
    <2> QED
      BY <2>2 DEF StartableIsCovered, Covered
  <1> QED
    BY <1>1, <1>2

\* The stack is empty at the event loop and during a commit pass, so nothing
\* but the pass covers a lane there.
LEMMA EmptyStack ==
  ASSUME StackInv, calls = <<>>
  PROVE  draining = {} /\ drainingGroups = {}
  <1>1. Len(calls) = 0
    BY EmptySeq
  <1> QED
    BY <1>1 DEF StackInv, GuardsOnStack

\* A turn of a drain loop that starts an entry takes a slot, which unblocks nobody; the
\* loop itself stays on the stack for what it has not reached yet.
LEMMA StartWakeup ==
  ASSUME WakeupInv, NEW l \in Lane, NEW e \in Entry,
         LaneStart(l, e) \/ \E g \in Group : GroupStart(g, l, e)
  PROVE  StackInv' /\ StartableIsCovered'
  <1> USE DEF WakeupInv
  <1>1. /\ status' = [status EXCEPT ![e] = "running"] /\ laneOf' = laneOf
        /\ active' = [active EXCEPT ![l] = @ \cup {e}]
        /\ width' = width /\ groupOf' = groupOf /\ groups' = groups
        /\ todo' = todo /\ drainingGroups' = drainingGroups
    BY DEF LaneStart, GroupStart, Admit, configVars
  <1>2. \A m \in Lane \ {l} : active'[m] = active[m]
    BY <1>1 DEF TypeOK
  <1>3. \A f \in Entry : status'[f] = "queued" => status[f] = "queued"
    BY <1>1 DEF TypeOK
  <1>4. CASE LaneStart(l, e)
    <2>1. calls \in Seq(Frame) /\ calls # <<>> /\ draining' = draining
      BY <1>4 DEF LaneStart, TopIs, TypeOK
    <2>2. StackInv'
      BY <1>1, <1>4, <2>1, WaitingStack DEF LaneStart
    <2>3. Len(calls) \in 1..Len(calls)
      BY <2>1, StackFacts
    <2>4. l \in draining /\ groupOf[l] = NoGroup
      BY <1>4, <2>3 DEF LaneStart, TopIs, Top, StackInv, GuardsOnStack, FrameOwner
    <2> QED
      BY <1>1, <1>2, <1>3, <2>1, <2>2, <2>4, DisturbOne
  <1>5. ASSUME NEW g \in Group, GroupStart(g, l, e) PROVE StackInv' /\ StartableIsCovered'
    <2>1. calls \in Seq(Frame) /\ calls # <<>>
      BY <1>5 DEF GroupStart, TopIs, TypeOK
    <2>2. Len(calls) \in 1..Len(calls)
      BY <2>1, StackFacts
    <2>3. g \in drainingGroups
      BY <1>5, <2>2 DEF GroupStart, TopIs, Top, StackInv, GuardsOnStack
    <2>4. l \in groups[g].members /\ l \notin draining
      BY <1>5 DEF GroupStart, Selected, Candidate
    <2>5. groupOf[l] = g /\ groupOf[l] # NoGroup
      BY <2>4, LaneAssumption DEF RegistryConsistent
    <2>6. StackInv'
      BY <1>1, <1>5, <2>4, <2>5, PushLane DEF GroupStart
    <2>7. draining \subseteq draining'
      BY <1>5 DEF GroupStart
    <2> QED
      BY <1>1, <1>2, <1>3, <2>3, <2>5, <2>6, <2>7, DisturbOne
  <1> QED
    BY <1>4, <1>5

\* The end of onWait uncovers nothing, and a drain returns only when nothing it answers
\* for can start.
LEMMA ReturnWakeup ==
  ASSUME WakeupInv,
         \/ CallbackReturn
         \/ \E l \in Lane : LaneReturn(l)
         \/ \E g \in Group : GroupReturn(g)
  PROVE  StackInv' /\ StartableIsCovered'
  <1> USE DEF WakeupInv
  <1>1. /\ status' = status /\ laneOf' = laneOf /\ active' = active /\ width' = width
        /\ groupOf' = groupOf /\ groups' = groups /\ todo' = todo
    BY DEF CallbackReturn, LaneReturn, GroupReturn, entryVars, configVars
  <1>2. \A m \in Lane : Startable(m)' => Startable(m)
    BY <1>1, NotWoken
  <1>3. CASE CallbackReturn
    <2>1. /\ TopIs("lane") /\ draining' = draining /\ drainingGroups' = drainingGroups
          /\ calls' = Append(Pop, [Top EXCEPT !.waiting = FALSE])
      BY <1>3 DEF CallbackReturn, InCallback
    <2>2. StackInv'
      BY <1>1, <2>1, WaitingStack
    <2> QED
      BY <1>1, <1>2, <2>1, <2>2 DEF StartableIsCovered, Covered
  <1>4. ASSUME NEW l \in Lane, LaneReturn(l) PROVE StackInv' /\ StartableIsCovered'
    <2>1. StackInv'
      BY <1>1, <1>4, PopLane DEF LaneReturn
    <2>2. calls \in Seq(Frame) /\ calls # <<>>
      BY <1>4 DEF LaneReturn, TopIs, TypeOK
    <2>3. Len(calls) \in 1..Len(calls)
      BY <2>2, StackFacts
    <2>4. groupOf[l] = NoGroup => ~Startable(l)
      BY <1>4, <2>3 DEF LaneReturn, TopIs, Top, StackInv, FrameOwner
    <2>5. ASSUME NEW m \in Lane, Startable(m)' PROVE Covered(m)'
      <3>1. Covered(m)
        BY <1>2, <2>5 DEF StartableIsCovered
      <3>2. m = l => groupOf[m] # NoGroup
        BY <1>2, <2>4, <2>5
      <3> QED
        BY <1>1, <1>4, <3>1, <3>2 DEF Covered, LaneReturn
    <2> QED
      BY <2>1, <2>5 DEF StartableIsCovered
  <1>5. ASSUME NEW g \in Group, GroupReturn(g) PROVE StackInv' /\ StartableIsCovered'
    <2>1. StackInv'
      BY <1>1, <1>5, PopGroup DEF GroupReturn
    <2>2. calls \in Seq(Frame) /\ calls # <<>>
      BY <1>5 DEF GroupReturn, TopIs, TypeOK
    <2>3. Len(calls) \in Nat \ {0} /\ Len(calls) \in 1..Len(calls)
      BY <2>2, StackFacts
    <2>4. ASSUME NEW m \in Lane, groupOf[m] = g PROVE ~Startable(m)
      <3>1. m \in groups[g].members
        BY <2>4 DEF RegistryConsistent
      <3>2. m \in draining \/ ~Startable(m)
        BY <1>5, <3>1 DEF GroupReturn, Candidate
      <3>3. m \notin draining
        <4> SUFFICES ASSUME m \in draining PROVE FALSE
          OBVIOUS
        <4>1. PICK i \in 1..Len(calls) : calls[i].op = "lane" /\ calls[i].lane = m
          BY DEF StackInv, GuardsOnStack
        <4>2. i > 1 /\ calls[i - 1].op = "group" /\ calls[i - 1].group = g
          BY <2>4, <4>1, LaneAssumption DEF StackInv, FrameOwner
        <4>3. calls[Len(calls)].op = "group" /\ calls[Len(calls)].group = g
          BY <1>5 DEF GroupReturn, TopIs, Top
        <4>4. i - 1 \in 1..Len(calls)
          BY <2>3, <4>1, <4>2
        <4>5. i - 1 = Len(calls)
          BY <2>3, <4>2, <4>3, <4>4 DEF StackInv, DrainsOnce
        <4> QED
          BY <2>3, <4>1, <4>5
      <3> QED
        BY <3>2, <3>3
    <2>5. ASSUME NEW m \in Lane, Startable(m)' PROVE Covered(m)'
      <3>1. Covered(m) /\ groupOf[m] # g
        BY <1>2, <2>4, <2>5 DEF StartableIsCovered
      <3> QED
        BY <1>1, <1>5, <3>1 DEF Covered, GroupReturn
    <2> QED
      BY <2>1, <2>5 DEF StartableIsCovered
  <1> QED
    BY <1>3, <1>4, <1>5

\* The commit pass drops a lane only once it is draining or cannot start.
LEMMA DrainNextWakeup ==
  ASSUME WakeupInv, NEW l \in Lane, DrainNext(l)
  PROVE  StackInv' /\ StartableIsCovered'
  <1> USE DEF WakeupInv
  <1>1. /\ status' = status /\ laneOf' = laneOf /\ active' = active /\ width' = width
        /\ groupOf' = groupOf /\ groups' = groups /\ todo' = todo \ {l}
    BY DEF DrainNext, entryVars, configVars
  <1>2. \A m \in Lane : Startable(m)' => Startable(m)
    BY <1>1, NotWoken
  <1>3. CASE width[l] > 0 /\ Queued(l) # {}
    <2>1. DrainReady(l)
      BY <1>3 DEF DrainNext
    <2>2. StackInv'
      BY <1>1, <2>1, DrainReadyStack
    <2>3. /\ groupOf[l] = NoGroup => l \in draining'
          /\ groupOf[l] # NoGroup => groupOf[l] \in drainingGroups'
          /\ draining \subseteq draining' /\ drainingGroups \subseteq drainingGroups'
      BY <1>1, <2>1, DrainReadyStack
    <2> QED
      BY <1>1, <1>2, <2>2, <2>3 DEF StartableIsCovered, Covered
  <1>4. CASE ~(width[l] > 0 /\ Queued(l) # {})
    <2>1. UNCHANGED callVars
      BY <1>4 DEF DrainNext
    <2>2. StackInv'
      BY <1>1, <2>1 DEF callVars, StackInv, GuardsOnStack, DrainsOnce, FrameOwner
    <2>3. ~Startable(l)
      <3>1. width[l] = 0 => ActiveCount(l) >= width[l]
        BY CountNat
      <3>2. width[l] \in Nat
        BY DEF TypeOK
      <3> QED
        BY <1>4, <3>1, <3>2 DEF Startable, BlockReason
    <2> QED
      BY <1>1, <1>2, <2>1, <2>2, <2>3 DEF StartableIsCovered, Covered, callVars
  <1> QED
    BY <1>3, <1>4

\* A handler that changes one lane and drains it.
LEMMA HandlerWakeup ==
  ASSUME WakeupInv, NEW l \in Lane,
         \/ \E p \in Priorities : Enqueue(l, p)
         \/ \E e \in Entry : laneOf[e] = l /\ (TaskFinish(e) \/ TaskTimeout(e))
         \/ ResetLane(l)
  PROVE  StackInv' /\ StartableIsCovered'
  <1> USE DEF WakeupInv
  <1>1. /\ width' = width /\ groupOf' = groupOf /\ groups' = groups /\ todo' = todo
    BY DEF Enqueue, TaskFinish, TaskTimeout, ResetLane, configVars, entryVars
  <1>2. CASE DrainReady(l)
    <2>1. /\ StackInv'
          /\ groupOf[l] = NoGroup => l \in draining'
          /\ groupOf[l] # NoGroup => groupOf[l] \in drainingGroups'
          /\ draining \subseteq draining' /\ drainingGroups \subseteq drainingGroups'
      BY <1>1, <1>2, DrainReadyStack
    <2>2. \A m \in Lane \ {l} : active'[m] = active[m]
      BY DEF Enqueue, TaskFinish, TaskTimeout, Complete, ResetLane, TypeOK
    <2>3. \A f \in Entry : status'[f] = "queued" /\ laneOf'[f] # l
                              => status[f] = "queued" /\ laneOf'[f] = laneOf[f]
      BY DEF Enqueue, TaskFinish, TaskTimeout, ResetLane, entryVars, TypeOK
    <2> QED
      BY <1>1, <2>1, <2>2, <2>3, DisturbOne
  <1>3. CASE ~DrainReady(l)
    <2>1. PICK e \in Entry : laneOf[e] = l /\ (TaskFinish(e) \/ TaskTimeout(e))
      BY <1>3 DEF Enqueue, ResetLane
    <2>2. UNCHANGED <<active, callVars>>
      BY <1>3, <2>1 DEF TaskFinish, TaskTimeout, Complete
    <2>3. /\ laneOf' = laneOf
          /\ \A f \in Entry : status'[f] = "queued" => status[f] = "queued"
      BY <2>1 DEF TaskFinish, TaskTimeout, TypeOK
    <2>4. \A m \in Lane : Startable(m)' => Startable(m)
      BY <1>1, <2>2, <2>3, NotWoken
    <2> QED
      BY <1>1, <2>2, <2>4
         DEF callVars, StackInv, GuardsOnStack, DrainsOnce, FrameOwner,
             StartableIsCovered, Covered
  <1> QED
    BY <1>2, <1>3

\* A handler that starts nothing and frees nothing.
LEMMA PassiveWakeup ==
  ASSUME WakeupInv,
         \/ \E e \in Entry : OrphanEnd(e)
         \/ \E l \in Lane : ClearLane(l)
         \/ CloseAdmission \/ ReopenAdmission \/ UNCHANGED vars
  PROVE  StackInv' /\ StartableIsCovered'
  <1> USE DEF WakeupInv
  <1>1. /\ width' = width /\ groupOf' = groupOf /\ groups' = groups /\ todo' = todo
        /\ active' = active /\ laneOf' = laneOf /\ UNCHANGED callVars
    BY DEF OrphanEnd, ClearLane, CloseAdmission, ReopenAdmission, vars, configVars, entryVars
  <1>2. \A f \in Entry : status'[f] = "queued" => status[f] = "queued"
    BY DEF OrphanEnd, ClearLane, CloseAdmission, ReopenAdmission, vars, entryVars, TypeOK
  <1>3. \A m \in Lane : Startable(m)' => Startable(m)
    BY <1>1, <1>2, NotWoken
  <1> QED
    BY <1>1, <1>3
       DEF callVars, StackInv, GuardsOnStack, DrainsOnce, FrameOwner,
           StartableIsCovered, Covered

\* setCommandLaneConcurrency drains the lane it changed, or the group of that lane.
LEMMA SetConcurrencyWakeup ==
  ASSUME WakeupInv, NEW l \in Lane, NEW w \in Widths, SetConcurrency(l, w)
  PROVE  StackInv' /\ StartableIsCovered'
  <1> USE DEF WakeupInv
  <1>1. /\ groupOf' = groupOf /\ groups' = groups /\ todo' = todo /\ active' = active
        /\ status' = status /\ laneOf' = laneOf
        /\ width' = [width EXCEPT ![l] = w]
    BY DEF SetConcurrency, entryVars
  <1>2. \A m \in Lane \ {l} : width'[m] = width[m]
    BY <1>1 DEF TypeOK
  <1>3. CASE w > 0
    <2>1. DrainReady(l)
      BY <1>3 DEF SetConcurrency
    <2>2. /\ StackInv'
          /\ groupOf[l] = NoGroup => l \in draining'
          /\ groupOf[l] # NoGroup => groupOf[l] \in drainingGroups'
          /\ draining \subseteq draining' /\ drainingGroups \subseteq drainingGroups'
      BY <1>1, <2>1, DrainReadyStack
    <2> QED
      BY <1>1, <1>2, <2>2, DisturbOne
  <1>4. CASE ~(w > 0)
    <2>1. UNCHANGED callVars
      BY <1>4 DEF SetConcurrency
    <2>2. StackInv'
      BY <1>1, <2>1 DEF callVars, StackInv, GuardsOnStack, DrainsOnce, FrameOwner
    <2>3. ASSUME NEW m \in Lane, Startable(m)' PROVE Covered(m)'
      <3>1. CASE m = l
        <4>1. w = 0 /\ width'[l] = 0
          BY <1>1, <1>4, WidthAssumption DEF TypeOK
        <4>2. ActiveCount(l)' = ActiveCount(l) /\ ActiveCount(l) \in Nat
          BY <1>1, CountNat DEF ActiveCount
        <4>3. BlockReason(l)' = "lane"
          BY <4>1, <4>2 DEF BlockReason
        <4> QED
          BY <2>3, <3>1, <4>3 DEF Startable
      <3>2. CASE m # l
        <4>1. Startable(m)
          BY <1>1, <1>2, <2>3, <3>2, NotWoken
        <4> QED
          BY <1>1, <2>1, <4>1 DEF StartableIsCovered, Covered, callVars
      <3> QED
        BY <3>1, <3>2
    <2> QED
      BY <2>2, <2>3 DEF StartableIsCovered
  <1> QED
    BY <1>3, <1>4

\* A full reset and a publication leave to their commit pass every lane whose
\* capacity they changed.
LEMMA CommitWakeup ==
  ASSUME WakeupInv, ResetAllLanes \/ \E p \in Publications : Publish(p)
  PROVE  StackInv' /\ StartableIsCovered'
  <1> USE DEF WakeupInv
  <1>1. /\ calls = <<>> /\ todo = {} /\ UNCHANGED callVars
        /\ status' = status /\ laneOf' = laneOf
    BY DEF ResetAllLanes, Publish, Install, Idle, entryVars
  <1>2. draining = {} /\ drainingGroups = {}
    BY <1>1, EmptyStack
  <1>3. StackInv'
    <2>1. Len(calls) = 0
      BY <1>1, EmptySeq
    <2> QED
      BY <1>1, <1>2, <2>1 DEF callVars, StackInv, GuardsOnStack, DrainsOnce, FrameOwner
  <1>4. CASE ResetAllLanes
    <2>1. todo' = {l \in Lane : Queued(l) # {}}
      BY <1>4 DEF ResetAllLanes
    <2>2. \A m \in Lane : Queued(m)' = Queued(m)
      BY <1>1 DEF Queued
    <2> QED
      BY <1>3, <2>1, <2>2 DEF StartableIsCovered, Startable, Covered
  <1>5. ASSUME NEW p \in Publications, Publish(p) PROVE StartableIsCovered'
    <2>1. todo' = Touched(p) /\ active' = active
      BY <1>5 DEF Publish, Install
    <2>2. ASSUME NEW m \in Lane, Startable(m)' PROVE m \in Touched(p)
      <3> SUFFICES ASSUME m \notin Touched(p) PROVE FALSE
        OBVIOUS
      <3>1. /\ width'[m] = width[m] /\ groupOf'[m] = groupOf[m]
            /\ groupOf[m] # NoGroup => groups'[groupOf[m]] = groups[groupOf[m]]
        BY <1>5, PublishRegistry
      <3>2. Startable(m)
        BY <1>1, <2>1, <2>2, <3>1, NotWoken
      <3>3. ~Covered(m)
        BY <1>1, <1>2 DEF Covered
      <3> QED
        BY <3>2, <3>3 DEF StartableIsCovered
    <2> QED
      BY <2>1, <2>2 DEF StartableIsCovered, Covered
  <1> QED
    BY <1>3, <1>4, <1>5

-----------------------------------------------------------------------------
(* The theorems                                                            *)

\* At the beginning nothing is queued and no drain is under way.
LEMMA InitWakeup == Init => WakeupInv
  <1> SUFFICES ASSUME Init PROVE WakeupInv
    OBVIOUS
  <1>1. Len(calls) = 0
    BY EmptySeq DEF Init
  <1>2. StackInv
    BY <1>1 DEF Init, StackInv, GuardsOnStack, DrainsOnce, FrameOwner
  <1>3. RegistryConsistent
    BY LaneAssumption DEF Init, RegistryConsistent, EmptySpec
  <1>4. StartableIsCovered
    BY DEF Init, StartableIsCovered, Startable, Queued
  <1> QED
    BY <1>2, <1>3, <1>4, InitType DEF WakeupInv

\* Every handler keeps each startable lane covered by a drain or by the commit pass.
LEMMA NextWakeup == WakeupInv /\ [Next]_vars => WakeupInv'
  <1> SUFFICES ASSUME WakeupInv, [Next]_vars PROVE WakeupInv'
    OBVIOUS
  <1>1. TypeOK'
    BY NextType DEF WakeupInv
  <1>2. RegistryConsistent'
    <2>1. ASSUME NEW p \in Publications, Publish(p) PROVE RegistryConsistent'
      BY <2>1, PublishRegistry DEF WakeupInv
    <2>2. CASE groups' = groups /\ groupOf' = groupOf
      BY <2>2 DEF WakeupInv, RegistryConsistent
    <2> QED
      BY <2>1, <2>2
         DEF Next, RunToCompletion, Handler, LaneStart, CallbackReturn, LaneReturn,
             GroupStart, GroupReturn, DrainNext, Enqueue, TaskFinish, TaskTimeout,
             OrphanEnd, ClearLane, ResetLane, ResetAllLanes, SetConcurrency,
             CloseAdmission, ReopenAdmission, vars, configVars
  <1>3. StackInv' /\ StartableIsCovered'
    <2>1. ASSUME NEW e \in Entry, TaskFinish(e) \/ TaskTimeout(e)
          PROVE  StackInv' /\ StartableIsCovered'
      <3>1. laneOf[e] \in Lane
        BY DEF WakeupInv, TypeOK
      <3> QED
        BY <2>1, <3>1, HandlerWakeup
    <2> QED
      BY <2>1, StartWakeup, ReturnWakeup, DrainNextWakeup, HandlerWakeup, PassiveWakeup,
         SetConcurrencyWakeup, CommitWakeup DEF Next, RunToCompletion, Handler
  <1> QED
    BY <1>1, <1>2, <1>3 DEF WakeupInv

\* The inductive invariant holds in every reachable state.
THEOREM WakeupInvariant == Spec => []WakeupInv
  BY InitWakeup, NextWakeup, PTL DEF Spec

\* The registry's two maps agree after every publication, for any groups.
THEOREM RegistryAgrees == Spec => []RegistryConsistent
  <1>1. WakeupInv => RegistryConsistent
    BY DEF WakeupInv
  <1> QED
    BY <1>1, WakeupInvariant, PTL

\* drainReadyCommandLane and the commit passes lose no wakeup: at the event loop
\* no lane has an entry it could start.
THEOREM NothingIsLost == Spec => []NoLostWakeup
  <1>1. WakeupInv => NoLostWakeup
    <2> SUFFICES ASSUME WakeupInv, calls = <<>>, todo = {}, NEW l \in Lane, Startable(l)
                 PROVE  FALSE
      BY DEF NoLostWakeup, Idle
    <2>1. draining = {} /\ drainingGroups = {}
      BY EmptyStack DEF WakeupInv
    <2> QED
      BY <2>1 DEF WakeupInv, StartableIsCovered, Covered
  <1> QED
    BY <1>1, WakeupInvariant, PTL

-----------------------------------------------------------------------------
(* The inductive invariant of the service                                  *)

\* Entries are numbered in the order of their arrival.
Numbered == \A e \in Entry : status[e] = "new" <=> e >= nextSeq

\* A running task is of its lane's generation or of an earlier one.
NotAhead == \A e \in Entry : status[e] = "running" => gen[e] <= generation[laneOf[e]]

\* What validateCommandLaneGroupSpec has checked of an installed group.
ReserveWithinBudget ==
  \A g \in Group, l \in Lane : groups[g].reserve[l] <= groups[g].budget

ServiceInv == /\ WakeupInv /\ Numbered /\ NotAhead /\ SlotsAreCurrentTasks
              /\ NoOvertaking /\ ReserveWithinBudget

-----------------------------------------------------------------------------
(* Entries and slots                                                       *)

\* A start takes the head of its lane.
LEMMA AdmitSlots ==
  ASSUME ServiceInv, NEW l \in Lane, NEW e \in Entry, Admit(e, l),
         laneOf' = laneOf, prio' = prio, nextSeq' = nextSeq, generation' = generation
  PROVE  Numbered' /\ NotAhead' /\ SlotsAreCurrentTasks' /\ NoOvertaking'
  <1> USE DEF ServiceInv, WakeupInv, TypeOK
  <1>1. status[e] = "queued" /\ laneOf[e] = l
    BY DEF Admit, IsHead, Queued
  <1>2. /\ status' = [status EXCEPT ![e] = "running"]
        /\ gen' = [gen EXCEPT ![e] = generation[l]]
        /\ active' = [active EXCEPT ![l] = @ \cup {e}]
    BY DEF Admit
  <1>3. Numbered'
    BY <1>1, <1>2 DEF Numbered
  <1>4. NotAhead'
    BY <1>1, <1>2 DEF NotAhead
  <1>5. SlotsAreCurrentTasks'
    <2> SUFFICES ASSUME NEW m \in Lane
                 PROVE  active'[m] = {f \in Entry : /\ laneOf[f] = m
                                                    /\ status'[f] = "running"
                                                    /\ gen'[f] = generation[m]}
      BY DEF SlotsAreCurrentTasks
    <2>1. active[m] = {f \in Entry : /\ laneOf[f] = m /\ status[f] = "running"
                                     /\ gen[f] = generation[m]}
      BY DEF SlotsAreCurrentTasks
    <2>2. active'[m] = IF m = l THEN active[m] \cup {e} ELSE active[m]
      BY <1>2
    <2> QED
      BY <1>1, <1>2, <2>1, <2>2
  <1>6. NoOvertaking'
    <2> SUFFICES ASSUME NEW d \in Entry, NEW f \in Entry,
                        status'[d] = "queued", status'[f] \in {"running", "orphaned", "done"},
                        laneOf[d] = laneOf[f], d < f
                 PROVE  prio[f] > prio[d]
      BY DEF NoOvertaking
    <2>1. status[d] = "queued" /\ d # e
      BY <1>2
    <2>2. CASE f = e
      <3>1. d \in Queued(l) \ {e}
        BY <1>1, <2>1, <2>2 DEF Queued
      <3>2. Before(e, d)
        BY <3>1 DEF Admit, IsHead
      <3> QED
        BY <2>2, <3>2 DEF Before, Entry
    <2>3. CASE f # e
      BY <1>2, <2>1, <2>3 DEF NoOvertaking
    <2> QED
      BY <2>2, <2>3
  <1> QED
    BY <1>3, <1>4, <1>5, <1>6

\* A new entry is the youngest of all.
LEMMA EnqueueSlots ==
  ASSUME ServiceInv, NEW l \in Lane, NEW p \in Priorities, Enqueue(l, p)
  PROVE  Numbered' /\ NotAhead' /\ SlotsAreCurrentTasks' /\ NoOvertaking'
  <1> USE DEF ServiceInv, WakeupInv, TypeOK
  <1>1. nextSeq \in Entry /\ nextSeq \in Int
    BY BoundsAssumption DEF Enqueue, Entry
  <1>2. status[nextSeq] = "new"
    BY <1>1 DEF Numbered
  <1>3. /\ status' = [status EXCEPT ![nextSeq] = "queued"]
        /\ laneOf' = [laneOf EXCEPT ![nextSeq] = l]
        /\ prio' = [prio EXCEPT ![nextSeq] = p]
        /\ nextSeq' = nextSeq + 1
        /\ gen' = gen /\ active' = active /\ generation' = generation
    BY DEF Enqueue
  <1>4. Numbered'
    BY <1>1, <1>3 DEF Numbered, Entry
  <1>5. NotAhead'
    BY <1>1, <1>2, <1>3 DEF NotAhead
  <1>6. SlotsAreCurrentTasks'
    <2> SUFFICES ASSUME NEW m \in Lane
                 PROVE  active[m] = {f \in Entry : /\ laneOf'[f] = m
                                                   /\ status'[f] = "running"
                                                   /\ gen[f] = generation[m]}
      BY <1>3 DEF SlotsAreCurrentTasks
    <2>1. active[m] = {f \in Entry : /\ laneOf[f] = m /\ status[f] = "running"
                                     /\ gen[f] = generation[m]}
      BY DEF SlotsAreCurrentTasks
    <2> QED
      BY <1>1, <1>2, <1>3, <2>1
  <1>7. NoOvertaking'
    <2> SUFFICES ASSUME NEW d \in Entry, NEW f \in Entry,
                        status'[d] = "queued", status'[f] \in {"running", "orphaned", "done"},
                        laneOf'[d] = laneOf'[f], d < f
                 PROVE  prio'[f] > prio'[d]
      BY DEF NoOvertaking
    <2>1. f # nextSeq /\ status[f] \in {"running", "orphaned", "done"}
      BY <1>1, <1>3
    <2>2. d # nextSeq
      BY <1>1, <2>1 DEF Numbered, Entry
    <2> QED
      BY <1>1, <1>3, <2>1, <2>2 DEF NoOvertaking
  <1> QED
    BY <1>4, <1>5, <1>6, <1>7

\* A task that ends, or is given up, releases its slot if it has one.
LEMMA EndSlots ==
  ASSUME ServiceInv, NEW e \in Entry, TaskFinish(e) \/ TaskTimeout(e)
  PROVE  Numbered' /\ NotAhead' /\ SlotsAreCurrentTasks' /\ NoOvertaking'
  <1> USE DEF ServiceInv, WakeupInv, TypeOK
  <1>0. PICK s \in {"done", "orphaned"} : status' = [status EXCEPT ![e] = s]
    BY DEF TaskFinish, TaskTimeout
  <1>1. /\ laneOf' = laneOf /\ prio' = prio /\ gen' = gen /\ nextSeq' = nextSeq
        /\ generation' = generation /\ status[e] = "running" /\ Complete(e)
    BY DEF TaskFinish, TaskTimeout
  <1>2. Numbered'
    BY <1>0, <1>1 DEF Numbered
  <1>3. NotAhead'
    BY <1>0, <1>1 DEF NotAhead
  <1>4. SlotsAreCurrentTasks'
    <2> SUFFICES ASSUME NEW m \in Lane
                 PROVE  active'[m] = {f \in Entry : /\ laneOf[f] = m
                                                    /\ status'[f] = "running"
                                                    /\ gen[f] = generation[m]}
      BY <1>1 DEF SlotsAreCurrentTasks
    <2>1. active[m] = {f \in Entry : /\ laneOf[f] = m /\ status[f] = "running"
                                     /\ gen[f] = generation[m]}
      BY DEF SlotsAreCurrentTasks
    <2>2. laneOf[e] \in Lane
      OBVIOUS
    <2>3. active'[m] = IF gen[e] = generation[laneOf[e]] /\ m = laneOf[e]
                       THEN active[m] \ {e} ELSE active[m]
      BY <1>1, <2>2 DEF Complete
    <2> QED
      BY <1>0, <1>1, <2>1, <2>2, <2>3
  <1>5. NoOvertaking'
    BY <1>0, <1>1 DEF NoOvertaking
  <1> QED
    BY <1>2, <1>3, <1>4, <1>5

\* A reset retires the generation, whose tasks are all of the past then.
LEMMA ResetSlots ==
  ASSUME ServiceInv, NEW L \in SUBSET Lane,
         generation' = [l \in Lane |-> IF l \in L THEN generation[l] + 1 ELSE generation[l]],
         active' = [l \in Lane |-> IF l \in L THEN {} ELSE active[l]],
         UNCHANGED entryVars
  PROVE  Numbered' /\ NotAhead' /\ SlotsAreCurrentTasks' /\ NoOvertaking'
  <1> USE DEF ServiceInv, WakeupInv, TypeOK, entryVars
  <1>1. Numbered' /\ NoOvertaking'
    BY DEF Numbered, NoOvertaking
  <1>2. \A m \in Lane : generation'[m] = IF m \in L THEN generation[m] + 1 ELSE generation[m]
    OBVIOUS
  <1>3. NotAhead'
    BY <1>2 DEF NotAhead
  <1>4. SlotsAreCurrentTasks'
    <2> SUFFICES ASSUME NEW m \in Lane
                 PROVE  active'[m] = {f \in Entry : /\ laneOf[f] = m
                                                    /\ status[f] = "running"
                                                    /\ gen[f] = generation'[m]}
      BY DEF SlotsAreCurrentTasks
    <2>1. active[m] = {f \in Entry : /\ laneOf[f] = m /\ status[f] = "running"
                                     /\ gen[f] = generation[m]}
      BY DEF SlotsAreCurrentTasks
    <2>2. CASE m \in L
      <3>1. \A f \in Entry : laneOf[f] = m /\ status[f] = "running" => gen[f] # generation'[m]
        BY <1>2, <2>2 DEF NotAhead
      <3> QED
        BY <2>2, <3>1
    <2>3. CASE m \notin L
      BY <1>2, <2>1, <2>3
    <2> QED
      BY <2>2, <2>3
  <1> QED
    BY <1>1, <1>3, <1>4

\* What is neither started, enqueued, ended nor reset keeps order and slots.
LEMMA QuietSlots ==
  ASSUME ServiceInv, UNCHANGED <<laneOf, prio, gen, nextSeq, active, generation>>,
         status' \in [Entry -> Status],
         \A f \in Entry : \/ status'[f] = status[f]
                          \/ status[f] = "queued" /\ status'[f] = "cleared"
                          \/ status[f] = "orphaned" /\ status'[f] = "done"
  PROVE  Numbered' /\ NotAhead' /\ SlotsAreCurrentTasks' /\ NoOvertaking'
  <1> USE DEF ServiceInv, WakeupInv, TypeOK
  <1>1. Numbered'
    BY DEF Numbered
  <1>2. NotAhead'
    BY DEF NotAhead
  <1>3. \A f \in Entry : status'[f] = "running" <=> status[f] = "running"
    OBVIOUS
  <1>4. SlotsAreCurrentTasks'
    BY <1>3 DEF SlotsAreCurrentTasks
  <1>5. NoOvertaking'
    BY DEF NoOvertaking
  <1> QED
    BY <1>1, <1>2, <1>4, <1>5

\* The registry holds validated groups and empty ones.
LEMMA PublishReserve ==
  ASSUME ServiceInv, NEW p \in Publications, Publish(p)
  PROVE  ReserveWithinBudget'
  <1> USE DEF ServiceInv, WakeupInv
  <1>1. p \in Publication
    BY PublicationAssumption
  <1>2. p.group \in Group \cup {NoGroup} /\ p.spec \in GroupSpec
    BY <1>1 DEF Publication
  <1>3. \A g \in Group : groups[g] \in GroupSpec
    BY DEF TypeOK
  <1>4. \A g \in Group, l \in Lane :
           ClearedGroups(p)[g].reserve[l] <= ClearedGroups(p)[g].budget
    BY DEF ClearedGroups, EmptySpec, ReserveWithinBudget
  <1>5. CASE p.group = NoGroup
    BY <1>4, <1>5 DEF Publish, Install, ReserveWithinBudget
  <1>6. CASE p.group # NoGroup
    <2>1. \A l \in Lane : p.spec.reserve[l] \in Nat /\ p.spec.budget \in Nat
      BY <1>2 DEF GroupSpec
    <2>2. \A l \in Lane : p.spec.reserve[l] <= p.spec.budget
      BY <1>6, <2>1 DEF Publish, Install, ValidSpec
    <2>3. ASSUME NEW g \in Group
          PROVE  \/ groups'[g] = p.spec
                 \/ /\ groups'[g].reserve = ClearedGroups(p)[g].reserve
                    /\ groups'[g].budget = ClearedGroups(p)[g].budget
      <3>1. groups'[g] = InstalledGroups(p, ClearedGroups(p), ClearedOwner(p))[g]
        BY <1>6 DEF Publish, Install
      <3>2. CASE g = p.group
        BY <3>1, <3>2 DEF InstalledGroups
      <3>3. CASE g # p.group
        <4>1. ClearedGroups(p)[g] \in GroupSpec
          BY <1>3 DEF ClearedGroups, EmptySpec, GroupSpec
        <4> DEFINE c == ClearedGroups(p)[g]
                   X == {m \in c.members : ~(m \in p.spec.members /\ ClearedOwner(p)[m] = g)}
        <4>2. groups'[g] = [c EXCEPT !.members = X]
          BY <3>1, <3>3 DEF InstalledGroups
        <4>3. c \in GroupSpec
          BY <4>1
        <4> HIDE DEF c, X
        <4>4. [c EXCEPT !.members = X].reserve = c.reserve
          BY <4>3 DEF GroupSpec
        <4>5. [c EXCEPT !.members = X].budget = c.budget
          BY <4>3 DEF GroupSpec
        <4> QED
          BY <4>2, <4>4, <4>5 DEF c
      <3> QED
        BY <3>2, <3>3
    <2> QED
      BY <1>4, <2>2, <2>3 DEF ReserveWithinBudget
  <1> QED
    BY <1>5, <1>6

-----------------------------------------------------------------------------
(* The invariant holds                                                     *)

\* At the beginning no entry has arrived, so that no order is broken.
LEMMA InitService == Init => ServiceInv
  <1> SUFFICES ASSUME Init PROVE ServiceInv
    OBVIOUS
  <1>1. WakeupInv
    BY InitWakeup
  <1>2. Numbered
    BY DEF Init, Numbered, Entry
  <1>3. NotAhead /\ SlotsAreCurrentTasks /\ NoOvertaking
    BY DEF Init, NotAhead, SlotsAreCurrentTasks, NoOvertaking
  <1>4. ReserveWithinBudget
    BY DEF Init, ReserveWithinBudget, EmptySpec
  <1> QED
    BY <1>1, <1>2, <1>3, <1>4 DEF ServiceInv

\* Every handler keeps the slots, the order of arrival and the reservations.
LEMMA NextService == ServiceInv /\ [Next]_vars => ServiceInv'
  <1> SUFFICES ASSUME ServiceInv, [Next]_vars PROVE ServiceInv'
    OBVIOUS
  <1> DEFINE Kept == Numbered' /\ NotAhead' /\ SlotsAreCurrentTasks' /\ NoOvertaking'
  <1>1. WakeupInv' /\ TypeOK'
    BY NextWakeup DEF ServiceInv, WakeupInv
  <1>2. ReserveWithinBudget'
    <2>1. CASE groups' = groups
      BY <2>1 DEF ServiceInv, ReserveWithinBudget
    <2> QED
      BY <2>1, PublishReserve
         DEF Next, RunToCompletion, Handler, LaneStart, CallbackReturn, LaneReturn,
             GroupStart, GroupReturn, DrainNext, Enqueue, TaskFinish, TaskTimeout,
             OrphanEnd, ClearLane, ResetLane, ResetAllLanes, SetConcurrency,
             CloseAdmission, ReopenAdmission, vars, configVars
  <1>3. ASSUME NEW l \in Lane, NEW e \in Entry,
               LaneStart(l, e) \/ \E g \in Group : GroupStart(g, l, e)
        PROVE  Kept
    <2>1. /\ Admit(e, l) /\ laneOf' = laneOf /\ prio' = prio /\ nextSeq' = nextSeq
          /\ generation' = generation
      BY <1>3 DEF LaneStart, GroupStart
    <2> QED
      BY <2>1, AdmitSlots
  <1>4. ASSUME NEW l \in Lane, ResetLane(l) PROVE Kept
    <2>1. /\ generation' = [m \in Lane |-> IF m \in {l} THEN generation[m] + 1
                                                        ELSE generation[m]]
          /\ active' = [m \in Lane |-> IF m \in {l} THEN {} ELSE active[m]]
          /\ UNCHANGED entryVars
      BY <1>4 DEF ResetLane, ServiceInv, WakeupInv, TypeOK
    <2> QED
      BY <2>1, ResetSlots
  <1>5. ASSUME ResetAllLanes PROVE Kept
    <2>1. /\ generation' = [m \in Lane |-> IF m \in Lane THEN generation[m] + 1
                                                         ELSE generation[m]]
          /\ active' = [m \in Lane |-> IF m \in Lane THEN {} ELSE active[m]]
          /\ UNCHANGED entryVars
      BY <1>5 DEF ResetAllLanes
    <2> QED
      BY <2>1, ResetSlots
  <1>6. ASSUME NEW e \in Entry, OrphanEnd(e) PROVE Kept
    <2>1. \A f \in Entry : \/ status'[f] = status[f]
                           \/ status[f] = "orphaned" /\ status'[f] = "done"
      BY <1>6 DEF OrphanEnd, ServiceInv, WakeupInv, TypeOK
    <2>2. UNCHANGED <<laneOf, prio, gen, nextSeq, active, generation>>
      BY <1>6 DEF OrphanEnd
    <2> QED
      BY <1>1, <2>1, <2>2, QuietSlots DEF TypeOK
  <1>7. ASSUME NEW l \in Lane, ClearLane(l) PROVE Kept
    <2>1. \A f \in Entry : \/ status'[f] = status[f]
                           \/ status[f] = "queued" /\ status'[f] = "cleared"
      BY <1>7 DEF ClearLane, Queued
    <2>2. UNCHANGED <<laneOf, prio, gen, nextSeq, active, generation>>
      BY <1>7 DEF ClearLane
    <2> QED
      BY <1>1, <2>1, <2>2, QuietSlots DEF TypeOK
  <1>8. ASSUME UNCHANGED <<entryVars, active, generation>> PROVE Kept
    BY <1>1, <1>8, QuietSlots DEF TypeOK, entryVars
  <1>9. Kept
    BY <1>3, <1>4, <1>5, <1>6, <1>7, <1>8, EnqueueSlots, EndSlots
       DEF Next, RunToCompletion, Handler, CallbackReturn, LaneReturn, GroupReturn,
           DrainNext, SetConcurrency, Publish, Install, CloseAdmission, ReopenAdmission, vars
  <1> QED
    BY <1>1, <1>2, <1>9 DEF ServiceInv

\* The inductive invariant holds in every reachable state.
THEOREM ServiceInvariant == Spec => []ServiceInv
  BY InitService, NextService, PTL DEF Spec

\* No slot leaks and none is held by a retired task, for any lanes and any
\* sequence of timeouts and resets (completeTask, resetCommandLane).
THEOREM SlotsHold == Spec => []SlotsAreCurrentTasks
  <1>1. ServiceInv => SlotsAreCurrentTasks
    BY DEF ServiceInv
  <1> QED
    BY <1>1, ServiceInvariant, PTL

\* Entries of one lane start by priority and age, for any number of entries
\* (dequeueLaneQueue).
THEOREM NobodyOvertaken == Spec => []NoOvertaking
  <1>1. ServiceInv => NoOvertaking
    BY DEF ServiceInv
  <1> QED
    BY <1>1, ServiceInvariant, PTL

-----------------------------------------------------------------------------
(* Starting                                                                *)

\* The only steps that take a slot, and what they found.
LEMMA StartStep ==
  ASSUME ServiceInv, [Next]_vars, NEW f \in Entry,
         status[f] = "queued", status'[f] = "running"
  PROVE  \E l \in Lane : LaneStart(l, f) \/ \E g \in Group : GroupStart(g, l, f)
  <1> USE DEF ServiceInv, WakeupInv, TypeOK
  <1>1. ASSUME NEW l \in Lane, NEW e \in Entry,
               LaneStart(l, e) \/ \E g \in Group : GroupStart(g, l, e)
        PROVE  e = f
    <2>1. status' = [status EXCEPT ![e] = "running"]
      BY <1>1 DEF LaneStart, GroupStart, Admit
    <2> QED
      BY <2>1
  <1>2. ASSUME NEW l \in Lane, NEW p \in Priorities, Enqueue(l, p) PROVE FALSE
    BY <1>2 DEF Enqueue
  <1>3. ASSUME NEW e \in Entry, TaskFinish(e) \/ TaskTimeout(e) \/ OrphanEnd(e) PROVE FALSE
    BY <1>3 DEF TaskFinish, TaskTimeout, OrphanEnd
  <1>4. ASSUME NEW l \in Lane, ClearLane(l) PROVE FALSE
    BY <1>4 DEF ClearLane
  <1>5. status' # status
    OBVIOUS
  <1> QED
    BY <1>1, <1>2, <1>3, <1>4, <1>5
       DEF Next, RunToCompletion, Handler, CallbackReturn, LaneReturn, GroupReturn,
           DrainNext, ResetLane, ResetAllLanes, SetConcurrency, Publish, Install, CloseAdmission,
           ReopenAdmission, vars, entryVars

\* While a group's drain is the innermost call, none of its members drains: a
\* bounded drain would sit on a second drain of the group, an unbounded one
\* belongs to a lane without a group.
LEMMA MembersAreFree ==
  ASSUME WakeupInv, NEW g \in Group, TopIs("group"), Top.group = g,
         NEW m \in groups[g].members
  PROVE  m \notin draining
  <1> SUFFICES ASSUME m \in draining PROVE FALSE
    OBVIOUS
  <1> DEFINE n == Len(calls)
  <1>0. m \in Lane /\ groupOf[m] = g /\ g # NoGroup
    BY LaneAssumption DEF WakeupInv, TypeOK, GroupSpec, RegistryConsistent
  <1>1. n \in Nat \ {0} /\ calls[n].op = "group" /\ calls[n].group = g
    BY StackFacts DEF TopIs, Top, WakeupInv, TypeOK
  <1>2. PICK i \in 1..n : calls[i].op = "lane" /\ calls[i].lane = m
    BY DEF WakeupInv, StackInv, GuardsOnStack
  <1>3. i > 1 /\ calls[i - 1].op = "group" /\ calls[i - 1].group = g
    BY <1>0, <1>2 DEF WakeupInv, StackInv, FrameOwner
  <1> HIDE DEF n
  <1>4. i - 1 \in 1..n /\ n \in 1..n /\ i - 1 # n
    BY <1>1, <1>2, <1>3
  <1> QED
    BY <1>1, <1>3, <1>4 DEF n, WakeupInv, StackInv, DrainsOnce

\* The shared slot goes to the best head of the whole group, for any members
\* and any nesting of drains (drainCommandLaneGroup).
THEOREM SiblingsInOrder == Spec => NoSiblingOvertaken
  <1> DEFINE Fair == \A f \in Entry : status[f] = "queued" /\ status'[f] = "running" =>
                       \A g \in Group : laneOf[f] \in groups[g].members =>
                         \A m \in groups[g].members : Startable(m) =>
                           \A e \in Entry : IsHead(e, m) /\ e # f => Before(f, e)
  <1>1. ServiceInv /\ [Next]_vars => Fair
    <2> SUFFICES ASSUME ServiceInv, [Next]_vars, NEW f \in Entry,
                        status[f] = "queued", status'[f] = "running",
                        NEW g \in Group, laneOf[f] \in groups[g].members,
                        NEW m \in groups[g].members, Startable(m),
                        NEW e \in Entry, IsHead(e, m), e # f
                 PROVE  Before(f, e)
      OBVIOUS
    <2> USE DEF ServiceInv, WakeupInv
    <2>1. PICK l \in Lane : LaneStart(l, f) \/ \E h \in Group : GroupStart(h, l, f)
      BY StartStep
    <2>2. laneOf[f] = l
      BY <2>1 DEF LaneStart, GroupStart, Admit, IsHead, Queued
    <2>3. groupOf[l] = g /\ g # NoGroup
      BY <2>2, LaneAssumption DEF RegistryConsistent
    <2>4. ~LaneStart(l, f)
      <3> SUFFICES ASSUME LaneStart(l, f) PROVE FALSE
        OBVIOUS
      <3>1. calls \in Seq(Frame) /\ calls # <<>>
        BY DEF LaneStart, TopIs, TypeOK
      <3>2. Len(calls) \in 1..Len(calls)
        BY <3>1, StackFacts
      <3> QED
        BY <2>3, <3>2 DEF LaneStart, TopIs, Top, StackInv, FrameOwner
    <2>5. PICK h \in Group : GroupStart(h, l, f)
      BY <2>1, <2>4
    <2>6. l \in groups[h].members
      BY <2>5 DEF GroupStart, Selected, Candidate
    <2>7. h = g
      BY <2>3, <2>6 DEF RegistryConsistent
    <2>8. m \notin draining
      BY <2>5, <2>7, MembersAreFree DEF GroupStart
    <2>9. Candidate(g, m)
      BY <2>8 DEF Candidate
    <2> QED
      BY <2>5, <2>7, <2>9 DEF GroupStart, Selected
  <1>2. Spec => [][Fair]_vars
    BY <1>1, ServiceInvariant, PTL DEF Spec
  <1> QED
    BY <1>2 DEF NoSiblingOvertaken

-----------------------------------------------------------------------------
(* Reservations                                                            *)

\* Lanes, entries and budgets are finite, so what a group uses and withholds
\* can be counted.
LEMMA GroupCounts ==
  ASSUME TypeOK, NEW g \in Group
  PROVE  /\ GroupActive(g) \in Nat
         /\ IsFiniteSet(Unfilled(g)) /\ Cardinality(Unfilled(g)) \in Nat
  <1>1. IsFiniteSet(Entry)
    BY BoundsAssumption, FS_Interval DEF Entry
  <1>2. GroupActive(g) \in Nat
    BY <1>1, FS_Subset, FS_CardinalityType DEF GroupActive
  <1>3. groups[g].members \subseteq Lane /\ groups[g].budget \in Nat
    BY DEF TypeOK, GroupSpec
  <1>4. IsFiniteSet(groups[g].members) /\ IsFiniteSet(1..groups[g].budget)
    <2>1. IsFiniteSet(groups[g].members)
      BY <1>3, LaneAssumption, FS_Subset
    <2>2. 1 \in Int /\ groups[g].budget \in Int
      BY <1>3
    <2> QED
      BY <2>1, <2>2, FS_Interval
  <1>5. IsFiniteSet(groups[g].members \X (1..groups[g].budget))
    BY <1>4, FS_Product
  <1>6. IsFiniteSet(Unfilled(g))
    BY <1>5, FS_Subset DEF Unfilled
  <1> QED
    BY <1>2, <1>6, FS_CardinalityType

\* A member with queued work has its reservation, unless an earlier
\* configuration has filled the group (resolveLaneBlockReason).
THEOREM ReservationsFill == Spec => []ReservationFilled
  <1>1. ServiceInv /\ NoLostWakeup => ReservationFilled
    <2> SUFFICES ASSUME ServiceInv, NoLostWakeup, Idle, NEW g \in Group,
                        NEW l \in groups[g].members, Queued(l) # {},
                        ~(ActiveCount(l) >= groups[g].reserve[l]),
                        ~(ActiveCount(l) >= width[l])
                 PROVE  /\ GroupActive(g) >= groups[g].budget
                        /\ Committed(g) > groups[g].budget
      BY DEF ReservationFilled
    <2> USE DEF ServiceInv, WakeupInv
    <2>1. l \in Lane /\ groupOf[l] = g /\ g # NoGroup
      BY LaneAssumption DEF TypeOK, GroupSpec, RegistryConsistent
    <2>2. /\ ActiveCount(l) \in Nat /\ groups[g].budget \in Nat
          /\ groups[g].reserve[l] \in Nat /\ groups[g].reserve[l] <= groups[g].budget
      BY <2>1, CountNat DEF TypeOK, GroupSpec, ReserveWithinBudget
    <2>3. BlockReason(l) # "none"
      BY <2>1 DEF NoLostWakeup, Startable
    <2>4. ActiveCount(l) < groups[g].reserve[l]
      BY <2>2
    <2>5. GroupActive(g) >= groups[g].budget
      BY <2>1, <2>3, <2>4 DEF BlockReason
    <2>6. <<l, ActiveCount(l) + 1>> \in Unfilled(g)
      <3> DEFINE n == ActiveCount(l)
      <3>1. n + 1 \in 1..groups[g].budget /\ n < n + 1 /\ n + 1 <= groups[g].reserve[l]
        BY <2>2, <2>4
      <3> HIDE DEF n
      <3>2. <<l, n + 1>> \in groups[g].members \X (1..groups[g].budget)
        BY <3>1
      <3> QED
        BY <3>1, <3>2 DEF n, Unfilled
    <2>7. Cardinality(Unfilled(g)) \in Nat \ {0} /\ GroupActive(g) \in Nat
      BY <2>6, GroupCounts, FS_EmptySet
    <2> QED
      BY <2>2, <2>5, <2>7 DEF Committed
  <1> QED
    BY <1>1, ServiceInvariant, NothingIsLost, PTL

-----------------------------------------------------------------------------
(* The budget                                                              *)

\* The tasks of the group's members.
Tasks(g) == {e \in Entry : \E m \in groups[g].members : e \in active[m]}

\* Slots that are given up are at most reserved again: what a member newly
\* withholds can be paired with a task it no longer has.
LEMMA ReleasedIsEnough ==
  ASSUME ServiceInv, TypeOK', NEW g \in Group, groups'[g] = groups[g],
         \A m \in Lane : active'[m] \subseteq active[m]
  PROVE  /\ Committed(g)' <= Committed(g)
         /\ Committed(g)' \in Nat /\ Committed(g) \in Nat
  <1> USE DEF ServiceInv, WakeupInv
  <1>1. IsFiniteSet(Entry)
    BY BoundsAssumption, FS_Interval DEF Entry
  <1>2. groups[g].members \subseteq Lane /\ groups[g].budget \in Nat
    BY DEF TypeOK, GroupSpec
  <1> DEFINE n(m) == Cardinality(active'[m])
             Gone(m) == active[m] \ active'[m]
             b == [m \in Lane |-> CHOOSE f : f \in Bijection(1..Cardinality(Gone(m)), Gone(m))]
             New == Unfilled(g)' \ Unfilled(g)
             pair == [r \in New |-> b[r[1]][r[2] - n(r[1])]]
  <1>3. ASSUME NEW m \in Lane
        PROVE  /\ n(m) \in Nat /\ Cardinality(Gone(m)) \in Nat
               /\ ActiveCount(m) = n(m) + Cardinality(Gone(m))
               /\ b[m] \in Bijection(1..Cardinality(Gone(m)), Gone(m))
    <2>1. active[m] \subseteq Entry /\ active'[m] \subseteq active[m]
      BY DEF TypeOK
    <2>2. IsFiniteSet(active[m]) /\ IsFiniteSet(active'[m]) /\ IsFiniteSet(Gone(m))
      BY <1>1, <2>1, FS_Subset
    <2>3. active[m] = active'[m] \cup Gone(m) /\ active'[m] \cap Gone(m) = {}
      BY <2>1
    <2>4. n(m) \in Nat /\ Cardinality(Gone(m)) \in Nat
      BY <2>2, FS_CardinalityType
    <2>5. Cardinality(active'[m] \cup Gone(m))
            = n(m) + Cardinality(Gone(m)) - Cardinality(active'[m] \cap Gone(m))
      BY <2>2, FS_Union
    <2>6. ActiveCount(m) = n(m) + Cardinality(Gone(m))
      <3>1. Cardinality(active'[m] \cap Gone(m)) = 0
        BY <2>3, FS_EmptySet
      <3>2. Cardinality(active[m]) = n(m) + Cardinality(Gone(m)) - 0
        BY <2>3, <2>5, <3>1
      <3> HIDE DEF n, Gone
      <3> QED
        BY <2>4, <3>2 DEF ActiveCount
    <2>7. \E f : f \in Bijection(1..Cardinality(Gone(m)), Gone(m))
      BY <2>2, FS_CardinalityType DEF ExistsBijection
    <2> QED
      BY <2>4, <2>6, <2>7
  <1>3a. \A r \in New : pair[r] = b[r[1]][r[2] - n(r[1])]
    OBVIOUS
  <1>3b. \A r \in New : /\ r \in groups[g].members \X (1..groups[g].budget)
                       /\ n(r[1]) < r[2] /\ r[2] <= groups[g].reserve[r[1]]
                       /\ ~(ActiveCount(r[1]) < r[2])
    BY DEF Unfilled, ActiveCount
  <1>3c. DOMAIN pair = New /\ pair = [r \in New |-> pair[r]]
    OBVIOUS
  <1>3d. Unfilled(g)' \subseteq Unfilled(g) \cup New
    OBVIOUS
  <1>3e. \A m \in Lane : Gone(m) \subseteq active[m] /\ Gone(m) \cap active'[m] = {}
    OBVIOUS
  <1> HIDE DEF pair, b, New, n, Gone
  <1>4. ASSUME NEW r \in New
        PROVE  /\ r[1] \in groups[g].members /\ r[1] \in Lane /\ r[2] \in Nat
               /\ r = <<r[1], r[2]>>
               /\ r[2] - n(r[1]) \in 1..Cardinality(Gone(r[1]))
               /\ pair[r] \in Gone(r[1])
    <2>1. /\ r \in groups[g].members \X (1..groups[g].budget)
          /\ n(r[1]) < r[2] /\ ~(ActiveCount(r[1]) < r[2])
      BY <1>3b
    <2>2. r[1] \in groups[g].members /\ r[1] \in Lane /\ r[2] \in Nat /\ r = <<r[1], r[2]>>
      BY <1>2, <2>1
    <2>3. r[2] - n(r[1]) \in 1..Cardinality(Gone(r[1]))
      BY <1>3, <2>1, <2>2
    <2>4. b[r[1]][r[2] - n(r[1])] \in Gone(r[1])
      BY <1>3, <2>2, <2>3 DEF Bijection, Surjection
    <2> QED
      BY <1>3a, <2>2, <2>3, <2>4
  <1>5. \A l, m \in Lane : l # m => active[l] \cap active[m] = {}
    BY DEF SlotsAreCurrentTasks
  <1>6. Tasks(g)' \subseteq Tasks(g)
    BY <1>2 DEF Tasks
  <1>7. ASSUME NEW r \in New PROVE pair[r] \in Tasks(g) \ Tasks(g)'
    <2>1. pair[r] \in active[r[1]] /\ pair[r] \in Entry /\ pair[r] \in Tasks(g)
      BY <1>3e, <1>4 DEF Tasks, TypeOK
    <2>2. ASSUME NEW m \in groups[g].members PROVE pair[r] \notin active'[m]
      BY <1>2, <1>3e, <1>4, <1>5, <2>1
    <2> QED
      BY <2>1, <2>2 DEF Tasks
  <1>8. pair \in Injection(New, Tasks(g) \ Tasks(g)')
    <2>1. pair \in [New -> Tasks(g) \ Tasks(g)']
      BY <1>3c, <1>7
    <2>2. ASSUME NEW r \in New, NEW t \in New, pair[r] = pair[t] PROVE r = t
      <3>1. r[1] = t[1]
        BY <1>3e, <1>4, <1>5, <2>2
      <3>2. b[r[1]][r[2] - n(r[1])] = b[r[1]][t[2] - n(r[1])]
        BY <1>3a, <2>2, <3>1
      <3>3. r[2] - n(r[1]) = t[2] - n(r[1])
        BY <1>3, <1>4, <3>1, <3>2 DEF Bijection, Injection, IsInjective
      <3>4. r[2] = t[2]
        BY <1>3, <1>4, <3>3
      <3> QED
        BY <1>4, <3>1, <3>4
    <2> QED
      BY <1>3c, <2>1, <2>2 DEF Injection, IsInjective
  <1>9. IsFiniteSet(Tasks(g)) /\ IsFiniteSet(Tasks(g)') /\ IsFiniteSet(Tasks(g) \ Tasks(g)')
    BY <1>1, <1>6, FS_Subset DEF Tasks
  <1>10. /\ IsFiniteSet(New) /\ Cardinality(New) <= Cardinality(Tasks(g) \ Tasks(g)')
         /\ Cardinality(New) \in Nat
    BY <1>8, <1>9, FS_Injection, FS_CardinalityType
  <1>11. Cardinality(Tasks(g) \ Tasks(g)') = Cardinality(Tasks(g)) - Cardinality(Tasks(g)')
    <2>1. Tasks(g) \cap Tasks(g)' = Tasks(g)'
      BY <1>6
    <2> QED
      BY <1>9, <2>1, FS_Difference
  <1>12. IsFiniteSet(Unfilled(g)) /\ Cardinality(Unfilled(g)) \in Nat
    BY GroupCounts
  <1>13. /\ Cardinality(Unfilled(g)') <= Cardinality(Unfilled(g)) + Cardinality(New)
         /\ Cardinality(Unfilled(g)') \in Nat
    <2>2. /\ IsFiniteSet(Unfilled(g) \cup New)
          /\ Cardinality(Unfilled(g) \cup New)
               = Cardinality(Unfilled(g)) + Cardinality(New)
                 - Cardinality(Unfilled(g) \cap New)
      BY <1>10, <1>12, FS_Union
    <2>3. Cardinality(Unfilled(g) \cap New) \in Nat
      BY <1>12, FS_Subset, FS_CardinalityType
    <2>4. /\ IsFiniteSet(Unfilled(g)')
          /\ Cardinality(Unfilled(g)') <= Cardinality(Unfilled(g) \cup New)
      BY <1>3d, <2>2, FS_Subset
    <2>5. Cardinality(Unfilled(g)') \in Nat
      BY <2>4, FS_CardinalityType
    <2> QED
      BY <1>10, <1>12, <2>2, <2>3, <2>4, <2>5
  <1>14. Cardinality(Tasks(g)) \in Nat /\ Cardinality(Tasks(g)') \in Nat
    BY <1>9, FS_CardinalityType
  <1>15. /\ Committed(g) = Cardinality(Tasks(g)) + Cardinality(Unfilled(g))
         /\ Committed(g)' = Cardinality(Tasks(g)') + Cardinality(Unfilled(g)')
    BY DEF Committed, GroupActive, Tasks
  <1> QED
    BY <1>10, <1>11, <1>12, <1>13, <1>14, <1>15

\* A member that starts a task fills its reservation, or takes a slot that
\* nobody uses or reserves.
LEMMA StartIsPaid ==
  ASSUME ServiceInv, NEW g \in Group, NEW l \in Lane, NEW e \in Entry, GroupStart(g, l, e),
         Committed(g) <= groups[g].budget
  PROVE  Committed(g)' <= groups[g].budget
  <1> USE DEF ServiceInv, WakeupInv
  <1> DEFINE s == groups[g]
             k == ActiveCount(l)
  <1>1. /\ IsHead(e, l) /\ active' = [active EXCEPT ![l] = @ \cup {e}] /\ groups' = groups
        /\ l \in s.members /\ BlockReason(l) = "none"
    BY DEF GroupStart, Admit, Selected, Candidate, Startable, configVars
  <1>2. groupOf[l] = g /\ g # NoGroup
    BY <1>1, LaneAssumption DEF RegistryConsistent
  <1>3. /\ k \in Nat /\ s.budget \in Nat /\ s.reserve[l] \in Nat
        /\ s.reserve[l] <= s.budget /\ s.members \subseteq Lane
    BY CountNat DEF TypeOK, GroupSpec, ReserveWithinBudget
  <1>4. /\ GroupActive(g) \in Nat /\ IsFiniteSet(Unfilled(g))
        /\ Cardinality(Unfilled(g)) \in Nat
    BY GroupCounts
  <1>5. \A m \in Lane : e \notin active[m]
    BY <1>1 DEF SlotsAreCurrentTasks, IsHead, Queued
  <1>6. \A m \in Lane : active'[m] = IF m = l THEN active[m] \cup {e} ELSE active[m]
    BY <1>1 DEF TypeOK
  <1>7. IsFiniteSet(active[l]) /\ IsFiniteSet(Tasks(g))
    <2>1. IsFiniteSet(Entry)
      BY BoundsAssumption, FS_Interval DEF Entry
    <2> QED
      BY <2>1, FS_Subset DEF TypeOK, Tasks
  <1>8. ActiveCount(l)' = k + 1 /\ \A m \in Lane \ {l} : ActiveCount(m)' = ActiveCount(m)
    BY <1>5, <1>6, <1>7, FS_AddElement DEF ActiveCount
  <1>9. GroupActive(g)' = GroupActive(g) + 1
    <2>1. Tasks(g)' = Tasks(g) \cup {e}
      BY <1>1, <1>3, <1>6 DEF Tasks
    <2>2. e \notin Tasks(g)
      BY <1>3, <1>5 DEF Tasks
    <2>3. Cardinality(Tasks(g)') = Cardinality(Tasks(g)) + 1
      BY <1>7, <2>1, <2>2, FS_AddElement
    <2> QED
      BY <2>3 DEF GroupActive, Tasks
  <1>10. \A r \in s.members \X (1..s.budget) :
            /\ r[1] \in Lane /\ r[2] \in Nat /\ r = <<r[1], r[2]>>
            /\ r \in Unfilled(g) <=> ActiveCount(r[1]) < r[2] /\ r[2] <= s.reserve[r[1]]
            /\ r \in Unfilled(g)' <=>
                  (IF r[1] = l THEN k + 1 ELSE ActiveCount(r[1])) < r[2]
                  /\ r[2] <= s.reserve[r[1]]
    BY <1>1, <1>3, <1>8 DEF Unfilled
  <1>11. /\ Unfilled(g) \subseteq s.members \X (1..s.budget)
         /\ Unfilled(g)' \subseteq s.members \X (1..s.budget)
    BY <1>1 DEF Unfilled
  <1>12. /\ Committed(g) = GroupActive(g) + Cardinality(Unfilled(g))
         /\ Committed(g)' = GroupActive(g) + 1 + Cardinality(Unfilled(g)')
    BY <1>9 DEF Committed
  <1>13. CASE k < s.reserve[l]
    <2>1. <<l, k + 1>> \in s.members \X (1..s.budget)
      BY <1>1, <1>3, <1>13
    <2>2. k < k + 1 /\ k + 1 <= s.reserve[l]
      BY <1>3, <1>13
    <2>3. <<l, k + 1>> \in Unfilled(g)
      BY <1>10, <2>1, <2>2
    <2>4. Unfilled(g)' = Unfilled(g) \ {<<l, k + 1>>}
      <3>1. ASSUME NEW r \in s.members \X (1..s.budget)
            PROVE  r \in Unfilled(g)' <=> r \in Unfilled(g) /\ r # <<l, k + 1>>
        <4> HIDE DEF k, s
        <4>1. CASE r[1] = l
          <5>1. r = <<l, k + 1>> <=> r[2] = k + 1
            BY <1>10, <4>1
          <5>2. k + 1 < r[2] <=> k < r[2] /\ r[2] # k + 1
            BY <1>3, <1>10
          <5> QED
            BY <1>10, <4>1, <5>1, <5>2 DEF k
        <4>2. CASE r[1] # l
          BY <1>10, <4>2
        <4> QED
          BY <4>1, <4>2
      <3> QED
        BY <1>11, <3>1
    <2>5. Cardinality(Unfilled(g)') = Cardinality(Unfilled(g)) - 1
      <3> DEFINE U == Unfilled(g)
                 x == <<l, k + 1>>
      <3>1. IsFiniteSet(U) /\ x \in U
        BY <1>4, <2>3
      <3> HIDE DEF U, x
      <3>2. Cardinality(U \ {x}) = Cardinality(U) - 1
        BY <3>1, FS_RemoveElement
      <3> QED
        BY <2>4, <3>2 DEF U, x
    <2> QED
      BY <1>3, <1>4, <1>12, <2>5
  <1>14. CASE ~(k < s.reserve[l])
    <2>1. Unfilled(g)' = UnfilledExcept(g, l) /\ Unfilled(g) = UnfilledExcept(g, l)
      <3>0. UnfilledExcept(g, l) \subseteq s.members \X (1..s.budget)
        BY DEF UnfilledExcept
      <3>1. ASSUME NEW r \in s.members \X (1..s.budget)
            PROVE  /\ r \in Unfilled(g)' <=> r \in UnfilledExcept(g, l)
                   /\ r \in Unfilled(g) <=> r \in UnfilledExcept(g, l)
        <4>1. CASE r[1] = l
          <5>1. r \notin UnfilledExcept(g, l)
            BY <4>1 DEF UnfilledExcept
          <5>2. ~(k < r[2] /\ r[2] <= s.reserve[l]) /\ ~(k + 1 < r[2] /\ r[2] <= s.reserve[l])
            BY <1>3, <1>10, <1>14
          <5> QED
            BY <1>10, <4>1, <5>1, <5>2
        <4>2. CASE r[1] # l
          <5>1. r \in UnfilledExcept(g, l) <=>
                   ActiveCount(r[1]) < r[2] /\ r[2] <= s.reserve[r[1]]
            BY <4>2 DEF UnfilledExcept
          <5> QED
            BY <1>10, <4>2, <5>1
        <4> QED
          BY <4>1, <4>2
      <3> QED
        BY <1>11, <3>0, <3>1
    <2>2. GroupActive(g) + Cardinality(UnfilledExcept(g, l)) < s.budget
      BY <1>1, <1>2, <1>14 DEF BlockReason
    <2> QED
      BY <1>3, <1>4, <1>12, <2>1, <2>2
  <1> QED
    BY <1>13, <1>14

\* A step that leaves the lanes of a group alone leaves its commitments alone.
LEMMA SameCommitment ==
  ASSUME NEW g \in Group, groups'[g] = groups[g],
         \A m \in groups[g].members : active'[m] = active[m]
  PROVE  Committed(g)' = Committed(g)
  <1>1. \A m \in groups[g].members : ActiveCount(m)' = ActiveCount(m)
    BY DEF ActiveCount
  <1>2. GroupActive(g)' = GroupActive(g)
    BY DEF GroupActive
  <1>3. Unfilled(g)' = Unfilled(g)
    BY <1>1 DEF Unfilled
  <1> QED
    BY <1>2, <1>3 DEF Committed

\* What a step leaves of the budgets it does not publish.
Within == \A g \in Group :
  groups'[g] = groups[g] /\ Committed(g) <= groups[g].budget
     => Committed(g)' <= groups[g].budget

\* A group within its budget stays there whoever starts, ends, times out or is
\* reset.
LEMMA BudgetStep == ServiceInv /\ [Next]_vars => Within
  <1> SUFFICES ASSUME ServiceInv, [Next]_vars, NEW g \in Group, groups'[g] = groups[g],
                      Committed(g) <= groups[g].budget
               PROVE  Committed(g)' <= groups[g].budget
    BY DEF Within
  <1> USE DEF ServiceInv, WakeupInv
  <1>1. TypeOK'
    BY NextType
  <1>2. groups[g].members \subseteq Lane /\ groups[g].budget \in Nat
    BY DEF TypeOK, GroupSpec
  <1>3. ASSUME \A m \in groups[g].members : active'[m] = active[m]
        PROVE  Committed(g)' <= groups[g].budget
    BY <1>3, SameCommitment
  <1>4. ASSUME \A m \in Lane : active'[m] \subseteq active[m]
        PROVE  Committed(g)' <= groups[g].budget
    <2>1. /\ Committed(g)' <= Committed(g)
          /\ Committed(g)' \in Nat /\ Committed(g) \in Nat
      BY <1>1, <1>4, ReleasedIsEnough
    <2> QED
      BY <1>2, <2>1
  <1>5. ASSUME NEW l \in Lane, NEW e \in Entry, LaneStart(l, e)
        PROVE  Committed(g)' <= groups[g].budget
    <2>1. calls \in Seq(Frame) /\ calls # <<>>
      BY <1>5 DEF LaneStart, TopIs, TypeOK
    <2>2. Len(calls) \in 1..Len(calls)
      BY <2>1, StackFacts
    <2>3. groupOf[l] = NoGroup
      BY <1>5, <2>2 DEF LaneStart, TopIs, Top, StackInv, FrameOwner
    <2>4. l \notin groups[g].members
      BY <2>3, LaneAssumption DEF RegistryConsistent
    <2>5. \A m \in groups[g].members : active'[m] = active[m]
      BY <1>2, <1>5, <2>4 DEF LaneStart, Admit, TypeOK
    <2> QED
      BY <1>3, <2>5
  <1>6. ASSUME NEW h \in Group, NEW l \in Lane, NEW e \in Entry, GroupStart(h, l, e)
        PROVE  Committed(g)' <= groups[g].budget
    <2>1. CASE h = g
      BY <1>6, <2>1, StartIsPaid
    <2>2. CASE h # g
      <3>1. l \in groups[h].members
        BY <1>6 DEF GroupStart, Selected, Candidate
      <3>2. l \notin groups[g].members
        BY <2>2, <3>1 DEF RegistryConsistent
      <3>3. \A m \in groups[g].members : active'[m] = active[m]
        BY <1>2, <1>6, <3>2 DEF GroupStart, Admit, TypeOK
      <3> QED
        BY <1>3, <3>3
    <2> QED
      BY <2>1, <2>2
  <1>7. ASSUME NEW e \in Entry, TaskFinish(e) \/ TaskTimeout(e)
        PROVE  Committed(g)' <= groups[g].budget
    <2>1. laneOf[e] \in Lane /\ Complete(e)
      BY <1>7 DEF TypeOK, TaskFinish, TaskTimeout
    <2>2. \A m \in Lane : active'[m] \subseteq active[m]
      BY <2>1 DEF Complete, TypeOK
    <2> QED
      BY <1>4, <2>2
  <1>8. ASSUME (\E l \in Lane : ResetLane(l)) \/ ResetAllLanes
        PROVE  Committed(g)' <= groups[g].budget
    <2>1. \A m \in Lane : active'[m] \subseteq active[m]
      BY <1>8 DEF ResetLane, ResetAllLanes, TypeOK
    <2> QED
      BY <1>4, <2>1
  <1> QED
    BY <1>3, <1>5, <1>6, <1>7, <1>8
       DEF Next, RunToCompletion, Handler, CallbackReturn, LaneReturn, GroupReturn,
           DrainNext, Enqueue, OrphanEnd, ClearLane, SetConcurrency, Publish, Install,
           CloseAdmission, ReopenAdmission, vars

\* No step takes a group out of its budget, for any members, budgets and
\* reservations (resolveLaneBlockReason).
THEOREM BudgetIsKept == Spec => BudgetKept
  <1>1. Spec => [][Within]_vars
    BY BudgetStep, ServiceInvariant, PTL DEF Spec
  <1> QED
    BY <1>1 DEF BudgetKept, Within

\* A group that a publication takes a lane from, or leaves alone, uses and
\* withholds no more than before.
LEMMA TakenIsLess ==
  ASSUME TypeOK, NEW g \in Group, active' = active,
         groups'[g].members \subseteq groups[g].members,
         groups'[g].budget = groups[g].budget, groups'[g].reserve = groups[g].reserve
  PROVE  /\ Committed(g)' <= Committed(g)
         /\ Committed(g)' \in Nat /\ Committed(g) \in Nat
  <1>1. IsFiniteSet(Entry) /\ IsFiniteSet(Tasks(g)) /\ Tasks(g)' \subseteq Tasks(g)
    <2>1. IsFiniteSet(Entry)
      BY BoundsAssumption, FS_Interval DEF Entry
    <2> QED
      BY <2>1, FS_Subset DEF Tasks
  <1>2. /\ Cardinality(Tasks(g)) \in Nat /\ Cardinality(Tasks(g)') \in Nat
        /\ Cardinality(Tasks(g)') <= Cardinality(Tasks(g))
    BY <1>1, FS_Subset, FS_CardinalityType
  <1>3. Unfilled(g)' \subseteq Unfilled(g)
    BY DEF Unfilled, ActiveCount
  <1>4. /\ Cardinality(Unfilled(g)) \in Nat /\ Cardinality(Unfilled(g)') \in Nat
        /\ Cardinality(Unfilled(g)') <= Cardinality(Unfilled(g))
    <2>1. IsFiniteSet(Unfilled(g))
      BY GroupCounts
    <2> QED
      BY <1>3, <2>1, FS_Subset, FS_CardinalityType
  <1>5. /\ Committed(g) = Cardinality(Tasks(g)) + Cardinality(Unfilled(g))
        /\ Committed(g)' = Cardinality(Tasks(g)') + Cardinality(Unfilled(g)')
    BY DEF Committed, GroupActive, Tasks
  <1> QED
    BY <1>2, <1>4, <1>5

\* A publication starts nothing: the group it installs is within its budget when
\* the tasks that ran before are, and every other group only gives lanes up.
LEMMA PublishedStep ==
  ASSUME ServiceInv, PublishedBudgetHolds, NEW p \in Publications, Publish(p)
  PROVE  PublishedBudgetHolds'
  <1> USE DEF ServiceInv, WakeupInv
  <1> SUFFICES ASSUME NEW g \in covered' PROVE Committed(g)' <= groups'[g].budget
    BY DEF PublishedBudgetHolds
  <1>1. active' = active /\ covered' = CoveredBy(p) /\ p \in Publication
    BY PublicationAssumption DEF Publish, Install
  <1>2. covered \subseteq Group /\ groups \in [Group -> GroupSpec]
    BY DEF TypeOK
  <1>3. CASE g \in Group /\ g = p.group /\ Covers(p.spec)
    <2>1. p.group # NoGroup
      BY <1>3, LaneAssumption
    <2>2. groups'[g] = p.spec
      BY <1>3, <2>1 DEF Publish, Install, InstalledGroups
    <2> QED
      BY <1>1, <1>3, <2>2 DEF Covers, Committed, GroupActive, Unfilled, ActiveCount
  <1>4. CASE g \in covered /\ g \notin p.clear /\ g # p.group
    <2>1. g \in Group /\ groups[g] \in GroupSpec
      BY <1>2, <1>4
    <2>2. ClearedGroups(p)[g] = groups[g]
      BY <1>4, <2>1 DEF ClearedGroups
    <2>3. /\ groups'[g].members \subseteq groups[g].members
          /\ groups'[g].budget = groups[g].budget /\ groups'[g].reserve = groups[g].reserve
      BY <1>4, <2>1, <2>2 DEF Publish, Install, InstalledGroups, GroupSpec
    <2>4. /\ Committed(g)' <= Committed(g)
          /\ Committed(g)' \in Nat /\ Committed(g) \in Nat
      BY <1>1, <2>1, <2>3, TakenIsLess
    <2>5. Committed(g) <= groups[g].budget /\ groups[g].budget \in Nat
      BY <1>4, <2>1 DEF PublishedBudgetHolds, GroupSpec
    <2> QED
      BY <2>3, <2>4, <2>5
  <1> QED
    BY <1>1, <1>3, <1>4 DEF CoveredBy

\* Whatever a publication finds queued, it takes no group above the budget it
\* brings: only tasks that already ran can (publishLaneConfiguration).
THEOREM PublishedBudgetsHold == Spec => []PublishedBudgetHolds
  <1>1. Init => PublishedBudgetHolds
    BY DEF Init, PublishedBudgetHolds
  <1>2. ASSUME ServiceInv, PublishedBudgetHolds, [Next]_vars
        PROVE  PublishedBudgetHolds'
    <2> USE DEF ServiceInv, WakeupInv
    <2>1. ASSUME covered' = covered, groups' = groups PROVE PublishedBudgetHolds'
      <3>1. covered \subseteq Group
        BY <1>2 DEF TypeOK
      <3> QED
        BY <1>2, <2>1, <3>1, BudgetStep DEF Within, PublishedBudgetHolds
    <2>2. ASSUME NEW p \in Publications, Publish(p) PROVE PublishedBudgetHolds'
      BY <1>2, <2>2, PublishedStep
    <2> QED
      BY <1>2, <2>1, <2>2
         DEF Next, RunToCompletion, Handler, LaneStart, CallbackReturn, LaneReturn,
             GroupStart, GroupReturn, DrainNext, Enqueue, TaskFinish, TaskTimeout,
             OrphanEnd, ClearLane, ResetLane, ResetAllLanes, SetConcurrency,
             CloseAdmission, ReopenAdmission, vars, configVars
  <1> QED
    BY <1>1, <1>2, ServiceInvariant, PTL DEF Spec

=============================================================================
