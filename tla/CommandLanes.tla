---------------------------- MODULE CommandLanes ----------------------------
(***************************************************************************)
(* The in-process command queue of src/src/process: named lanes with a     *)
(* width, three priorities, and capacity groups that share one budget      *)
(* among several lanes (command-queue.ts, command-queue.capacity-groups.ts)*)
(*                                                                         *)
(* The program runs one JavaScript thread.  A handler (an enqueue, a task  *)
(* completion, a reset, a publication...) runs to its end before the next  *)
(* one starts, except that the drain loop calls an entry's onWait callback *)
(* with the loop still on the call stack, and that callback may enqueue.   *)
(* `calls' is that stack, so re-entrant drains are explored, and a handler *)
(* of the event loop is taken only when the stack is empty.                *)
(*                                                                         *)
(* An entry is named by its queue sequence number, which orders entries of *)
(* one priority; it also stands for the task id, because an entry is       *)
(* started at most once.  The three rings of a lane are the set of its     *)
(* queued entries ordered by Before: LaneRing shows that the rings do so.  *)
(***************************************************************************)
EXTENDS Integers, Sequences, FiniteSets

CONSTANTS
  Lane,            \* the static lanes (lanes.ts); scoped lanes: ScopedLanes
  GroupEligible,   \* the lanes that no other lane awaits synchronously
  Group, NoGroup,  \* capacity group ids, and "no owner"
  Widths,          \* the widths setCommandLaneConcurrency is called with
  Publications,    \* the transactions publishLaneConfiguration is called with
  InitialWidth,    \* lane widths when the run starts
  Priorities,      \* bound: the priorities entries are enqueued with
  MaxEntries,      \* bound: entries accepted in one behaviour
  MaxGeneration    \* bound: generations of one lane

Entry == 1..MaxEntries
Priority == {-1, 0, 1}
Status == {"new", "queued", "running", "orphaned", "done", "cleared"}
GroupSpec == [budget : Nat, members : SUBSET Lane, reserve : [Lane -> Nat]]
Publication == [lanes : SUBSET Lane, widths : [Lane -> Nat],
                clear : SUBSET Group, group : Group \cup {NoGroup},
                spec : GroupSpec]

\* A group that is not in the registry has no members.
EmptySpec == [budget |-> 0, members |-> {}, reserve |-> [l \in Lane |-> 0]]

\* validateCommandLaneGroupSpec: a publication that fails it changes nothing.
ValidSpec(s) ==
  /\ s.members \subseteq GroupEligible
  /\ \A l \in Lane : s.reserve[l] > 0 => l \in s.members /\ s.reserve[l] <= s.budget
  /\ Cardinality({r \in s.members \X (1..s.budget) : r[2] <= s.reserve[r[1]]})
        <= s.budget

ASSUME BoundsAssumption == /\ MaxEntries \in Nat /\ MaxGeneration \in Nat
                           /\ Priorities \subseteq Priority
ASSUME LaneAssumption == /\ IsFiniteSet(Lane) /\ Lane # {} /\ GroupEligible \subseteq Lane
                         /\ NoGroup \notin Group
ASSUME WidthAssumption == Widths \subseteq Nat /\ InitialWidth \in [Lane -> Nat]
ASSUME PublicationAssumption == Publications \subseteq Publication

VARIABLES
  status, laneOf, prio, gen,  \* per entry: progress, lane, priority, generation
  nextSeq,                    \* nextQueueSequence
  active,                     \* lane -> entries holding a slot (activeTaskIds)
  width,                      \* lane -> maxConcurrent
  generation,                 \* lane -> generation
  draining,                   \* lanes whose drain loop is on the stack
  groups, groupOf,            \* the registry's two maps
  drainingGroups,             \* DRAINING_GROUPS
  calls,                      \* the stack of drain calls, innermost last
  todo,                       \* lanes a publication or resetAllLanes has yet to drain
  closed,                     \* subordinate work admission is closed
  covered                     \* history: the groups whose latest publication began
                              \* with running tasks its budget covers

entryVars == <<status, laneOf, prio, gen, nextSeq>>
configVars == <<width, groups, groupOf, covered>>
callVars == <<draining, drainingGroups, calls>>
vars == <<entryVars, configVars, callVars, active, generation, todo, closed>>

LaneFrame == [op : {"lane"}, lane : Lane, single : BOOLEAN, waiting : BOOLEAN]
GroupFrame == [op : {"group"}, group : Group]
Frame == LaneFrame \cup GroupFrame

-----------------------------------------------------------------------------
(* Queues and capacity                                                     *)

Queued(l) == {e \in Entry : status[e] = "queued" /\ laneOf[e] = l}

\* Fault: the newest entry of a priority goes first.
BeforeNewestFirst(e, f) == prio[e] > prio[f] \/ (prio[e] = prio[f] /\ e > f)

\* Priority first, then age: the order of dequeueLaneQueue and of the arbiter.
Before(e, f) == prio[e] > prio[f] \/ (prio[e] = prio[f] /\ e < f)

IsHead(e, l) == e \in Queued(l) /\ \A f \in Queued(l) \ {e} : Before(e, f)

ActiveCount(l) == Cardinality(active[l])

\* The tasks of every member, counted from the lanes themselves.
GroupActive(g) ==
  Cardinality({e \in Entry : \E m \in groups[g].members : e \in active[m]})

\* Fault: an idle sibling's reservation may be borrowed.
UnfilledOfBusyOnly(g, l) ==
  {r \in (groups[g].members \ {l}) \X (1..groups[g].budget) :
      /\ active[r[1]] # {}
      /\ ActiveCount(r[1]) < r[2] /\ r[2] <= groups[g].reserve[r[1]]}

\* The slots held back for members other than l: those of their reservations
\* they have not filled, one pair per slot.
UnfilledExcept(g, l) ==
  {r \in (groups[g].members \ {l}) \X (1..groups[g].budget) :
      ActiveCount(r[1]) < r[2] /\ r[2] <= groups[g].reserve[r[1]]}

\* Fault: a member's own reservation does not entitle it to a slot.
BlockReasonNoClaim(l) ==
  LET g == groupOf[l] IN
  IF ActiveCount(l) >= width[l] THEN "lane"
  ELSE IF g = NoGroup THEN "none"
  ELSE IF GroupActive(g) + Cardinality(UnfilledExcept(g, l)) < groups[g].budget
       THEN "none" ELSE "group-budget"

\* resolveLaneBlockReason, from the narrowest cause outward: a member may claim
\* its own reservation and may borrow what siblings neither use nor reserve.
BlockReason(l) ==
  LET g == groupOf[l] IN
  IF ActiveCount(l) >= width[l] THEN "lane"
  ELSE IF g = NoGroup THEN "none"
  ELSE IF GroupActive(g) >= groups[g].budget THEN "group-budget"
  ELSE IF \/ ActiveCount(l) < groups[g].reserve[l]
          \/ GroupActive(g) + Cardinality(UnfilledExcept(g, l)) < groups[g].budget
       THEN "none" ELSE "sibling-reservation"

Startable(l) == Queued(l) # {} /\ BlockReason(l) = "none"

-----------------------------------------------------------------------------
(* The call stack                                                          *)

Idle == calls = <<>> /\ todo = {}

Top == calls[Len(calls)]
TopIs(op) == calls # <<>> /\ Top.op = op
Pop == SubSeq(calls, 1, Len(calls) - 1)

\* The innermost drain is inside an onWait callback.
InCallback == TopIs("lane") /\ Top.waiting

\* Fault: a completion drains its own lane and forgets the siblings.
DrainOwnLane(l) ==
  IF l \in draining THEN UNCHANGED callVars
  ELSE /\ draining' = draining \cup {l}
       /\ calls' = Append(calls, [op |-> "lane", lane |-> l,
                                  single |-> FALSE, waiting |-> FALSE])
       /\ UNCHANGED drainingGroups

\* drainReadyCommandLane: the lane's group if it has one, else the lane; a
\* drain already on the stack makes the call return at once.
DrainReady(l) ==
  LET g == groupOf[l] IN
  \/ /\ g # NoGroup /\ g \notin drainingGroups
     /\ drainingGroups' = drainingGroups \cup {g}
     /\ calls' = Append(calls, [op |-> "group", group |-> g])
     /\ UNCHANGED draining
  \/ /\ g = NoGroup /\ l \notin draining
     /\ draining' = draining \cup {l}
     /\ calls' = Append(calls, [op |-> "lane", lane |-> l,
                                single |-> FALSE, waiting |-> FALSE])
     /\ UNCHANGED drainingGroups
  \/ /\ IF g = NoGroup THEN l \in draining ELSE g \in drainingGroups
     /\ UNCHANGED callVars

\* The body of the drain loop up to the callback: the slot is taken before
\* anything the caller supplied can run.
Admit(e, l) ==
  /\ IsHead(e, l)
  /\ status' = [status EXCEPT ![e] = "running"]
  /\ gen' = [gen EXCEPT ![e] = generation[l]]
  /\ active' = [active EXCEPT ![l] = @ \cup {e}]

\* drainLane, one iteration of an ungrouped lane's loop.
LaneStart(l, e) ==
  /\ TopIs("lane") /\ Top.lane = l /\ ~Top.single /\ ~Top.waiting
  /\ BlockReason(l) = "none"
  /\ Admit(e, l)
  /\ calls' = Append(Pop, [Top EXCEPT !.waiting = TRUE])
  /\ UNCHANGED <<laneOf, prio, nextSeq, configVars, draining, drainingGroups,
                 generation, todo, closed>>

\* The callback returns, or there was none to call.
CallbackReturn ==
  /\ InCallback
  /\ calls' = Append(Pop, [Top EXCEPT !.waiting = FALSE])
  /\ UNCHANGED <<entryVars, configVars, draining, drainingGroups, active,
                 generation, todo, closed>>

\* drainLane leaves its loop: the bounded call after its one start, the
\* unbounded one when the lane cannot start anything.
LaneReturn(l) ==
  /\ TopIs("lane") /\ Top.lane = l /\ ~Top.waiting
  /\ Top.single \/ ~Startable(l)
  /\ draining' = draining \ {l}
  /\ calls' = Pop
  /\ UNCHANGED <<entryVars, configVars, drainingGroups, active, generation,
                 todo, closed>>

\* resolveNextGroupLane: members whose drain is not running and whose head
\* could start now, and the one whose head comes first.
Candidate(g, l) == l \in groups[g].members \ draining /\ Startable(l)

\* Fault: the first admissible member is taken, whatever its head.
SelectedAnyMember(g, l, e) == Candidate(g, l) /\ IsHead(e, l)

Selected(g, l, e) ==
  /\ Candidate(g, l) /\ IsHead(e, l)
  /\ \A m \in groups[g].members : Candidate(g, m) =>
        \A f \in Entry : IsHead(f, m) /\ f # e => Before(e, f)

\* drainCommandLaneGroup, one iteration: the bounded drainLane call has just
\* had its conditions tested by the selection, so it starts exactly one task.
GroupStart(g, l, e) ==
  /\ TopIs("group") /\ Top.group = g
  /\ Selected(g, l, e)
  /\ Admit(e, l)
  /\ draining' = draining \cup {l}
  /\ calls' = Append(calls, [op |-> "lane", lane |-> l,
                             single |-> TRUE, waiting |-> TRUE])
  /\ UNCHANGED <<laneOf, prio, nextSeq, configVars, drainingGroups,
                 generation, todo, closed>>

GroupReturn(g) ==
  /\ TopIs("group") /\ Top.group = g
  /\ \A l \in Lane : ~Candidate(g, l)
  /\ drainingGroups' = drainingGroups \ {g}
  /\ calls' = Pop
  /\ UNCHANGED <<entryVars, configVars, draining, active, generation, todo, closed>>

\* The commit pass of publishLaneConfiguration and the last loop of
\* resetAllLanes: a lane with nothing to start makes its drain return at once.
DrainNext(l) ==
  /\ calls = <<>> /\ l \in todo
  /\ todo' = todo \ {l}
  /\ IF width[l] > 0 /\ Queued(l) # {} THEN DrainReady(l) ELSE UNCHANGED callVars
  /\ UNCHANGED <<entryVars, configVars, active, generation, closed>>

-----------------------------------------------------------------------------
(* Handlers                                                                *)

\* enqueueCommandInLane, from the event loop or from an onWait callback.
Enqueue(l, p) ==
  /\ Idle \/ InCallback
  /\ ~closed
  /\ nextSeq <= MaxEntries
  /\ nextSeq' = nextSeq + 1
  /\ status' = [status EXCEPT ![nextSeq] = "queued"]
  /\ laneOf' = [laneOf EXCEPT ![nextSeq] = l]
  /\ prio' = [prio EXCEPT ![nextSeq] = p]
  /\ DrainReady(l)
  /\ UNCHANGED <<gen, configVars, active, generation, todo, closed>>

\* completeTask, then the drain a current completion owes its lane.
Complete(e) ==
  LET l == laneOf[e] IN
  IF gen[e] = generation[l]
  THEN active' = [active EXCEPT ![l] = @ \ {e}] /\ DrainReady(l)
  ELSE UNCHANGED <<active, callVars>>

\* A task settles before any timeout of its lane.
TaskFinish(e) ==
  /\ Idle /\ status[e] = "running"
  /\ status' = [status EXCEPT ![e] = "done"]
  /\ Complete(e)
  /\ UNCHANGED <<laneOf, prio, gen, nextSeq, configVars, generation, todo, closed>>

\* A lane timeout, abort grace or release signal ends the race first: the slot
\* is released while the task itself is still unwinding.
TaskTimeout(e) ==
  /\ Idle /\ status[e] = "running"
  /\ status' = [status EXCEPT ![e] = "orphaned"]
  /\ Complete(e)
  /\ UNCHANGED <<laneOf, prio, gen, nextSeq, configVars, generation, todo, closed>>

\* The abandoned task settles at last; only its late error is logged.
OrphanEnd(e) ==
  /\ Idle /\ status[e] = "orphaned"
  /\ status' = [status EXCEPT ![e] = "done"]
  /\ UNCHANGED <<laneOf, prio, gen, nextSeq, configVars, callVars, active,
                 generation, todo, closed>>

\* clearCommandLane rejects what is queued and leaves what runs.
ClearLane(l) ==
  /\ Idle /\ Queued(l) # {}
  /\ status' = [e \in Entry |-> IF e \in Queued(l) THEN "cleared" ELSE status[e]]
  /\ UNCHANGED <<laneOf, prio, gen, nextSeq, configVars, callVars, active,
                 generation, todo, closed>>

\* Fault: the generation moves backwards.
ResetLaneBackwards(l) ==
  /\ Idle /\ generation[l] < MaxGeneration
  /\ generation' = [generation EXCEPT ![l] = @ - 1]
  /\ active' = [active EXCEPT ![l] = {}]
  /\ DrainReady(l)
  /\ UNCHANGED <<entryVars, configVars, todo, closed>>

\* Fault: the slots are released without retiring the tasks that held them.
ResetLaneSameGeneration(l) ==
  /\ Idle /\ generation[l] < MaxGeneration
  /\ active' = [active EXCEPT ![l] = {}]
  /\ DrainReady(l)
  /\ UNCHANGED <<entryVars, configVars, generation, todo, closed>>

\* resetCommandLane
ResetLane(l) ==
  /\ Idle /\ generation[l] < MaxGeneration
  /\ generation' = [generation EXCEPT ![l] = @ + 1]
  /\ active' = [active EXCEPT ![l] = {}]
  /\ DrainReady(l)
  /\ UNCHANGED <<entryVars, configVars, todo, closed>>

\* resetAllLanes, which also reopens work admission.
ResetAllLanes ==
  /\ Idle /\ \A l \in Lane : generation[l] < MaxGeneration
  /\ generation' = [l \in Lane |-> generation[l] + 1]
  /\ active' = [l \in Lane |-> {}]
  /\ todo' = {l \in Lane : Queued(l) # {}}
  /\ closed' = FALSE
  /\ UNCHANGED <<entryVars, configVars, callVars>>

\* setCommandLaneConcurrency
SetConcurrency(l, w) ==
  /\ Idle
  /\ width' = [width EXCEPT ![l] = w]
  /\ IF w > 0 THEN DrainReady(l) ELSE UNCHANGED callVars
  /\ UNCHANGED <<entryVars, groups, groupOf, covered, active, generation, todo, closed>>

\* The registry after the clearGroups phase of a publication.
ClearedGroups(p) == [g \in Group |-> IF g \in p.clear THEN EmptySpec ELSE groups[g]]
ClearedOwner(p) ==
  [l \in Lane |-> IF \E g \in p.clear : l \in groups[g].members
                  THEN NoGroup ELSE groupOf[l]]

\* Fault: a lane that moves stays among the members of its previous owner.
InstalledBeside(p, gs, own) == [gs EXCEPT ![p.group] = p.spec]

\* installCommandLaneGroup on a registry (gs, own): the new members leave their
\* previous owners, the group's previous members are detached.
InstalledGroups(p, gs, own) ==
  [g \in Group |->
     IF g = p.group THEN p.spec
     ELSE [gs[g] EXCEPT !.members = {m \in @ : ~(m \in p.spec.members /\ own[m] = g)}]]
InstalledOwner(p, gs, own) ==
  [l \in Lane |-> IF l \in p.spec.members THEN p.group
                  ELSE IF l \in gs[p.group].members THEN NoGroup ELSE own[l]]

\* Fault: the commit pass forgets the lanes the transaction only released.
TouchedMembersOnly(p) ==
  p.lanes \cup (IF p.group = NoGroup THEN {} ELSE p.spec.members)

\* Everything whose capacity the publication may change: the lanes it sizes, the
\* members of groups it clears, and around the group it installs the old
\* members, the new ones and the siblings the new ones leave behind.
LeftBehind(p, gs, own) ==
  {l \in Lane : \E m \in p.spec.members : own[m] # NoGroup /\ l \in gs[own[m]].members}
Regrouped(p, gs, own) ==
  gs[p.group].members \cup p.spec.members \cup LeftBehind(p, gs, own)
Touched(p) ==
  p.lanes \cup
  {l \in Lane : \/ \E g \in p.clear : l \in groups[g].members
                \/ /\ p.group # NoGroup
                   /\ l \in Regrouped(p, ClearedGroups(p), ClearedOwner(p))}

\* The tasks members of s run and the slots it reserves for them fit its budget.
Covers(s) ==
  Cardinality({e \in Entry : \E m \in s.members : e \in active[m]})
    + Cardinality({r \in s.members \X (1..s.budget) :
                     ActiveCount(r[1]) < r[2] /\ r[2] <= s.reserve[r[1]]})
  <= s.budget

\* The history of the groups p publishes, read from the tasks that run when the
\* publication begins.
CoveredBy(p) ==
  (covered \ (p.clear \cup {p.group}))
    \cup {g \in Group : g = p.group /\ Covers(p.spec)}

\* Widths and groups, installed as one.
Install(p) ==
  /\ width' = [l \in Lane |-> IF l \in p.lanes THEN p.widths[l] ELSE width[l]]
  /\ IF p.group = NoGroup
     THEN groups' = ClearedGroups(p) /\ groupOf' = ClearedOwner(p)
     ELSE /\ groups' = InstalledGroups(p, ClearedGroups(p), ClearedOwner(p))
          /\ groupOf' = InstalledOwner(p, ClearedGroups(p), ClearedOwner(p))
  /\ covered' = CoveredBy(p)
  /\ todo' = Touched(p)

\* Fault: a lane is drained as soon as it is widened, before its group exists.
PublishDrainingLanes(p) ==
  /\ Idle
  /\ p.group # NoGroup => ValidSpec(p.spec)
  /\ \E l \in p.lanes, e \in Entry :
       /\ groupOf[l] = NoGroup /\ ActiveCount(l) < p.widths[l]
       /\ Admit(e, l)
  /\ Install(p)
  /\ UNCHANGED <<laneOf, prio, nextSeq, callVars, generation, closed>>

\* publishLaneConfiguration: nothing starts until the commit pass over the
\* touched lanes.
Publish(p) ==
  /\ Idle
  /\ p.group # NoGroup => ValidSpec(p.spec)
  /\ Install(p)
  /\ UNCHANGED <<entryVars, callVars, active, generation, closed>>

\* The restart or suspension fence of gateway-work-admission.ts closes, and a
\* reversible fence reopens.
CloseAdmission == Idle /\ ~closed /\ closed' = TRUE
                  /\ UNCHANGED <<entryVars, configVars, callVars, active, generation, todo>>
ReopenAdmission == Idle /\ closed /\ closed' = FALSE
                   /\ UNCHANGED <<entryVars, configVars, callVars, active, generation, todo>>

-----------------------------------------------------------------------------
Init ==
  /\ status = [e \in Entry |-> "new"]
  /\ laneOf = [e \in Entry |-> CHOOSE l \in Lane : TRUE]
  /\ prio = [e \in Entry |-> 0]
  /\ gen = [e \in Entry |-> 0]
  /\ nextSeq = 1
  /\ active = [l \in Lane |-> {}]
  /\ width = InitialWidth
  /\ generation = [l \in Lane |-> 0]
  /\ draining = {} /\ drainingGroups = {} /\ calls = <<>> /\ todo = {}
  /\ groups = [g \in Group |-> EmptySpec]
  /\ groupOf = [l \in Lane |-> NoGroup]
  /\ closed = FALSE /\ covered = {}

\* The synchronous remainder of the handler that is running.
RunToCompletion ==
  \/ \E l \in Lane, e \in Entry : LaneStart(l, e)
  \/ CallbackReturn
  \/ \E l \in Lane : LaneReturn(l)
  \/ \E g \in Group, l \in Lane, e \in Entry : GroupStart(g, l, e)
  \/ \E g \in Group : GroupReturn(g)
  \/ \E l \in Lane : DrainNext(l)

Handler ==
  \/ \E l \in Lane, p \in Priorities : Enqueue(l, p)
  \/ \E e \in Entry : TaskFinish(e)
  \/ \E e \in Entry : TaskTimeout(e)
  \/ \E e \in Entry : OrphanEnd(e)
  \/ \E l \in Lane : ClearLane(l)
  \/ \E l \in Lane : ResetLane(l)
  \/ ResetAllLanes
  \/ \E l \in Lane, w \in Widths : SetConcurrency(l, w)
  \/ \E p \in Publications : Publish(p)
  \/ CloseAdmission
  \/ ReopenAdmission

Next == RunToCompletion \/ Handler

Spec == Init /\ [][Next]_vars

-----------------------------------------------------------------------------
(* Properties                                                              *)

\* Type correctness of the queue state.
TypeOK ==
  /\ status \in [Entry -> Status]
  /\ laneOf \in [Entry -> Lane]
  /\ prio \in [Entry -> Priority]
  /\ gen \in [Entry -> Nat]
  /\ nextSeq \in 1..(MaxEntries + 1)
  /\ active \in [Lane -> SUBSET Entry]
  /\ width \in [Lane -> Nat]
  /\ generation \in [Lane -> Nat]
  /\ draining \subseteq Lane
  /\ groups \in [Group -> GroupSpec]
  /\ groupOf \in [Lane -> Group \cup {NoGroup}]
  /\ drainingGroups \subseteq Group
  /\ calls \in Seq(Frame)
  /\ todo \subseteq Lane
  /\ closed \in BOOLEAN
  /\ covered \subseteq Group

\* No lost wakeup: whenever the thread goes back to its event loop, no lane has
\* an entry it could start.  Every handler that frees a slot, widens a lane or
\* changes a group must therefore have drained everything it unblocked, siblings
\* included (drainReadyCommandLane, the commit pass, resetAllLanes).
NoLostWakeup == Idle => \A l \in Lane : ~Startable(l)

\* A lane's slots are exactly the running entries of its current generation:
\* no slot leaks after a timeout or a reset, and a task of a retired generation
\* holds none (completeTask, resetCommandLane, isCommandLaneTaskMarkerCurrent).
SlotsAreCurrentTasks ==
  \A l \in Lane : active[l] = {e \in Entry : /\ laneOf[e] = l
                                             /\ status[e] = "running"
                                             /\ gen[e] = generation[l]}

\* The two maps of the group registry agree after every publication, so that a
\* lane is never counted by a group that does not govern it
\* (installCommandLaneGroup).
RegistryConsistent ==
  \A l \in Lane, g \in Group : groupOf[l] = g <=> l \in groups[g].members

\* The slots group g uses or withholds: running tasks plus unfilled reservations.
Unfilled(g) ==
  {r \in groups[g].members \X (1..groups[g].budget) :
      ActiveCount(r[1]) < r[2] /\ r[2] <= groups[g].reserve[r[1]]}
Committed(g) == GroupActive(g) + Cardinality(Unfilled(g))

\* Within a budget once, within it for good: no step but a publication of the
\* group takes its running tasks and reserved slots from within the budget to
\* beyond it, whichever member starts and in whatever order tasks complete
\* (resolveLaneBlockReason).
BudgetKept ==
  [][\A g \in Group :
        groups'[g] = groups[g] /\ Committed(g) <= groups[g].budget
           => Committed(g)' <= groups[g].budget]_vars

\* A publication admits nothing above the budget it brings: when the tasks that
\* ran as it began fit, the group is within its budget from its first step on,
\* whatever the queues of its members held (publishLaneConfiguration: drains are
\* suppressed until widths and groups are both in place).
PublishedBudgetHolds == \A g \in covered : Committed(g) <= groups[g].budget

\* A reservation is claimable whatever the siblings hold: at the event loop, a
\* member with queued work has filled its reservation up to its width, or the
\* group is full of tasks that an earlier configuration let start, beyond what
\* budget and reservations allow together (CommandLaneGroupSpec.reservations).
ReservationFilled ==
  Idle => \A g \in Group : \A l \in groups[g].members :
    Queued(l) # {} => \/ ActiveCount(l) >= groups[g].reserve[l]
                      \/ ActiveCount(l) >= width[l]
                      \/ /\ GroupActive(g) >= groups[g].budget
                         /\ Committed(g) > groups[g].budget

\* FIFO within a lane: while an entry is queued, no younger entry of its lane
\* has started unless its priority was higher, across timeouts and resets
\* (dequeueLaneQueue, resetAllLanes preserving queued work).
NoOvertaking ==
  \A e, f \in Entry :
     /\ status[e] = "queued" /\ status[f] \in {"running", "orphaned", "done"}
     /\ laneOf[e] = laneOf[f] /\ e < f
     => prio[f] > prio[e]

\* A member cannot start a task past a sibling's better head that could have
\* started instead: a completing lane may not reclaim the shared slot it freed
\* (drainCommandLaneGroup).
NoSiblingOvertaken ==
  [][\A f \in Entry : status[f] = "queued" /\ status'[f] = "running" =>
        \A g \in Group : laneOf[f] \in groups[g].members =>
          \A m \in groups[g].members : Startable(m) =>
             \A e \in Entry : IsHead(e, m) /\ e # f => Before(f, e)]_vars

\* Fairness.  A handler that has begun runs to completion, and every task
\* settles, by itself or by its lane timeout: strongly, because its
\* continuation waits in the event loop while other handlers come and go.
Fairness ==
  /\ WF_vars(RunToCompletion)
  /\ \A e \in Entry : SF_vars(TaskFinish(e) \/ TaskTimeout(e))

FairSpec == Spec /\ Fairness

\* Every entry accepted on a lane that is eventually left with a positive width
\* and a share of its group is started or cleared: queued work survives resets,
\* republications and a closed gateway (resetAllLanes).
Served(l) == width[l] > 0 /\ (groupOf[l] # NoGroup =>
  LET s == groups[groupOf[l]]
  IN s.reserve[l] > 0 \/ Cardinality(UnfilledExcept(groupOf[l], l)) < s.budget)
QueuedIsServed ==
  \A e \in Entry : <>[](Served(laneOf[e])) =>
     (status[e] = "queued" ~> status[e] # "queued")
=============================================================================
