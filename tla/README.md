# OpenClaw gateway: a TLA+ model of its scheduling and delivery core

This project specifies the parts of the OpenClaw gateway that decide *when work
may start, how long it may hold its place, when the process may stop*, and *that a
reply is sent once although senders crash and overlap*. The
specifications are translated from the TypeScript source, model-checked with TLC
on small instances, and the central safety properties are proved with TLAPS for
every value of the constants.

Paths below are those of the repository root as seen from this project's parent
directory, so the gateway's code is under `src/src/`, its documents under
`src/docs/`.

Contents

1. The system and its parts
2. Modules and how they correspond to the code
3. What the runs check
4. What is proved
5. What the code and its documentation disagree about
6. Simplifications
7. Not modelled
8. Plan

---

## 1. The system and its parts

OpenClaw is a personal assistant. One long-lived Node process, the *gateway*,
receives messages from chat channels, RPCs from clients, hooks and timer ticks,
and turns them into agent runs against model providers. Everything in the process
shares one JavaScript thread, so there are no data races; what is hard is the
order of callbacks, timers and promise continuations, restarts of the services
inside a process that lives on, and hosts that freeze the process.

### How the parts interact

```
 channels, RPC, hooks, cron ticks
        |   (every root of work)
        v
 work admission  <-- suspend coordinator <-- host (prepare / status / resume)
        |        <-- restart signalling  <-- run loop (drain, in-process restart)
        |                |
        |                +--> pauses and resumes the cron scheduler
        v
 command lanes (widths, priorities) -- capacity groups (shared budgets)
        |
        v  one lane task = one agent run
 run deadline: lane timeout <-> attempts, heartbeats, approvals, aborts
        |
        v
 followup queue, delivery queues, session store, channels
```

Calls go downward. Three callbacks go upward and make the interleavings: a lane
calls an entry's `onWait` with its drain loop on the stack; a run tells its lane
about progress, aborts and releases; the admission gate tells the coordinator that
a restart has taken its suspension away.

### Inventory

| Part | State it keeps | Operations | What is hard | What makes it correct |
|---|---|---|---|---|
| Command lanes (`src/src/process/command-queue.ts`) | per lane: queue, active task ids, width, generation, draining flag | enqueue, drain, completion, timeout, clear, reset of one lane or all, width change, publication | nested drains from callbacks, resets that free every slot at once, late completions of an old generation | no lost wakeup; FIFO within a priority; slots belong to running tasks of the current generation; accepted work is eventually started |
| Capacity groups (`command-queue.capacity-groups.ts`) | two maps: group to spec, lane to owner; draining groups | validate, install, clear, arbitrate | a lane moves between groups with work on both; borrowing against reservations | the maps agree; the budget is never newly exceeded; reservations are claimable; no sibling is overtaken |
| Lane rings (`command-queue.state.ts`) | three circular buffers per lane | append, dequeue, grow, release | wrapping and growing at a head that is not slot 0 | it is a priority queue and retains nothing |
| Run deadline (`agents/embedded-agent-runner/run`, race in `command-queue.ts`) | lane timer, attempt deadline, release timer, two heartbeats, pause state | attempts, approvals, compaction extension, finalization, four kinds of abort | five timers that replace one another | a hung run loses its slot in time; a working one does not; pauses buy no working time |
| Work admission (`process/gateway-work-admission.ts`) | fence, drain, suspend phase, two generations, active roots with reference counts, parked waiters | seven ways in, scopes, suspend and signal leases, reset | stale leases, waiters parked again, roots that outlive a restart | references exact; only the current holder moves the gate; nobody is stranded; a drain supersedes everything |
| Suspend coordinator (`infra/gateway-suspend-coordinator.ts`) | current and retired entry, TTL, timers | prepare, renew, status, resume, expiry, recovery | a failing resume, timer callbacks queued before a renewal, a restart in the middle | coordinator, gate and scheduler agree; "ready" means quiet; an abandoned lease ends |
| Restart signalling (`infra/restart.ts`, `cli/gateway-cli/run-loop.ts`) | pending signal, tokens, cooldown, deferrals | schedule, emit, consume, roll back | coalescing of requests, a signal already on its way | at most one restart per authorised request; a rejected one reopens the gate |
| Cron (`gateway/server-cron-lazy.ts`, `src/src/cron/service*`) | the proxy's stopped and paused flags, generation, resume waiters, the start in progress; the service's timer, flags and generation; jobs and receipts | start, stop, drain, handover, pause, resume, tick, catch-up | starts of several generations overlap the import, one another, stops and pauses; a resume that throws | a stop is final; one start at a time; quiet while paused, armed once resumed; a start ends |
| Scoped session lanes, stuck-session recovery (`process/lanes.ts`, `logging/diagnostic-stuck-session-recovery.runtime.ts`) | lanes by session name, idle retirement | create, retire, watchdog abort and reset | an evicted task still runs while its lane is recreated | one session, one run |
| Outbound delivery queue (`infra/outbound/deliver-queue*.ts`, `delivery-queue-*.ts`, `infra/delivery-queue-sqlite*.ts`) | durable rows: status, recovery state, claim, lease, attempt, counters; in each process leases and timers | enqueue, claim, renew, promote, dispatch, ack, fail, scan, reconcile | a crash between send and ack, an expired lease whose owner lives, refused transactions | the message is seen at most once; evidence of a send is not lost; receipts are honest; a row settles |
| Session delivery queue (`infra/session-delivery-queue-*.ts`) | durable rows of messages into a session | enqueue, claim, ack, recover | the same, without a platform | nothing accepted is lost |
| Followup queue, reply registry (`auto-reply/reply`) | messages that arrive during a run, cap and drop policy, debounce | enqueue, drain, drop, summarise | awaits between read and removal | each message answered or summarised once |
| Approvals (`gateway/exec-approval-manager.ts`) | pending records, durable decisions | create, wait, decide, expire | late answer against expiry | one decision, the same for every waiter |
| Node registry (`gateway/node-registry*.ts`) | connections, pending invocations | connect, replace, invoke, stream, time out | a reply of a replaced connection | each invocation settles once |
| Keyed leases and queues (`src/src/shared`) | a tail per key | acquire, release | a lease over several keys | exclusion and no deadlock |

The front end, providers, channels, plugins, applications, configuration, media
and build tooling keep no scheduling state of their own, or are I/O and data
conversion; `PROJECT.json` lists them with the reason. The hazards (what can go
wrong at which line, and which property would notice) are in `PROJECT.json` too.

---

## 2. Modules and how they correspond to the code

```
 CommandLanes --------- MCCommandLanes
   +-- CommandLanesProofs                                               (proofs)
 LaneQueue  <= refines =  LaneRing
   +-- LaneRingProofs                                                   (proofs)
 WorkAdmission
   +-- SuspendLeases --- MCAdmission
   +-- GatewaySuspend -- MCSuspend
   +-- WorkAdmissionProofs    lemmas on gate and root work              (proofs)
         +-- SuspendLeasesProofs    about SuspendLeases                 (proofs)
         +-- GatewaySuspendProofs   about GatewaySuspend                (proofs)
 RunDeadline
   +-- RunDeadlineProofs                                                (proofs)
 DeliveryClaims -------- MCDelivery
   +-- DeliveryClaimsProofs                                             (proofs)
 CronLifecycle --------- MCCron
   +-- CronLifecycleProofs                                              (proofs)
```

### CommandLanes

State: an *entry* is named by its queue sequence number. `status`, `laneOf`,
`prio` and `gen` are the entry record and the place it is in; `active`, `width`,
`generation` and `draining` are the fields of `LaneState`; `groups`, `groupOf` and
`drainingGroups` the registry of the capacity groups; `closed` is what the lanes
see of the admission gate. `covered` is a history variable that no guard reads: the
groups for which the tasks running as their latest publication began, and the slots it
reserves, fit the budget it brought.

The unit of atomicity is the synchronous handler, with one exception that the model
is built around: the drain loop calls `onWait` from inside the loop. `calls` is
therefore the call stack of drains, and one step of a drain loop is one step of the
model. While an entry's `onWait` runs (`InCallback`), `Enqueue` may happen again; it
pushes further frames or is turned away by the draining flag. An event-loop handler
needs an empty stack (`Idle`). `todo` is the commit pass of
`publishLaneConfiguration` and of `resetAllLanes`.

| Action | Code |
|---|---|
| `Enqueue` | `enqueueCommandInLane` |
| `LaneStart`, `CallbackReturn`, `LaneReturn` | one turn and the end of `drainLane` |
| `GroupStart`, `GroupReturn` | `drainCommandLaneGroup`, which starts one entry at a time |
| `TaskFinish`, `TaskTimeout`, `OrphanEnd` | the end of a task, the end of the race before the task, the task at last |
| `ClearLane`, `ResetLane`, `ResetAllLanes` | `clearCommandLane`, `resetCommandLane`, `resetAllLanes` |
| `SetConcurrency`, `Publish`, `DrainNext` | `setCommandLaneConcurrency`, `publishLaneConfiguration` and its commit pass |
| `CloseAdmission`, `ReopenAdmission` | the test of the gate at the top of the enqueue |

`BlockReason` is `resolveLaneBlockReason`, `ValidSpec` is
`validateCommandLaneGroupSpec`, `InstalledGroups`/`InstalledOwner` are
`installCommandLaneGroup`.

### LaneQueue and LaneRing

`LaneQueue` is what `CommandLanes` assumes of a lane's queue: a set out of which the
best entry comes first, and an answer to an enqueue that tells how many are ahead.
`LaneRing` is the code: arrays with a head, a length and arithmetic modulo the
capacity, doubling and dropping. `IsPriorityQueue` is the refinement.

### WorkAdmission, SuspendLeases, GatewaySuspend

`WorkAdmission` holds what both users of the gate share: `adm` (the fields of the
gate, with pure functions `Suspend`, `Move`, `Drain`, `Reopen`... from one gate state
to the next), `roots` and `active` (reference-counted root work), `chains` (async
call chains with their AsyncLocalStorage store and release handle) and `scopes`
(captured or retained continuations). `Attempt` is one turn through any of the seven
entrances; a chain that finds the gate closed parks in `adm.waiters`, and `Retry` is
the microtask that runs after a resolver was called, when the gate may have closed
again.

`SuspendLeases` closes it with the *weakest* client: every holder may call any method
of any lease it ever got, in any order. What holds there holds for any caller, and
it is the specification the theorems on the gate alone are about.

`GatewaySuspend` closes it with the real client, the suspend coordinator. One RPC is
one step because none of the three methods awaits; a call is a function from the
coordinator's state to the next (`Becomes(f(Now))`), so that `normalize`, `refresh`,
`renew`, `resumeAndReopen` compose as they do in the code. Two clocks are kept apart:
`WallClock` makes `expiresAtMs` pass, `TimerDue` puts a callback into the event
loop's queue where it stays until `RunTimer`, also when it was superseded meanwhile.
`MarkDraining`, `RaiseFence`, `LowerFence` and `LifecycleRestart` are the run loop.

### RunDeadline

One lane task from the start of its race to its end. Time is counted in ticks; timers
are punctual, and due timers fire in any order before the clock moves on. A piece of
code that hangs is an action that is not taken. `verdict` is how the race ended;
`phase` is where the run is: `startup`, `acquiring` (model runtime, with the `hold`
heartbeat), `between` attempts, then in an attempt `preflight`, `prompting` (deadline
armed), `tail` (after `clearTimers`), and after it `settled` or, after the isolated
finalization, `closing`.

### DeliveryClaims

One durable row of the outbound queue and everybody who may touch it. `status` says
where the row is (absent, pending, completed, withdrawn, dead; a completed one whose
batch had nothing visible to send counts as "suppressed") and `row` holds the fields that the SQLite transactions compare and set (`recoveryState`,
`producerClaimId`, `platformSendAttemptId`, the lease, the attempt counters). `job[p]`
is what process `p` does with the entry, with its program counter: as a *producer*
(`live`) that enqueued or replayed the intent, or as a *drain* of the recovery. `mode`
is the kind of adapter, policy and receipt, fixed for the delivery; a delivery without
a policy is best effort for its producer and required for a drain (`Required`). `ClaimedBy`,
`Promoted`, `Dispatched`, `Failed`, `FailedAfter`, `OutcomeUnknown` are the row after
the transaction of that name, and `Claimable`, `Renewable`, `Promotable`,
`Dispatchable`, `Owned` its condition.

| Action | Code |
|---|---|
| `Enqueue`, `YieldToDrain`, `Reproduce` | admission of an intent, and of one that is already queued (`deliver-queue.ts`, `deliver-queue-admission.ts`) |
| `StartLease`, `HeartbeatLost`, `ExpiryTimer`, `LeaseExpires` | the producer lease, its renewal and its expiry (`delivery-queue-lease.ts`) |
| `SendStart`, `Dispatch`, `Abort`, `Answer` | the way of a send through `deliver-queue-execute.ts` |
| `AckBeforeSend` | a best-effort send whose promotion failed removes its row first, or gives up (`persistQueuedPreSendState`) |
| `Suppress` | the payload renders to nothing visible, so that no adapter is called (`deliver-core.ts`) |
| `Show`, `Drop` | external: the platform shows a request to the recipient, or loses it |
| `Settle` | the writes after the answer, in the code's order, each of which may be refused |
| `Scan`, `RefuseAdmission`, `Reconcile`, `ActOnVerdict`, `ClaimRow`, `Reserve` | one pass of `drainQueuedEntry` (`delivery-queue-recovery.ts`) |
| `Crash` | what the process had in memory is gone; the row, its lease and requests on their way stay |

What the platform saw is kept apart from what the row says: `wire` holds the claims
whose request is on its way, `seen` those whose message the recipient got.

### CronLifecycle

The lazy proxy (`import`, `stopped`, `paused`, `handed`, `handoff`, `loaded`), the
service behind it (`svc`), the calls of `start` and `stopAndDrain` that overlap
(`call`, `drain`) and a timer tick that waits for the admission gate and one that
runs (`tick`). A step is one callback of the event loop; continuations of settled
promises run before the next event, which `Settled` says. A generation is only ever
compared for equality, so a call carries `stale` instead of a number.

| Action | Code |
|---|---|
| `Start`, `StartLoaded`, `Joined`, `Proceed` | the proxy's `start` up to the call of the service, split at its awaits |
| `Repair`, `CatchUp` | the two locked parts of the service's start; `Returned` and `Threw` are what the proxy does after the start it awaits |
| `Tail` | the rest of that start in `server-cron.ts` 1569-1600, after the service's own: it may throw over a service that is started and armed |
| `Reconciled`, `CleanedUp` | the end of `startPromise` |
| `Use`, `Import` | the dynamic import on first use, which may fail for good |
| `Stop`, `Tidy` | `stop`, and its continuation after the import |
| `StopAndDrain`, `DrainLoaded`, `Drained` | `stopAndDrain`, and the stop of an owner whose exit watchers a reload took over |
| `PauseScheduling`, `ResumeScheduling`, `PauseAnew` | the coordinator's calls; `PauseAnew` is a prepare that meets a lease whose time is up |
| `TickFires`, `TickAdmitted`, `TickRefused`, `TickEnds` | `setCronTimer`, `onTimer`, `onAdmittedTimer`; a tick that a restart drain refuses is dropped and re-arms nothing |

### Faults

A definition whose comment begins with *Fault* is not part of the model. It is what
the definition after it would be with a plausible bug; every property checked in a
passing run is violated when some definition is replaced by its faulty form
(`PROJECT.json`, "mutants").

---

## 3. What the runs check

`tlc -workers 2 -config <run>.cfg <module>`; each finishes within about two minutes.

| Run | Module | Instance | Properties |
|---|---|---|---|
| `lanes_gateway` | MCCommandLanes | the cron and hook lanes with the publications of `applyGatewayLaneConcurrency` (hooks on, closing, off), 3 entries, 2 priorities, widths 0 to 2 by publication or call, one reset | `TypeOK` `NoLostWakeup` `SlotsAreCurrentTasks` `NoOvertaking` `BudgetKept` `NoSiblingOvertaken` `PublishedBudgetHolds` |
| `lanes_moving` | MCCommandLanes | 3 lanes, 2 groups that take members from each other, reservations beside an unreserved lane, 2 entries, fair | `RegistryConsistent` `ReservationFilled` `QueuedIsServed` |
| `rings` | LaneRing | initial capacity 2, 8 entries | `TypeOK` `NothingRetained` `IsPriorityQueue` |
| `leases` | MCAdmission | 2 chains, 3 roots, 1 scope, all 7 entrances, 3 generations | `TypeOK` `ReferencesCounted` `HolderAgrees` `NoStrandedWaiter` `DrainSupersedes` |
| `suspend` | MCSuspend | 2 chains, 2 roots, 5 entrances, 3 generations | `TypeOK` `CoordinatorAgrees` `SchedulerOwned` `PreparedIsQuiet` `LeaseKept` |
| `suspend_live` | MCSuspend | 2 chains, 1 suspension, fair | `AbandonedReopens` `NobodyParkedForever` |
| `deadline` | RunDeadline | timeout 3, grace 2, heartbeat 1, compaction 2 ticks; 2 attempts, 1 review, 11 ticks | `TypeOK` `HungRunEvicted` `RunBudgetKept` `WorkingRunKept` |
| `deadline_release` | RunDeadline | 1 attempt, no review, 9 ticks | `ReleasedOnlyIfIgnored`, violated: see section 5 |
| `delivery` | MCDelivery | 1 row, 2 processes that enqueue or replay the intent, 1 of which also drains; 8 claims, 1 crash, 1 refused transaction, budget of 2 attempts; 4 modes of adapter, policy and receipt | `TypeOK` `SeenOnce` `EvidenceKept` `ReceiptTruthful` `Settles` |
| `delivery_spent` | MCDelivery | the same | `SpentLeavesQueue`, violated: see section 5 |
| `cron` | MCCron | 2 starts and 2 drains that overlap, any number of them in sequence | `TypeOK` `StoppedIsQuiet` `OneStart` `PausedIsQuiet` `ResumedIsArmed` `StartsEnd` |
| `cron_parked` | MCCron | 2 starts, 1 drain | `AdmittedContinues`, violated: see section 5 |

### What they show

*Lanes.* Whenever the thread returns to its event loop, no lane has an entry it
could start (`NoLostWakeup`). That is a statement about every handler: each must
have drained all it unblocked, siblings in the group included, even when a callback
re-entered the queue. A slot is held by exactly the running tasks of the lane's
current generation, so that neither a reset nor a timeout leaks one
(`SlotsAreCurrentTasks`). A group within its budget stays there whatever starts and
ends (`BudgetKept`); only a publication can shrink the budget below what runs. It
admits nothing above the budget it brings, whatever its lanes had queued, because
nothing starts between its first assignment and its commit pass
(`PublishedBudgetHolds`; a lane drained as soon as it is widened breaks it). A
member with queued work gets its reservation unless an earlier configuration has
filled the group (`ReservationFilled`). Nobody in a lane is overtaken by a younger
entry of the same or lower priority, across resets (`NoOvertaking`), and in a group
a lane that completes a task does not take the slot ahead of an older sibling
(`NoSiblingOvertaken`). Under fair tasks queued entries are served (`QueuedIsServed`).

*Gate.* A root counts as active exactly while an unused release handle exists
(`ReferencesCounted`), the holder of the current generation and no other moves the
gate, and it is told when it loses it (`HolderAgrees`). A parked chain waits behind
something reversible only (`NoStrandedWaiter`); the one-way drain leaves neither
fence nor suspension that a late release could lift (`DrainSupersedes`).

*Suspension.* The coordinator's entry, the gate's phase and the status the host
polls agree after every RPC, timer and restart (`CoordinatorAgrees`). The scheduler
is paused exactly while somebody owes it a resume (`SchedulerOwned`). While the gate
is prepared, the only root work is one line: the caller whose inspection found the
rest idle, or the restart that a prepared gateway lets in (`PreparedIsQuiet`). A
queued expiry callback does not end a renewed lease (`LeaseKept`). An abandoned lease
ends and parked work is answered (`AbandonedReopens`, `NobodyParkedForever`).

*Deadline.* A run that ignores an abort or a timeout loses its slot one grace later,
and one that gives no sign of life outside an attempt one lane budget later
(`HungRunEvicted`). The lane never evicts an attempt that was not told to stop, but
for the short stretch before its first heartbeat (`WorkingRunKept`). Approvals and
compactions do not add up to working time (`RunBudgetKept`).

*Delivery.* Whatever overlaps, crashes and refusals do, the recipient sees the
message at most once as long as the adapter's `not_sent` is true (`SeenOnce`); while a
request may still reach the platform the pending row names its attempt, so that no
recovery takes it for unsent (`EvidenceKept`). A completed row says what happened
(`ReceiptTruthful`). That of a batch with nothing visible, which a permanent retention
keeps (`src/src/infra/outbound/deliver.queue-integration.test.ts` 197-236), means that
no process ever asked the platform for it, whatever was refused or lost; any other
means, under the required policy and without a refused transaction, that the message
was seen. Best-effort delivery acknowledges some ambiguous errors on purpose. Every pending row leaves the queue at last, unless it is one of the stranded
rows of section 5 (`Settles`).

*Cron.* A stop is final: no start that it met, whichever settles last, leaves a timer
or a started scheduler behind (`StoppedIsQuiet`). The service's own guard against
overlapping starts is never needed behind the proxy (`OneStart`). With the scheduler
paused and no blocker counted, as a prepared suspension requires, nothing is armed and
no missed job runs (`PausedIsQuiet`), with one exception: a start that waited under a
drain, was let go by `PauseAnew` and then threw has taken the service's pause off, and
nobody puts it back (`server-cron-lazy.ts` 171-182); a tick left over from before
re-arms the timer then, and only the closed gate holds the next tick. A started and
resumed scheduler always has a timer or a tick (`ResumedIsArmed`), until a restart
drain, which is one-way, refuses a tick. Every start ends,
or is current and waits for a resume (`StartsEnd`).

### Bounds

- `MaxEntries`: three entries give a running task, a waiting head and a rival
  behind it or on a sibling lane. With `CronWidth` 2 and one reserved slot the
  budget is reached, the reservation is withheld and a completing lane has an older
  sibling, all with three. In `lanes_moving` two entries on three lanes are enough
  for one that runs from before a publication and one it blocks or frees; the mutants
  show that the interesting case occurs.
- `MaxGeneration` 1 in the lanes: one reset, so a late completion of a retired
  generation meets a current one. A second reset retires a generation in the same
  way. In the gate 3 generations allow a lease, its successor and a stale use of the
  first after a drain or reset.
- two chains: one that runs while another parks, joins, or races the coordinator;
  three roots in `leases` let a chain carry a released root while others are live.
- 8 entries over an initial capacity of 2: a ring wraps, grows twice and grows with
  its head in the middle. The code's initial capacity is a constant of the model.
- `MaxTime` 11 with a lane budget of 5 leaves room for two attempts, one of which
  times out, and the grace after it. Only the order of the durations matters: the
  heartbeat is shorter than the grace, the grace shorter than the timeout.
- one row with one payload, two processes: the transactions compare and set one row
  at a time, so what can go wrong is a matter of the jobs that meet at one row. A
  process that crashed, or was answered by an error, leaves a request on the way and
  may take the row up again, so that more than two attempts meet. Two attempts let one be refused and
  repeated; eight claim ids are never used up before the other bounds. One crash and one refused transaction at any instant, in
  any combination with leases that run out at any instant.
- two starts and two drains at a time, restarted without limit; the same run with
  three starts and one drain (111,533 states) finds nothing else.
- bounds are conjuncts of guards, never state constraints, so the liveness
  runs check complete behaviours.

Chains and roots are interchangeable and the two safety runs of the gate use that
symmetry; the liveness runs use none.

Deadlock is not checked, except in `rings`, where `DequeueNothing` is always
possible or work is left, and in the cron runs, where somebody can always call again:
in the other instances a behaviour ends when its entries,
roots or generations are used up, and a run's race ends with its verdict.

### Fairness

- `CommandLanes`: weak fairness of `RunToCompletion`, because a synchronous handler
  ends; strong fairness of each task's end, because every task the gateway enqueues
  settles or is given a lane timeout, and its continuation stays in the event loop's
  queue while other handlers come and go (`Idle` is disabled and enabled again and
  again). Nothing is assumed of callers, resets or publications. The premise of
  `QueuedIsServed` is that the lane is eventually left with capacity: a lane whose
  width is set to 0, or whose siblings' reservations fill the budget, holds its work
  on purpose.
- `GatewaySuspend`: due timers fire and their callbacks run (weak); a parked chain
  whose resolver was called goes on (weak); the run loop answers every restart signal
  by draining or by giving the fence back (weak); the scheduler, retried every second,
  at last resumes (strong fairness of the successful callback). That the host stops
  renewing (`Abandoned`) is the premise of the two properties and not fairness. In
  this run a drain ends the behaviour's interesting part: parked chains are resolved
  by it and refused.
- `DeliveryClaims`: promises settle, the retry timer of the recovery scans again,
  requests reach the platform or are lost, and a lease that is not renewed runs out.
- `CronLifecycle`: the event loop serves every callback that is ready, and the import,
  the locked parts of a start and drains come to an end. It is strong fairness because
  an event waits for continuations, which come and go. Nobody has to call anything: in
  particular no resume is assumed.

---

## 4. What is proved

For every number of lanes, groups, entries, priorities and publications
(`CommandLanes`), every initial capacity and length of the rings (`LaneRing`), every budget,
grace, heartbeat and number of attempts (`RunDeadline`), every number of chains, roots, scopes and generations
(`SuspendLeases`, `GatewaySuspend`), every number of processes, claims, crashes, refusals and retries
(`DeliveryClaims`), and every number of overlapping starts and drains
(`CronLifecycle`):

| Theorem | Statement | Module |
|---|---|---|
| `TypeCorrect` | `Spec => []TypeOK` | CommandLanesProofs |
| `RegistryAgrees` | `Spec => []RegistryConsistent` | CommandLanesProofs |
| `NothingIsLost` | `Spec => []NoLostWakeup` | CommandLanesProofs |
| `SlotsHold` | `Spec => []SlotsAreCurrentTasks` | CommandLanesProofs |
| `NobodyOvertaken` | `Spec => []NoOvertaking` | CommandLanesProofs |
| `SiblingsInOrder` | `Spec => NoSiblingOvertaken` | CommandLanesProofs |
| `PublishedBudgetsHold` | `Spec => []PublishedBudgetHolds` | CommandLanesProofs |
| `ReservationsFill` | `Spec => []ReservationFilled` | CommandLanesProofs |
| `BudgetIsKept` | `Spec => BudgetKept` | CommandLanesProofs |
| `RingsInvariant`, `TypeCorrect` | `Spec => []RingsInv`, `Spec => []TypeOK` | LaneRingProofs |
| `NothingIsRetained` | `Spec => []NothingRetained` | LaneRingProofs |
| `RingsAreTheQueue` | `Spec => IsPriorityQueue` | LaneRingProofs |
| `DeadlineInvariant`, `TypeCorrect` | `Spec => []DeadlineInv`, `Spec => []TypeOK` | RunDeadlineProofs |
| `HungRunsAreEvicted` | `Spec => []HungRunEvicted` | RunDeadlineProofs |
| `BudgetHolds` | `Spec => []RunBudgetKept` | RunDeadlineProofs |
| `WorkingRunsAreKept` | `Spec => WorkingRunKept` | RunDeadlineProofs |
| `HoldersAgree` | `Spec => []HolderAgrees` | SuspendLeasesProofs |
| `NobodyStranded` | `Spec => []NoStrandedWaiter` | SuspendLeasesProofs |
| `DrainTakesOver` | `Spec => []DrainSupersedes` | SuspendLeasesProofs |
| `WorkIsCounted`, `TypeCorrect` | `Spec => []ReferencesCounted`, `Spec => []TypeOK` | SuspendLeasesProofs |
| `SuspendInvariant`, `TypeCorrect` | `Spec => []SuspendInv`, `Spec => []TypeOK` | GatewaySuspendProofs |
| `CoordinatorAndGateAgree` | `Spec => []CoordinatorAgrees` | GatewaySuspendProofs |
| `SchedulerIsOwned` | `Spec => []SchedulerOwned` | GatewaySuspendProofs |
| `PreparedMeansQuiet` | `Spec => []PreparedIsQuiet` | GatewaySuspendProofs |
| `LeasesAreKept` | `Spec => LeaseKept` | GatewaySuspendProofs |
| `SuspensionIsAwaited` | `Spec => []SuspensionAwaited` | GatewaySuspendProofs |
| `ExpiryReopens` | `Spec => [][...]_vars`, a live callback whose resume succeeds opens the gate | GatewaySuspendProofs |
| `DeliveryInvariant`, `TypeCorrect` | `Spec => []IInv`, `Spec => []TypeOK` | DeliveryClaimsProofs |
| `SeenAtMostOnce` | `Spec => []SeenOnce` | DeliveryClaimsProofs |
| `EvidenceSurvives` | `Spec => []EvidenceKept` | DeliveryClaimsProofs |
| `ReceiptsAreTrue` | `Spec => []ReceiptTruthful` | DeliveryClaimsProofs |
| `CronInvariant`, `TypeCorrect` | `Spec => []IInv`, `Spec => []TypeOK` | CronLifecycleProofs |
| `StopIsFinal` | `Spec => []StoppedIsQuiet` | CronLifecycleProofs |
| `StartsAreSerial` | `Spec => []OneStart` | CronLifecycleProofs |
| `RunInvariant` | `Spec => []RunInv` | CronLifecycleProofs |
| `PauseIsQuiet` | `Spec => []PausedIsQuiet` | CronLifecycleProofs |
| `ResumeArms` | `Spec => []ResumedIsArmed` | CronLifecycleProofs |

Assumptions. `CommandLanes`: the lanes are a finite non-empty set, widths and
budgets are natural numbers, publications have their type (not that they are valid:
an invalid one changes nothing), `NoGroup` is no group. `LaneRing`: the initial capacity
is positive (it is 16 in `command-queue.state.ts`). `RunDeadline`: timeout, grace,
heartbeat and compaction grace are positive and the heartbeat is no longer than the
grace (`src/src/agents/embedded-agent-runner/run/lane-runtime.ts` 12 makes it half of it).
`WorkAdmission`: `NoRoot` is
no root, the kinds are known entrances, the generation bound is natural, chains and
scopes are finite and none is both.
`DeliveryClaims`: the bounds are natural, those who drain are processes, and an adapter
that asks for exact reconciliation reconciles, and one that reconciles marks its
dispatch (the second is ours: `src/docs/plugins/sdk-channel-outbound.md` does not
mention `onPlatformSendDispatch`, and without that mark a producer that stalls before
its request sends beside the replay of an attempt that was truly found unsent).
`CronLifecycle`: the slots for starts are
finite and `None` is none of them. TLC evaluates them in every run.

**No lost wakeup.** `NoLostWakeup` speaks of idle moments only and is not inductive:
in the middle of a handler lanes are startable. The invariant `WakeupInv` says who
will get to them. `StartableIsCovered`: a startable lane is in the commit pass, or it
has no group and its own drain is on the stack, or its group's drain is. For this to
mean anything a guard flag must imply a frame that will come back to the lane, hence
`GuardsOnStack` (flags and frames correspond), `DrainsOnce` (a frame that returns may
clear its flag, nobody else relied on it) and `FrameOwner` (a bounded lane drain has
the drain of its group below it; an unbounded one belongs to a lane without a group,
so a return with nothing startable uncovers nothing). At an idle moment the stack and
`todo` are empty, so nothing covers and nothing is startable. The proof has one lemma
per action; the load is carried by `SameBlock`/`NotWoken` (a lane whose count, width
and group did not change is not unblocked), `DisturbOne` (a handler that frees a slot
unblocks that lane or members of its group, which the drain it calls covers) and
`CommitWakeup` (a publication unblocks only lanes in `Touched`, which needs
`RegistryConsistent`: a lane that left a group must be found through it).

**Who is served.** `ServiceInv` adds to `WakeupInv` that entries are numbered in the
order of their arrival (`Numbered`), that no running task is ahead of its lane's
generation (`NotAhead`), the two state properties themselves (`SlotsAreCurrentTasks`,
`NoOvertaking`) and what the validation of a publication has checked
(`ReserveWithinBudget`). Slots and order follow action by action. That a group starts
the best head needs `MembersAreFree`: while a group drains, none of its members is
draining, so the arbiter considers them all. `ReservationFilled` follows from `NoLostWakeup`:
a member below its reservation is blocked by its width or by a group over its budget.
`BudgetKept` is a counting argument: a start is paid by the slot that was withheld for
its lane or by free budget (`StartIsPaid`), and the slots that a step withholds anew
are injected into the tasks it released (`ReleasedIsEnough`). `PublishedBudgetHolds`
adds the publication itself (`PublishedStep`): it starts nothing, so what `covered`
records of the tasks before it still holds of the group it installs, and every other
group can only lose lanes to it, which takes nothing above its budget (`TakenIsLess`).

**Rings.** A ring is read through the entries `At` an offset from its head, not through
its array, so that the modulus stays in a few lemmas: the remainder of a sum of two
offsets is that sum or the sum less the capacity (`Remainder`), and an append at the
tail, the copy of a growth and a dequeue at the head are the sequence with one more
entry, unchanged, and without its first (`AppendedRing`, `GrownRing`, `DequeuedRing`).
`RingsInv` is then about order only: slots outside the live stretch are empty, an empty
ring has no array, live entries age from the head on and are numbered below `next`. For
the refinement the head of a ring is the oldest entry of its priority, the head of the
first ring that is not empty is the best entry of the lane, and the number of entries ahead, which
the code adds up from lengths, is the cardinality that `LaneQueue` counts.

**Deadline.** `DeadlineInv` says of each of the five timers in which phases it is armed,
and how far it may be from the event that armed it: the timer of the race from the last
progress or the abort (`LaneArmed`), the release from the timeout (`ReleaseArmed`), the
two heartbeats from the last sign of life (`Beats`). `HungRunEvicted` is then the fact
that no timer lies behind the clock. `ClockKept` adds up an attempt's clock: what it has
worked and what is left of its deadline are its timeout, the extension and the least
delays of its pauses, whether the deadline is armed or put off by a review.
`WorkingRunKept` asks why the lane timer could fire during an attempt: a beat is armed
then and renews the progress, so that only an attempt before its first one, whose
progress is as old as its preflight, can meet it. That needs a heartbeat shorter than the lane's
budget of timeout and grace, hence the assumption on it. TLC checked
`DeadlineInv` on the instance of `deadline` before it was proved.

**The gate.** `HolderAgrees` needs two facts about the gate itself (`LeaseInv`): an
invalidation callback is registered exactly while the phase is not accepting, and
the current generation is then one that was given out. `GateInv` adds the waiters and
the drain. `AttemptParks` shows once for the seven entrances that root work changes
the gate only by parking a chain, and only behind a reversible closure; every method
of every lease is one use of `UseKeeps`.

**Root work.** `ReferencesCounted` compares a counter with a set that several actions
grow and shrink: chains that run under a root, and scopes that retained it. `WorkInv`
adds the types and `Known`: a handle names a root that was made, so that a fresh root
has no handle. Every action is then an `AddHandle`, a `DropHandle` (which finds
nothing to count down when the root was retired meanwhile) or leaves the handles of
every root alone; `reset` retires all roots at once. These are lemmas of
`WorkAdmissionProofs`, for whoever drives the gate.

**Suspension.** A call of the coordinator is a function on its state, so `Good` is a
predicate on such states and every function (`ResumeGood`, `RenewedGood`,
`RefreshedGood`, `PreparedGood`...) is shown to keep it before any action is. It adds to
`CoordinatorAgrees` and `SchedulerOwned`: which gate phase a recovering entry stands
for (its reopening then cannot fail), that a put-aside entry exists in a drain only and
a drain excludes fence and suspension, and, for `LeaseKept`, that a live expiry callback
of the held entry belongs to a timer that has run out. `PreparedIsQuiet` relates the
inspection of one call to work that arrives later: `Later` says that a call leaves the
gate prepared only if it was so or if nobody but its caller is at work, `Lines` that
every root descends from one that entered by itself, and `Grows` that what comes to a
prepared gateway is the restart of an idle one or continues a root at work.

What `AbandonedReopens` needs beside fairness is proved as two facts of safety.
`SuspensionIsAwaited`: a closed gate has a timer that is set or a callback that is queued
and still counts (`Awaited`, function by function again; every entry that a preparation
leaves comes with a timer, and a failing resume sets the next). `ExpiryReopens`: that
callback, once the scheduler resumes in it, opens the gate, so that the branch of
`resumeAndReopen` in which the release is refused is not reached. Both were checked by
TLC on the instance of `suspend` first.

**Deliveries.** `SeenOnce` is about the recipient, the transactions about the row;
what ties them is the inductive invariant `IInv`: the type invariant, `RowInv` (how
the fields of the row go together, and that a request on its way or shown has left its
mark in a pending row), `JobInv` (what a job at each point of its program knows of
the row: that it owns the claim, or that the row has moved on) and `Apart` (two jobs
never own one claim, and never both send without having asked). Four lemmas cover the
kinds of step: a job moves on alone (`JobStep`), takes a claim (`ClaimStep`), writes a
row it owns (`RowStep`), or begins an attempt (`AttemptStep`). `ReceiptTruthful` needs,
on top of it, what a job knows before it acknowledges (`ReceiptJob`): an identity or a
"sent" verdict stands for a message that was seen, and the fallback of a marker that
failed without a refusal has lost the row. That it never gets the row back
(`StaysLost`) is where `Apart` and the freshness of claims are used again. The
receipt of a batch with nothing visible needs the invariant alone: it is written under
a claim that never became an attempt, so nothing is out, and nobody is left who could
send without asking the row (`OwnedIsUnsent`).

**Cron.** The call whose promise is `startPromise` is the one the proxy names
(`Owning`), so the service's `startInProgress` is the count of that call alone
(`Counted`). The one way to a second owner is a call that joined a start and goes on
after it; `Joins` says that a start of its own generation which ended well has
started the scheduler or is outdated, so that way is never taken. That a stop is final
needs `Halting` (a stop has reached the service, or nothing was ever begun there:
`Early`), `Outdating` (after a stop every call under way is of an old generation) and,
because a handover stops the service only once, `Handing` (what it stopped is not
begun again). Calls move in four ways, one lemma each: `ReturnKeeps`, `OwnKeeps`,
`OwnerKeeps`, `FinishKeeps`, and `JoinKeeps` for the call that waits. Pause and resume
have an invariant of their own on top of that one, `RunInv`: `Pausing` (what the proxy
holds paused is paused in the service, and nothing else is), `Stopping` (an outdated
start is in a stopped service, a current one in phase `starting`), `Serving` (a resume
that comes during a start finds the start resumable) and `Arming` (a scheduler that runs
is paused by somebody who still has to resume it, or has a timer or a tick that will
arm one, or has met a restart drain). Every step is a stop (`HaltKeeps`), the end of a start (`EndKeeps`), a move of
a call that owns nothing (`OthersKeep`), or one of the few that pause, resume and arm.

**Only model-checked.** Liveness under fairness: `QueuedIsServed`, `AbandonedReopens`,
`NobodyParkedForever`, `Settles` and `StartsEnd`. It needs ENABLED, which the provers do
not reason about. Every other property of a passing run is a theorem above.

---

## 5. What the code and its documentation disagree about

**A finalization's timeout takes the slot of a run that heeded it**
(`deadline_release`). The isolated finalization of a settled turn runs with the
callbacks of the dispatch before it (`src/src/agents/harness/builtin-openclaw.ts`
49-51), whose `finally` has already cleared its timers
(`src/src/agents/embedded-agent-runner/run/run-attempt-dispatch.ts` 536-541). When the
finalization times out, `onAttemptTimeout` arms `timeoutReleaseTimer` again and
nothing clears it when the finalizer returns: one grace later the slot is released
under whatever the run does then. The comment at lines 170-171 promises the release
for "a native transport that ignores its timeout". By the same route
`onAttemptTimeoutArmed` restarts the progress interval, which only an abort stops: a
run that hangs after its finalization keeps looking alive. `HungRunEvicted` leaves
that stretch out.

**A row whose last attempt was reserved and not begun stays for ever**
(`delivery_spent`). A drain claims the row, reserves the last attempt of its budget
and dies before the promotion. Every later scan finds the budget spent and calls
`moveToFailed` with the owner it reads from `platformSendAttemptId`, which is not set
yet; the transaction refuses a row that has a `producerClaimId`, the scan throws and
ends, rows behind it included. The comment at
`src/src/infra/outbound/delivery-queue-recovery.ts` 1358 says that recovery "moves
entries that exhaust their retry budget to failed/".

**A drain and an admitted cron start wait for each other** (`cron_parked`). The start
is admitted as root work; if a draining suspension pauses scheduling while it imports,
it waits for the resume (`server-cron-lazy.ts` 166) and counts as a blocker meanwhile
(271-274), so a lease that is renewed never becomes ready. `src/docs/gateway/external-apps.md`
138 says that "already-admitted work and its owned completions continue naturally".

---

## 6. Simplifications

*Lanes.* Only static lanes: retirement of idle scoped lanes
(`command-queue.ts` 197-216) is the subject of `ScopedLanes`. Task markers and
`waitForActiveTasks` only read. The migration of arrays left by an older version of
the module (`command-queue.state.ts` 163-203) is left out. Of what an `onWait` may
call, enqueuing is modelled; no caller in the repository resets or republishes from
there.

*Gate.* `SubordinateClosed` (161-175), a test used by nested callers, enters
`CommandLanes` as the free variable `closed`.

*Coordinator.* No callback it calls reaches the gate again, so its tests for an
invalidation in the middle of a call (`isInvalidated`, lines 127-129, 196-198,
210-212) are always negative. `pauseScheduling` and `createSuspensionId` do not throw;
counting work and resuming may. The inspectors of other work than roots are one
Boolean, `other`, chosen anew in every call. Request id and terminal policy are one
`Request`. Superseded callbacks do stay in the queue, as the repository's test
`gateway-suspend-coordinator.test.ts` 713 has it.

*Deadline.* The built-in harness only: plugin harnesses have no heartbeat. The lane
budget is that of a run with a timeout. A run without one, which gets the lane timeout
of the default agent deadline (`resolveEmbeddedRunLaneTimeoutMs`, `lane-runtime.ts`
38-47), and a caller's own `taskTimeoutMs`, which `withEmbeddedRunLaneTimeout` prefers,
are left out. Timers are
punctual. The world ends with the verdict; what an evicted task still does is the
orphan of `CommandLanes`. `clearTimers` and a return during acquisition have no
deadline in the code while a heartbeat beats; `HungRunEvicted` names these stretches.
A parent's abort is not relayed during finalization. That `releaseSignal` is not
observed when `abortSignal` has fired before the task starts (`command-queue.ts`
328-335) cannot be reached from the run's caller.

*Delivery.* One payload per row, and rows that require a producer claim only (those of
older builds do not). A lease is held or expired, without a clock; the instant of
an attempt is absent, the one its promotion wrote or the one its dispatch wrote. The transaction that dispatches and
the request that follows are one step. The adapter tells the truth when it says
`not_sent`, which `src/docs/plugins/sdk-channel-outbound.md` asks of it. Completion
owners, the media spool, hooks, audit events, migrations and the length of backoffs
are left out. A batch is suppressed as a whole, since it holds one payload. Of a sent
message `ReceiptTruthful` leaves out the best-effort policy and refused transactions,
where the code acknowledges without knowing.

*Cron.* Cron is enabled and has jobs. At most one tick waits and one runs; a
watchdog tick that overlaps a running one does the same to the timer. What a tick or
a catch-up runs, receipts and their monitor, and the watchers' own state are left out;
a reconciliation of watchers is one await that may fail, and so is the tail of the start
(stream watchers, heartbeat jobs, the registration of the automation source). After a
tail that threw the proxy is `idle` over a service that runs: its timer stays until a
stop, but `resumeScheduling` passes over it (`server-cron-lazy.ts` 262-266), so a pause
and resume that follow leave the service paused until the next start.
`ResumedIsArmed` speaks of started proxies only and does not cover that. A restart in
the process makes a new proxy, so a drain that refused a tick does not end within a
behaviour. A resume may throw only when it arms the timer. A proxy that was handed over is not started again, because the
reload replaced it.

---

## 7. Not modelled

The repository has some 16,500 source files; most are the web and native
applications, channel and provider plugins, the command line, configuration, media,
scripts and tests. They format, convert and call, and keep no state that concurrent
steps compete for beyond what they ask of the parts above; a model of them would
restate the code. `PROJECT.json` lists each part with its reason.

Parts that do have hazards of their own and are not modelled are listed with them in
`PROJECT.json`: the retirement of scoped session lanes and the stuck-session
watchdog, the restart emitter, the followup queue, approvals, the node registry, the
session delivery queue, and keyed leases. Their questions are in section 8.

---

## 8. Plan

Done: `CommandLanes`, `LaneRing`, `WorkAdmission` with `SuspendLeases` and
`GatewaySuspend`, `RunDeadline`, `DeliveryClaims`, `CronLifecycle`, and the proofs of
section 4. What is left, in the order of what it would tell:

1. **More of the system**
   - `ScopedLanes`: session lanes retired, recreated and reset by the watchdog while
     an evicted task runs; the question is `src/docs/concepts/queue.md`'s "Per-session
     lanes guarantee that only one agent run touches a given session at a time".
   - `RestartSignal`: coalescing, cooldown and tokens; composed with `WorkAdmission`.
   - `CronRuns`: the admission of due jobs, their receipts and catch-up, on top of
     the ticks of `CronLifecycle`.
   - `FollowupQueue`, `ExecApprovals`, `NodeInvokes`, `KeyedLeases`, as far as each
     keeps its own question.
2. **More proofs**
   - The safety half of each liveness property, that whoever waits has somebody who will
     come back to him, where it is not a theorem already (`NoLostWakeup`,
     `NoStrandedWaiter`, `ResumedIsArmed`, `SuspensionIsAwaited` are): for `Settles`, that
     the write a drain is about to do on a row that nobody else owns is not refused, unless
     the row is stranded.
   - `CommandLanes` uses a lane's queue as `LaneQueue` promises it: the step from the
     entries of a lane in `CommandLanes` to the set `queued` of `LaneQueue`.
   - `GatewaySuspend` drives the gate as a client of `SuspendLeases`: every step of the
     coordinator is a composition of steps of the leases, so that the theorems on the weakest
     client hold of it by refinement.
