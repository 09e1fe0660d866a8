----------------------------- MODULE RunDeadline -----------------------------
(***************************************************************************)
(* How long an agent run may hold its slot of the global lane: the race of *)
(* command-queue.ts between the task and its timeout, and the run that is  *)
(* that task, with its attempts, their deadline, their heartbeat, the      *)
(* approvals that stop their clock, and the signals by which an abort or a *)
(* timeout that an attempt ignores reaches the lane                        *)
(* (agents/embedded-agent-runner/run).                                     *)
(*                                                                         *)
(* Time is counted in ticks and timers are punctual: the clock waits for   *)
(* those that are due, which fire in any order.  Code that does not answer *)
(* is an action that is not taken.  The built-in harness is modelled;      *)
(* plugin harnesses have no heartbeat and a deadline of their own.         *)
(***************************************************************************)
EXTENDS Integers

CONSTANTS
  TimeoutMs,            \* attempt.timeoutMs
  GraceMs,              \* EMBEDDED_RUN_LANE_TIMEOUT_GRACE_MS
  HeartbeatMs,          \* EMBEDDED_RUN_LANE_HEARTBEAT_MS
  CompactionTimeoutMs,  \* what one compaction may add to the deadline
  MaxTime, MaxAttempts, MaxPauses   \* bounds

ASSUME TimesAssumption == {TimeoutMs, GraceMs, HeartbeatMs, CompactionTimeoutMs} \subseteq Nat \ {0}
\* EMBEDDED_RUN_LANE_HEARTBEAT_MS is half of the grace.
ASSUME HeartbeatAssumption == HeartbeatMs <= GraceMs
ASSUME BoundsAssumption == {MaxTime, MaxAttempts, MaxPauses} \subseteq Nat

Timer == {"lane",      \* timeoutHandle of the race
          "deadline",  \* abortTimer of the attempt
          "release",   \* timeoutReleaseTimer
          "beat",      \* progressInterval
          "hold"}      \* the interval of withEmbeddedRunLaneProgressHeartbeat

VARIABLES
  now,
  timer,         \* when each timer fires, or Off
  verdict,       \* how the race ended
  laneAborted,   \* laneTaskAbortController; its grace replaces the budget
  progressAt,    \* laneTaskProgressAtMs
  phase,         \* where the run is
  finalizing,    \* the attempt is the isolated finalization of a settled turn
  attempts,
  attemptAborted,   \* attemptAbortController
  runAborted,    \* the attempt's abortRun was accepted
  deadlineAt,    \* runAbortDeadlineAtMs
  extended,      \* compactionGraceUsed
  pending, remaining,  \* an approval is awaited, and pausedRemainingMs
  parentAborted, \* params.abortSignal
  timedOutAt, abortedAt, workedAt, worked, pauses   \* history

laneVars == <<verdict, laneAborted, progressAt>>
deadlineVars == <<deadlineAt, extended, pending, remaining>>
attemptVars == <<phase, finalizing, attempts, attemptAborted, parentAborted>>
history == <<timedOutAt, abortedAt, workedAt, worked, pauses>>
vars == <<now, timer, laneVars, attemptVars, runAborted, deadlineVars, history>>

Off == -1
Larger(m, n) == IF m >= n THEN m ELSE n

\* resolveEmbeddedRunLaneTimeoutMs
LaneBudget == TimeoutMs + GraceMs

Racing == verdict = "racing"
Due(t) == timer[t] # Off /\ timer[t] <= now
InAttempt == phase \in {"preflight", "prompting", "tail"}

\* armProgressTimeout as the task starts.
Init ==
    /\ now = 0 /\ timer = [t \in Timer |-> IF t = "lane" THEN LaneBudget ELSE Off]
    /\ verdict = "racing" /\ laneAborted = FALSE /\ progressAt = 0
    /\ phase = "startup" /\ finalizing = FALSE /\ attempts = 0
    /\ attemptAborted = FALSE /\ runAborted = FALSE
    /\ deadlineAt = 0 /\ extended = FALSE /\ pending = FALSE /\ remaining = 0
    /\ parentAborted = FALSE
    /\ timedOutAt = Off /\ abortedAt = Off /\ workedAt = 0 /\ worked = 0 /\ pauses = 0

-----------------------------------------------------------------------------
(* The race of the lane.                                                   *)

\* Fault: the grace of an abort is armed beside the budget and lost to it.
LaneAbortKeepsBudget(timers) == timers

\* onAbort: the abort grace replaces whatever timer was armed; once.
LaneAbortTimer(timers) ==
    IF laneAborted THEN timers ELSE [timers EXCEPT !["lane"] = now + GraceMs]

\* readLastProgressAtMs: never before the start of the task, here 0.
IdleFor == now - progressAt

LaneTimer ==
    /\ Due("lane")
    /\ IF laneAborted
       THEN verdict' = "abort-grace" /\ timer' = [timer EXCEPT !["lane"] = Off]
       ELSE IF IdleFor >= LaneBudget
       THEN verdict' = "idle" /\ timer' = [timer EXCEPT !["lane"] = Off]
       ELSE /\ timer' = [timer EXCEPT !["lane"] = now + LaneBudget - IdleFor]
            /\ UNCHANGED verdict
    /\ UNCHANGED <<now, laneAborted, progressAt, attemptVars, runAborted, deadlineVars,
                   history>>

\* laneTaskReleaseController fires and onRelease ends the race.
ReleaseTimer ==
    /\ Due("release")
    /\ verdict' = "release"
    /\ timer' = [timer EXCEPT !["release"] = Off, !["lane"] = Off]
    /\ UNCHANGED <<now, laneAborted, progressAt, attemptVars, runAborted, deadlineVars,
                   history>>

\* The task settles, as long as no attempt of it is under way.
Finish ==
    /\ phase \in {"startup", "between", "settled", "closing"}
    /\ verdict' = "done" /\ timer' = [timer EXCEPT !["lane"] = Off]
    /\ UNCHANGED <<now, laneAborted, progressAt, attemptVars, runAborted, deadlineVars,
                   history>>

-----------------------------------------------------------------------------
(* Progress.                                                               *)

\* notifyExecutionPhase and notifyRunProgress.
NoteProgress ==
    /\ progressAt' = now /\ workedAt' = now
    /\ progressAt # now
    /\ UNCHANGED <<now, timer, verdict, laneAborted, attemptVars, runAborted, deadlineVars,
                   timedOutAt, abortedAt, worked, pauses>>

\* Either heartbeat.
Heartbeat(t) ==
    /\ t \in {"beat", "hold"} /\ Due(t)
    /\ progressAt' = now /\ timer' = [timer EXCEPT ![t] = now + HeartbeatMs]
    /\ UNCHANGED <<now, verdict, laneAborted, attemptVars, runAborted, deadlineVars, history>>

\* Acquiring the model runtime, and the end of it.
AcquireRuntime ==
    /\ phase = "startup" /\ phase' = "acquiring"
    /\ progressAt' = now /\ workedAt' = now
    /\ timer' = [timer EXCEPT !["hold"] = now + HeartbeatMs]
    /\ UNCHANGED <<now, verdict, laneAborted, finalizing, attempts, attemptAborted,
                   parentAborted, runAborted, deadlineVars, timedOutAt, abortedAt, worked,
                   pauses>>

RuntimeAcquired ==
    /\ phase = "acquiring" /\ phase' = "between"
    /\ progressAt' = now /\ workedAt' = now
    /\ timer' = [timer EXCEPT !["hold"] = Off]
    /\ UNCHANGED <<now, verdict, laneAborted, finalizing, attempts, attemptAborted,
                   parentAborted, runAborted, deadlineVars, timedOutAt, abortedAt, worked,
                   pauses>>

-----------------------------------------------------------------------------
(* An attempt.                                                             *)

\* dispatchEmbeddedRunAttempt: a parent that has aborted before is heard now.
BeginAttempt ==
    /\ phase \in {"between", "settled"} /\ attempts < MaxAttempts
    /\ phase' = "preflight" /\ attempts' = attempts + 1
    /\ attemptAborted' = parentAborted /\ runAborted' = FALSE
    /\ timer' = IF parentAborted THEN LaneAbortTimer(timer) ELSE timer
    /\ laneAborted' = (laneAborted \/ parentAborted)
    /\ abortedAt' = IF parentAborted /\ ~laneAborted THEN now ELSE abortedAt
    /\ timedOutAt' = Off
    /\ extended' = FALSE /\ pending' = FALSE /\ remaining' = 0
    /\ UNCHANGED <<now, verdict, progressAt, finalizing, parentAborted, deadlineAt,
                   workedAt, worked, pauses>>

\* prepareEmbeddedAttemptTimeout, and startLaneProgressHeartbeat in it.
Arm ==
    /\ phase = "preflight" /\ phase' = "prompting"
    /\ deadlineAt' = now + TimeoutMs
    /\ timer' = [timer EXCEPT !["deadline"] = now + TimeoutMs,
                              !["beat"] = IF @ # Off \/ attemptAborted THEN @
                                          ELSE now + HeartbeatMs]
    /\ worked' = 0 /\ pauses' = 0 /\ workedAt' = now
    /\ UNCHANGED <<now, laneVars, finalizing, attempts, attemptAborted, parentAborted,
                   runAborted, extended, pending, remaining, timedOutAt, abortedAt>>

\* abortRun(true), accepted once: onAttemptTimeout is armAttemptTimeoutRelease.
TimeOutRun(timers) ==
    /\ runAborted' = TRUE
    /\ IF runAborted
       THEN timer' = timers /\ UNCHANGED timedOutAt
       ELSE /\ timer' = [timers EXCEPT !["release"] = IF @ = Off THEN now + GraceMs ELSE @]
            /\ timedOutAt' = now

\* The abort timer: a compaction under way extends the deadline once.
Deadline ==
    \E compacting \in BOOLEAN :
        /\ Due("deadline")
        /\ IF compacting /\ ~extended
           THEN /\ extended' = TRUE /\ deadlineAt' = now + CompactionTimeoutMs
                /\ timer' = [timer EXCEPT !["deadline"] = now + CompactionTimeoutMs]
                /\ UNCHANGED <<runAborted, timedOutAt>>
           ELSE /\ TimeOutRun([timer EXCEPT !["deadline"] = Off])
                /\ UNCHANGED <<extended, deadlineAt>>
        /\ UNCHANGED <<now, laneVars, attemptVars, pending, remaining, abortedAt, workedAt,
                       worked, pauses>>

\* The watchdog of the model stream.
IdleTimeout ==
    /\ phase = "prompting" /\ ~runAborted /\ ~attemptAborted
    /\ TimeOutRun(timer)
    /\ UNCHANGED <<now, laneVars, attemptVars, deadlineVars, abortedAt, workedAt, worked,
                   pauses>>

\* Fault: a deadline that is reached leaves no time, one that has passed less.
RemainingUnclamped == deadlineAt - now

RemainingMs == Larger(1, deadlineAt - now)

\* observeAgentRunApprovalWait: human review stops the clock of the attempt.
ApprovalRequested ==
    /\ phase = "prompting" /\ ~pending /\ pauses < MaxPauses
    /\ pending' = TRUE /\ pauses' = pauses + 1
    /\ remaining' = RemainingMs
    /\ timer' = [timer EXCEPT !["deadline"] = Off]
    /\ UNCHANGED <<now, laneVars, attemptVars, runAborted, deadlineAt, extended, timedOutAt,
                   abortedAt, workedAt, worked>>

\* Fault: the clock starts anew.
ResumedAnew == now + TimeoutMs

\* scheduleAbortTimer with what was left.
Resumed == now + Larger(1, remaining)

ApprovalResolved ==
    /\ phase = "prompting" /\ pending
    /\ pending' = FALSE
    /\ deadlineAt' = Resumed
    /\ timer' = [timer EXCEPT !["deadline"] = Resumed]
    /\ UNCHANGED <<now, laneVars, attemptVars, runAborted, extended, remaining, history>>

\* clearTimers, after the turn; the attempt has yet to return.
Settle ==
    /\ phase = "prompting" /\ phase' = "tail"
    /\ timer' = [timer EXCEPT !["deadline"] = Off]
    /\ UNCHANGED <<now, laneVars, finalizing, attempts, attemptAborted, parentAborted,
                   runAborted, deadlineVars, history>>

\* Fault: the release armed by one attempt outlives it.
CleanedUpKeepingRelease(timers) == [timers EXCEPT !["deadline"] = Off, !["beat"] = Off]

\* The finally of the dispatch.
CleanedUp(timers) ==
    [timers EXCEPT !["deadline"] = Off, !["beat"] = Off, !["release"] = Off]

Return ==
    /\ InAttempt /\ ~finalizing
    /\ phase' = IF phase = "preflight" THEN "between" ELSE "settled"
    /\ timer' = CleanedUp(timer)
    /\ workedAt' = IF phase = "preflight" THEN workedAt ELSE progressAt
    /\ UNCHANGED <<now, laneVars, finalizing, attempts, attemptAborted, parentAborted,
                   runAborted, deadlineVars, timedOutAt, abortedAt, worked, pauses>>

-----------------------------------------------------------------------------
(* The isolated finalization of a settled turn is an attempt that runs with *)
(* the callbacks of the one before it, whose dispatch has cleaned up.       *)

Finalize ==
    /\ phase = "settled" /\ ~attemptAborted
    /\ phase' = "preflight" /\ finalizing' = TRUE /\ runAborted' = FALSE
    /\ timer' = [timer EXCEPT !["hold"] = now + HeartbeatMs]
    /\ progressAt' = now /\ workedAt' = now /\ timedOutAt' = Off
    /\ extended' = FALSE /\ pending' = FALSE /\ remaining' = 0
    /\ UNCHANGED <<now, verdict, laneAborted, attempts, attemptAborted, parentAborted,
                   deadlineAt, abortedAt, worked, pauses>>

\* The finalizer returns: only the interval of the wrapper is cleared.
Finalized ==
    /\ InAttempt /\ finalizing
    /\ phase' = "closing"
    /\ timer' = [timer EXCEPT !["hold"] = Off, !["deadline"] = Off]
    /\ progressAt' = now /\ workedAt' = now
    /\ UNCHANGED <<now, verdict, laneAborted, finalizing, attempts, attemptAborted,
                   parentAborted, runAborted, deadlineVars, timedOutAt, abortedAt, worked,
                   pauses>>

-----------------------------------------------------------------------------
(* Aborts.                                                                 *)

AbortLane(timers) ==
    /\ laneAborted' = TRUE
    /\ timer' = LaneAbortTimer(timers)
    /\ abortedAt' = IF laneAborted THEN abortedAt ELSE now

\* relayParentAbort while an attempt listens.  The reason may be a timeout, which
\* abortRun then treats as its own.
ParentAbort ==
    \E isTimeout \in BOOLEAN :
        LET relayed == InAttempt /\ ~finalizing
            accepted == relayed /\ ~attemptAborted /\ phase # "preflight" /\ ~runAborted
            released == accepted /\ isTimeout /\ timer["release"] = Off
        IN  /\ ~parentAborted /\ parentAborted' = TRUE
            /\ attemptAborted' = (attemptAborted \/ relayed)
            /\ runAborted' = (runAborted \/ accepted)
            /\ timedOutAt' = IF accepted /\ isTimeout THEN now ELSE timedOutAt
            /\ IF relayed
               THEN AbortLane([timer EXCEPT !["beat"] = Off,
                        !["release"] = IF released THEN now + GraceMs ELSE @])
               ELSE UNCHANGED <<laneAborted, timer, abortedAt>>
            /\ UNCHANGED <<now, verdict, progressAt, phase, finalizing, attempts,
                           deadlineVars, workedAt, worked, pauses>>

\* abortActiveRunExternally: a stop command, a restart, a newer turn.
ExternalAbort ==
    /\ phase = "prompting"
    /\ runAborted' = TRUE
    /\ AbortLane([timer EXCEPT !["beat"] = Off])
    /\ UNCHANGED <<now, verdict, progressAt, attemptVars, deadlineVars, timedOutAt, workedAt,
                   worked, pauses>>

\* A tool loop that outlives a compaction is aborted by the run itself.
PostCompactionAbort ==
    /\ phase = "prompting" /\ ~finalizing
    /\ attemptAborted' = TRUE /\ runAborted' = TRUE
    /\ AbortLane([timer EXCEPT !["beat"] = Off])
    /\ UNCHANGED <<now, verdict, progressAt, phase, finalizing, attempts, parentAborted,
                   deadlineVars, timedOutAt, workedAt, worked, pauses>>

Tick ==
    /\ now < MaxTime /\ \A t \in Timer : ~Due(t)
    /\ now' = now + 1
    /\ worked' = IF phase = "prompting" /\ ~pending /\ ~runAborted THEN worked + 1 ELSE worked
    /\ UNCHANGED <<timer, laneVars, attemptVars, runAborted, deadlineVars, timedOutAt,
                   abortedAt, workedAt, pauses>>

Next ==
    /\ Racing
    /\ \/ LaneTimer \/ ReleaseTimer \/ Finish
       \/ NoteProgress \/ (\E t \in Timer : Heartbeat(t)) \/ AcquireRuntime \/ RuntimeAcquired
       \/ BeginAttempt \/ Arm \/ Deadline \/ IdleTimeout
       \/ ApprovalRequested \/ ApprovalResolved \/ Settle \/ Return
       \/ Finalize \/ Finalized
       \/ ParentAbort \/ ExternalAbort \/ PostCompactionAbort
       \/ Tick

Spec == Init /\ [][Next]_vars

-----------------------------------------------------------------------------
\* No timer is ever set into the past, and a paused deadline has time left.
TypeOK ==
    /\ now \in 0 .. MaxTime
    /\ \A t \in Timer : timer[t] = Off \/ timer[t] >= now
    /\ verdict \in {"racing", "done", "idle", "abort-grace", "release"}
    /\ phase \in {"startup", "acquiring", "between", "preflight", "prompting", "tail",
                  "settled", "closing"}
    /\ progressAt \in 0 .. now /\ workedAt \in 0 .. now
    /\ attempts \in 0 .. MaxAttempts
    /\ {laneAborted, finalizing, attemptAborted, runAborted, extended, pending,
        parentAborted} \subseteq BOOLEAN
    /\ pending => remaining >= 1
    /\ {timedOutAt, abortedAt} \subseteq {Off} \cup 0 .. now

\* Nobody waits for a run that hangs.  The slot is given back one grace after an
\* attempt ignores its timeout or anybody's abort, and one lane budget after the
\* last sign of life of a run that is outside an attempt's own deadline.  The
\* stretches that code bounds by no deadline are left out: acquiring the runtime
\* and the end of an attempt, which beat, and what follows a finalization.
HungRunEvicted ==
    Racing =>
        /\ abortedAt # Off => now <= abortedAt + GraceMs
        /\ timedOutAt # Off /\ InAttempt => now <= timedOutAt + GraceMs
        /\ /\ phase \in {"startup", "between", "preflight", "settled"}
           /\ ~finalizing /\ ~laneAborted
           => now <= workedAt + LaneBudget

\* A run that works is left alone: the lane takes the slot of an attempt only
\* after that attempt was told to stop, whatever the compactions, the approvals
\* and the timeouts of the attempts before it.  Only until its first heartbeat
\* does the attempt still pay for a preflight that used the budget up.
WorkingRunKept ==
    [][Racing /\ verdict' \in {"idle", "abort-grace", "release"} =>
          /\ verdict' = "idle" =>
                \/ phase \in {"startup", "between", "preflight", "settled", "closing"}
                \/ phase \in {"prompting", "tail"} /\ now <= workedAt + HeartbeatMs
          /\ verdict' = "abort-grace" => now >= abortedAt + GraceMs
          /\ verdict' = "release" => timedOutAt # Off /\ now >= timedOutAt + GraceMs]_vars

\* Human review and a compaction stretch the deadline by what they take and by
\* no more: an attempt works for its timeout and one compaction grace, up to the
\* least timer delay for each review that began as the deadline ran out.
RunBudgetKept ==
    phase = "prompting" /\ ~runAborted =>
        worked <= TimeoutMs + (IF extended THEN CompactionTimeoutMs ELSE 0) + pauses

\* What the comment of the dispatch says of the release of a lane.
ReleasedOnlyIfIgnored ==
    [][verdict' = "release" /\ Racing => InAttempt /\ timedOutAt # Off]_vars
=============================================================================
