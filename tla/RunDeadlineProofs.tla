-------------------------- MODULE RunDeadlineProofs --------------------------
(***************************************************************************)
(* The lane and the attempt keep their bounds for every timeout, grace and *)
(* heartbeat: a run that hangs loses its slot in time, a run that works    *)
(* does not, and an attempt gets its timeout and no more.                  *)
(*                                                                         *)
(* The inductive invariant says of each timer for which phases it is       *)
(* armed, and how far from the event that armed it it may fire.            *)
(***************************************************************************)
EXTENDS RunDeadline, TLAPS

-----------------------------------------------------------------------------
(* The inductive invariant                                                 *)

\* Instants do not lie ahead, timers do not lie behind.
Times ==
    /\ now \in Nat /\ progressAt \in Nat /\ workedAt \in Nat
    /\ now <= MaxTime /\ progressAt <= now /\ workedAt <= now
    /\ timer \in [Timer -> Int]
    /\ \A t \in Timer : timer[t] = Off \/ timer[t] >= now
    /\ timedOutAt \in Int /\ timedOutAt >= Off /\ timedOutAt <= now
    /\ abortedAt \in Int /\ abortedAt >= Off /\ abortedAt <= now
    /\ deadlineAt \in Int /\ remaining \in Int /\ worked \in Nat /\ pauses \in Nat

\* The switches, and two that belong together: a finalization has no phase between
\* attempts, and an attempt that was told to abort has told the lane.
Modes ==
    /\ verdict \in {"racing", "done", "idle", "abort-grace", "release"}
    /\ phase \in {"startup", "acquiring", "between", "preflight", "prompting", "tail",
                  "settled", "closing"}
    /\ laneAborted \in BOOLEAN /\ finalizing \in BOOLEAN /\ attemptAborted \in BOOLEAN
    /\ runAborted \in BOOLEAN /\ extended \in BOOLEAN /\ pending \in BOOLEAN
    /\ parentAborted \in BOOLEAN
    /\ attempts \in Nat /\ attempts <= MaxAttempts
    /\ finalizing => phase \in {"preflight", "prompting", "tail", "closing"}
    /\ attemptAborted => laneAborted

\* The timer of the race is armed as long as the race is open: for the grace of
\* the abort, or for no more than the budget after the last progress.
LaneArmed ==
    /\ laneAborted <=> abortedAt # Off
    /\ Racing => timer["lane"] # Off
    /\ Racing /\ laneAborted => timer["lane"] = abortedAt + GraceMs
    /\ Racing /\ ~laneAborted => timer["lane"] <= progressAt + LaneBudget

\* The release belongs to the timeout of the attempt that is under way, or of the
\* finalization that has just returned.
ReleaseArmed ==
    /\ phase = "preflight" => timedOutAt = Off
    /\ timer["release"] # Off =>
          /\ phase \in {"prompting", "tail", "closing"} /\ runAborted /\ timedOutAt # Off
          /\ timer["release"] = timedOutAt + GraceMs
    /\ Racing /\ InAttempt /\ timedOutAt # Off => timer["release"] # Off

\* Between attempts nothing beats, so that progress is what the run has noted; in
\* the stretches that beat, the next beat follows the last sign of life.
Beats ==
    /\ phase \in {"startup", "acquiring", "between", "preflight", "settled"} /\ ~finalizing
          => timer["beat"] = Off
    /\ phase # "acquiring" /\ ~finalizing => timer["hold"] = Off
    /\ phase \in {"startup", "between", "preflight", "settled"} /\ ~finalizing
          => progressAt = workedAt
    /\ phase = "acquiring" => /\ timer["hold"] # Off
                              /\ timer["hold"] <= progressAt + HeartbeatMs
    /\ phase \in {"prompting", "tail"} /\ ~laneAborted => timer["beat"] # Off
    /\ timer["beat"] # Off => \/ timer["beat"] <= progressAt + HeartbeatMs
                              \/ timer["beat"] <= workedAt + HeartbeatMs

\* What the attempt has worked and what is left of its deadline make up its
\* timeout and what was granted on top.
Allowance == TimeoutMs + (IF extended THEN CompactionTimeoutMs ELSE 0) + pauses

ClockKept ==
    /\ pending => remaining >= 1
    /\ phase = "preflight" => ~pending
    /\ timer["deadline"] # Off => phase = "prompting" /\ ~pending
    /\ phase = "prompting" /\ ~runAborted /\ pending => worked + remaining <= Allowance
    /\ phase = "prompting" /\ ~runAborted /\ ~pending =>
          /\ timer["deadline"] = deadlineAt /\ deadlineAt # Off
          /\ worked + (deadlineAt - now) <= Allowance

\* The inductive invariant.
DeadlineInv == Times /\ Modes /\ LaneArmed /\ ReleaseArmed /\ Beats /\ ClockKept

-----------------------------------------------------------------------------
(* The invariant is kept                                                   *)

\* The constants are numbers.
LEMMA Constants ==
  /\ TimeoutMs \in Nat /\ GraceMs \in Nat /\ HeartbeatMs \in Nat /\ CompactionTimeoutMs \in Nat
  /\ TimeoutMs > 0 /\ GraceMs > 0 /\ HeartbeatMs > 0 /\ CompactionTimeoutMs > 0
  /\ MaxTime \in Nat /\ MaxAttempts \in Nat /\ MaxPauses \in Nat
  BY TimesAssumption, BoundsAssumption

\* Every instant is a number, and no timer is set into the past.
LEMMA TimesKept == DeadlineInv /\ [Next]_vars => Times'
  <1> SUFFICES ASSUME DeadlineInv, [Next]_vars
               PROVE  Times'
    OBVIOUS
  <1> USE Constants DEF DeadlineInv, Times, Off, Timer
  <1>1. CASE Racing /\ LaneTimer
    BY <1>1 DEF LaneTimer, IdleFor, attemptVars, deadlineVars, history, Due, LaneBudget
  <1>2. CASE Racing /\ ReleaseTimer
    BY <1>2 DEF ReleaseTimer, attemptVars, deadlineVars, history, Due
  <1>3. CASE Racing /\ Finish
    BY <1>3 DEF Finish, attemptVars, deadlineVars, history
  <1>4. CASE Racing /\ NoteProgress
    BY <1>4 DEF NoteProgress, attemptVars, deadlineVars
  <1>5. ASSUME NEW t \in Timer, Heartbeat(t) PROVE Times'
    BY <1>5 DEF Heartbeat, attemptVars, deadlineVars, history, Due
  <1>6. CASE Racing /\ AcquireRuntime
    BY <1>6 DEF AcquireRuntime, deadlineVars
  <1>7. CASE Racing /\ RuntimeAcquired
    BY <1>7 DEF RuntimeAcquired, deadlineVars
  <1>8. CASE Racing /\ BeginAttempt
    BY <1>8 DEF BeginAttempt, LaneAbortTimer
  <1>9. CASE Racing /\ Arm
    BY <1>9 DEF Arm, laneVars
  <1>10. CASE Racing /\ Deadline
    BY <1>10 DEF Deadline, TimeOutRun, laneVars, attemptVars, Due
  <1>11. CASE Racing /\ IdleTimeout
    BY <1>11 DEF IdleTimeout, TimeOutRun, laneVars, attemptVars, deadlineVars
  <1>12. CASE Racing /\ ApprovalRequested
    BY <1>12 DEF ApprovalRequested, RemainingMs, laneVars, attemptVars, Larger
  <1>13. CASE Racing /\ ApprovalResolved
    BY <1>13 DEF ApprovalResolved, Resumed, laneVars, attemptVars, history, Larger
  <1>14. CASE Racing /\ Settle
    BY <1>14 DEF Settle, laneVars, deadlineVars, history
  <1>15. CASE Racing /\ Return
    BY <1>15 DEF Return, CleanedUp, laneVars, deadlineVars
  <1>16. CASE Racing /\ Finalize
    BY <1>16 DEF Finalize
  <1>17. CASE Racing /\ Finalized
    BY <1>17 DEF Finalized, deadlineVars
  <1>18. CASE Racing /\ ParentAbort
    BY <1>18 DEF ParentAbort, AbortLane, LaneAbortTimer, deadlineVars
  <1>19. CASE Racing /\ ExternalAbort
    BY <1>19 DEF ExternalAbort, AbortLane, LaneAbortTimer, attemptVars, deadlineVars
  <1>20. CASE Racing /\ PostCompactionAbort
    BY <1>20 DEF PostCompactionAbort, AbortLane, LaneAbortTimer, deadlineVars
  <1>21. CASE Racing /\ Tick
    BY <1>21 DEF Tick, laneVars, attemptVars, deadlineVars, Due
  <1>22. CASE UNCHANGED vars
    BY <1>22 DEF vars, laneVars, attemptVars, deadlineVars, history
  <1> QED
    BY <1>1, <1>2, <1>3, <1>4, <1>5, <1>6, <1>7, <1>8, <1>9, <1>10, <1>11, <1>12,
       <1>13, <1>14, <1>15, <1>16, <1>17, <1>18, <1>19, <1>20, <1>21, <1>22 DEF Next

\* Every switch has its type.
LEMMA ModesKept == DeadlineInv /\ [Next]_vars => Modes'
  <1> SUFFICES ASSUME DeadlineInv, [Next]_vars
               PROVE  Modes'
    OBVIOUS
  <1> USE Constants DEF DeadlineInv, Modes
  <1>1. CASE Racing /\ LaneTimer
    BY <1>1 DEF LaneTimer, IdleFor, attemptVars, deadlineVars, history
  <1>2. CASE Racing /\ ReleaseTimer
    BY <1>2 DEF ReleaseTimer, attemptVars, deadlineVars, history
  <1>3. CASE Racing /\ Finish
    BY <1>3 DEF Finish, attemptVars, deadlineVars, history
  <1>4. CASE Racing /\ NoteProgress
    BY <1>4 DEF NoteProgress, attemptVars, deadlineVars
  <1>5. ASSUME NEW t \in Timer, Heartbeat(t) PROVE Modes'
    BY <1>5 DEF Heartbeat, attemptVars, deadlineVars, history
  <1>6. CASE Racing /\ AcquireRuntime
    BY <1>6 DEF AcquireRuntime, deadlineVars
  <1>7. CASE Racing /\ RuntimeAcquired
    BY <1>7 DEF RuntimeAcquired, deadlineVars
  <1>8. CASE Racing /\ BeginAttempt
    <2>1. /\ verdict' = verdict /\ finalizing' = finalizing
          /\ parentAborted' = parentAborted /\ phase' = "preflight"
          /\ attempts' = attempts + 1 /\ attempts < MaxAttempts
          /\ runAborted' = FALSE /\ extended' = FALSE /\ pending' = FALSE
      BY <1>8 DEF BeginAttempt
    <2>2. attemptAborted' = parentAborted /\ laneAborted' = (laneAborted \/ parentAborted)
      BY <1>8, Zenon DEF BeginAttempt
    <2>3. /\ attemptAborted' \in BOOLEAN /\ laneAborted' \in BOOLEAN
          /\ attemptAborted' => laneAborted'
      <3> HIDE DEF DeadlineInv
      <3>1. parentAborted \in BOOLEAN
        BY DEF DeadlineInv
      <3> QED
        BY <2>2, <3>1, Zenon
    <2>4. attempts' \in Nat /\ attempts' <= MaxAttempts
      BY <2>1
    <2> QED
      BY <2>1, <2>3, <2>4, Zenon
  <1>9. CASE Racing /\ Arm
    BY <1>9 DEF Arm, laneVars
  <1>10. CASE Racing /\ Deadline
    <2>1. UNCHANGED <<verdict, laneAborted, pending>> /\ UNCHANGED attemptVars
      BY <1>10 DEF Deadline, laneVars
    <2>2. PICK compacting \in BOOLEAN :
            IF compacting /\ ~extended
            THEN extended' = TRUE /\ runAborted' = runAborted
            ELSE runAborted' = TRUE /\ extended' = extended
      BY <1>10 DEF Deadline, TimeOutRun
    <2>3. extended' \in BOOLEAN /\ runAborted' \in BOOLEAN
      BY <2>2, Zenon
    <2> QED
      BY <2>1, <2>3 DEF attemptVars
  <1>11. CASE Racing /\ IdleTimeout
    BY <1>11 DEF IdleTimeout, TimeOutRun, laneVars, attemptVars, deadlineVars
  <1>12. CASE Racing /\ ApprovalRequested
    BY <1>12 DEF ApprovalRequested, RemainingMs, laneVars, attemptVars
  <1>13. CASE Racing /\ ApprovalResolved
    BY <1>13 DEF ApprovalResolved, Resumed, laneVars, attemptVars, history
  <1>14. CASE Racing /\ Settle
    BY <1>14 DEF Settle, laneVars, deadlineVars, history
  <1>15. CASE Racing /\ Return
    BY <1>15 DEF Return, CleanedUp, laneVars, deadlineVars, InAttempt
  <1>16. CASE Racing /\ Finalize
    BY <1>16 DEF Finalize
  <1>17. CASE Racing /\ Finalized
    BY <1>17 DEF Finalized, deadlineVars, InAttempt
  <1>18. CASE Racing /\ ParentAbort
    <2>1. /\ UNCHANGED <<verdict, phase, finalizing, attempts, extended, pending>>
          /\ parentAborted' = TRUE
      BY <1>18 DEF ParentAbort, deadlineVars
    <2>2. attemptAborted' \in BOOLEAN /\ runAborted' \in BOOLEAN
      BY <1>18, Zenon DEF ParentAbort
    <2>3. laneAborted' \in BOOLEAN /\ (attemptAborted' => laneAborted')
      BY <1>18, Zenon DEF ParentAbort, AbortLane
    <2> QED
      BY <2>1, <2>2, <2>3
  <1>19. CASE Racing /\ ExternalAbort
    BY <1>19 DEF ExternalAbort, AbortLane, LaneAbortTimer, attemptVars, deadlineVars
  <1>20. CASE Racing /\ PostCompactionAbort
    BY <1>20 DEF PostCompactionAbort, AbortLane, LaneAbortTimer, deadlineVars
  <1>21. CASE Racing /\ Tick
    BY <1>21 DEF Tick, laneVars, attemptVars, deadlineVars
  <1>22. CASE UNCHANGED vars
    BY <1>22 DEF vars, laneVars, attemptVars, deadlineVars, history
  <1> QED
    BY <1>1, <1>2, <1>3, <1>4, <1>5, <1>6, <1>7, <1>8, <1>9, <1>10, <1>11, <1>12,
       <1>13, <1>14, <1>15, <1>16, <1>17, <1>18, <1>19, <1>20, <1>21, <1>22 DEF Next

\* The timer of the race is rearmed by progress and replaced by an abort.
LEMMA LaneKept == DeadlineInv /\ [Next]_vars => LaneArmed'
  <1> SUFFICES ASSUME DeadlineInv, [Next]_vars
               PROVE  LaneArmed'
    OBVIOUS
  <1> USE Constants DEF DeadlineInv, Modes, Times, LaneArmed, Off, Timer, Racing
  <1>1. CASE Racing /\ LaneTimer
    BY <1>1 DEF LaneTimer, IdleFor, attemptVars, deadlineVars, history, Due, LaneBudget
  <1>2. CASE Racing /\ ReleaseTimer
    BY <1>2 DEF ReleaseTimer, attemptVars, deadlineVars, history, Due, LaneBudget
  <1>3. CASE Racing /\ Finish
    BY <1>3 DEF Finish, attemptVars, deadlineVars, history, LaneBudget
  <1>4. CASE Racing /\ NoteProgress
    BY <1>4 DEF NoteProgress, attemptVars, deadlineVars, LaneBudget
  <1>5. ASSUME NEW t \in Timer, Heartbeat(t) PROVE LaneArmed'
    BY <1>5 DEF Heartbeat, attemptVars, deadlineVars, history, Due, LaneBudget
  <1>6. CASE Racing /\ AcquireRuntime
    BY <1>6 DEF AcquireRuntime, deadlineVars, LaneBudget
  <1>7. CASE Racing /\ RuntimeAcquired
    BY <1>7 DEF RuntimeAcquired, deadlineVars, LaneBudget
  <1>8. CASE Racing /\ BeginAttempt
    BY <1>8 DEF BeginAttempt, LaneAbortTimer, LaneBudget
  <1>9. CASE Racing /\ Arm
    BY <1>9 DEF Arm, laneVars, LaneBudget
  <1>10. CASE Racing /\ Deadline
    BY <1>10 DEF Deadline, TimeOutRun, laneVars, attemptVars, Due, LaneBudget
  <1>11. CASE Racing /\ IdleTimeout
    BY <1>11 DEF IdleTimeout, TimeOutRun, laneVars, attemptVars, deadlineVars,
       LaneBudget
  <1>12. CASE Racing /\ ApprovalRequested
    BY <1>12 DEF ApprovalRequested, RemainingMs, laneVars, attemptVars, LaneBudget
  <1>13. CASE Racing /\ ApprovalResolved
    BY <1>13 DEF ApprovalResolved, Resumed, laneVars, attemptVars, history, LaneBudget
  <1>14. CASE Racing /\ Settle
    BY <1>14 DEF Settle, laneVars, deadlineVars, history, LaneBudget
  <1>15. CASE Racing /\ Return
    BY <1>15 DEF Return, CleanedUp, laneVars, deadlineVars, LaneBudget
  <1>16. CASE Racing /\ Finalize
    BY <1>16 DEF Finalize, LaneBudget
  <1>17. CASE Racing /\ Finalized
    BY <1>17 DEF Finalized, deadlineVars, LaneBudget
  <1>18. CASE Racing /\ ParentAbort
    BY <1>18 DEF ParentAbort, AbortLane, LaneAbortTimer, deadlineVars, LaneBudget
  <1>19. CASE Racing /\ ExternalAbort
    BY <1>19 DEF ExternalAbort, AbortLane, LaneAbortTimer, attemptVars, deadlineVars,
       LaneBudget
  <1>20. CASE Racing /\ PostCompactionAbort
    BY <1>20 DEF PostCompactionAbort, AbortLane, LaneAbortTimer, deadlineVars,
       LaneBudget
  <1>21. CASE Racing /\ Tick
    BY <1>21 DEF Tick, laneVars, attemptVars, deadlineVars, Due, LaneBudget
  <1>22. CASE UNCHANGED vars
    BY <1>22 DEF vars, laneVars, attemptVars, deadlineVars, history
  <1> QED
    BY <1>1, <1>2, <1>3, <1>4, <1>5, <1>6, <1>7, <1>8, <1>9, <1>10, <1>11, <1>12,
       <1>13, <1>14, <1>15, <1>16, <1>17, <1>18, <1>19, <1>20, <1>21, <1>22 DEF Next

\* A timeout arms the release of its own attempt and nothing else does.
LEMMA ReleaseKept == DeadlineInv /\ [Next]_vars => ReleaseArmed'
  <1> SUFFICES ASSUME DeadlineInv, [Next]_vars
               PROVE  ReleaseArmed'
    OBVIOUS
  <1> USE Constants DEF DeadlineInv, Modes, Times, ReleaseArmed, Off, Timer, Racing,
  InAttempt
  <1>1. CASE Racing /\ LaneTimer
    BY <1>1 DEF LaneTimer, IdleFor, attemptVars, deadlineVars, history, Due
  <1>2. CASE Racing /\ ReleaseTimer
    BY <1>2 DEF ReleaseTimer, attemptVars, deadlineVars, history, Due
  <1>3. CASE Racing /\ Finish
    BY <1>3 DEF Finish, attemptVars, deadlineVars, history
  <1>4. CASE Racing /\ NoteProgress
    BY <1>4 DEF NoteProgress, attemptVars, deadlineVars
  <1>5. ASSUME NEW t \in Timer, Heartbeat(t) PROVE ReleaseArmed'
    BY <1>5 DEF Heartbeat, attemptVars, deadlineVars, history, Due
  <1>6. CASE Racing /\ AcquireRuntime
    BY <1>6 DEF AcquireRuntime, deadlineVars
  <1>7. CASE Racing /\ RuntimeAcquired
    BY <1>7 DEF RuntimeAcquired, deadlineVars
  <1>8. CASE Racing /\ BeginAttempt
    BY <1>8 DEF BeginAttempt, LaneAbortTimer
  <1>9. CASE Racing /\ Arm
    BY <1>9 DEF Arm, laneVars
  <1>10. CASE Racing /\ Deadline
    <2>1. phase = "prompting"
      BY <1>10 DEF Deadline, Due, ClockKept
    <2> QED
      BY <1>10, <2>1 DEF Deadline, TimeOutRun, laneVars, attemptVars, history
  <1>11. CASE Racing /\ IdleTimeout
    BY <1>11 DEF IdleTimeout, TimeOutRun, laneVars, attemptVars, deadlineVars
  <1>12. CASE Racing /\ ApprovalRequested
    BY <1>12 DEF ApprovalRequested, RemainingMs, laneVars, attemptVars
  <1>13. CASE Racing /\ ApprovalResolved
    BY <1>13 DEF ApprovalResolved, Resumed, laneVars, attemptVars, history
  <1>14. CASE Racing /\ Settle
    BY <1>14 DEF Settle, laneVars, deadlineVars, history
  <1>15. CASE Racing /\ Return
    BY <1>15 DEF Return, CleanedUp, laneVars, deadlineVars
  <1>16. CASE Racing /\ Finalize
    BY <1>16 DEF Finalize
  <1>17. CASE Racing /\ Finalized
    BY <1>17 DEF Finalized, deadlineVars
  <1>18. CASE Racing /\ ParentAbort
    BY <1>18 DEF ParentAbort, AbortLane, LaneAbortTimer, deadlineVars
  <1>19. CASE Racing /\ ExternalAbort
    BY <1>19 DEF ExternalAbort, AbortLane, LaneAbortTimer, attemptVars, deadlineVars
  <1>20. CASE Racing /\ PostCompactionAbort
    BY <1>20 DEF PostCompactionAbort, AbortLane, LaneAbortTimer, deadlineVars
  <1>21. CASE Racing /\ Tick
    BY <1>21 DEF Tick, laneVars, attemptVars, deadlineVars, Due
  <1>22. CASE UNCHANGED vars
    BY <1>22 DEF vars, laneVars, attemptVars, deadlineVars, history
  <1> QED
    BY <1>1, <1>2, <1>3, <1>4, <1>5, <1>6, <1>7, <1>8, <1>9, <1>10, <1>11, <1>12,
       <1>13, <1>14, <1>15, <1>16, <1>17, <1>18, <1>19, <1>20, <1>21, <1>22 DEF Next

\* Each phase that beats keeps its beat, and no beat outlives its phase.
LEMMA BeatsKept == DeadlineInv /\ [Next]_vars => Beats'
  <1> SUFFICES ASSUME DeadlineInv, [Next]_vars
               PROVE  Beats'
    OBVIOUS
  <1> USE Constants DEF DeadlineInv, Modes, Times, Beats, Off, Timer
  <1>1. CASE Racing /\ LaneTimer
    BY <1>1 DEF LaneTimer, IdleFor, attemptVars, deadlineVars, history, Due
  <1>2. CASE Racing /\ ReleaseTimer
    BY <1>2 DEF ReleaseTimer, attemptVars, deadlineVars, history, Due
  <1>3. CASE Racing /\ Finish
    BY <1>3 DEF Finish, attemptVars, deadlineVars, history
  <1>4. CASE Racing /\ NoteProgress
    BY <1>4 DEF NoteProgress, attemptVars, deadlineVars
  <1>5. ASSUME NEW t \in Timer, Heartbeat(t) PROVE Beats'
    BY <1>5 DEF Heartbeat, attemptVars, deadlineVars, history, Due
  <1>6. CASE Racing /\ AcquireRuntime
    BY <1>6 DEF AcquireRuntime, deadlineVars
  <1>7. CASE Racing /\ RuntimeAcquired
    BY <1>7 DEF RuntimeAcquired, deadlineVars
  <1>8. CASE Racing /\ BeginAttempt
    BY <1>8 DEF BeginAttempt, LaneAbortTimer
  <1>9. CASE Racing /\ Arm
    BY <1>9 DEF Arm, laneVars
  <1>10. CASE Racing /\ Deadline
    BY <1>10 DEF Deadline, TimeOutRun, laneVars, attemptVars, Due
  <1>11. CASE Racing /\ IdleTimeout
    BY <1>11 DEF IdleTimeout, TimeOutRun, laneVars, attemptVars, deadlineVars
  <1>12. CASE Racing /\ ApprovalRequested
    BY <1>12 DEF ApprovalRequested, RemainingMs, laneVars, attemptVars
  <1>13. CASE Racing /\ ApprovalResolved
    BY <1>13 DEF ApprovalResolved, Resumed, laneVars, attemptVars, history
  <1>14. CASE Racing /\ Settle
    BY <1>14 DEF Settle, laneVars, deadlineVars, history
  <1>15. CASE Racing /\ Return
    BY <1>15 DEF Return, CleanedUp, laneVars, deadlineVars, InAttempt
  <1>16. CASE Racing /\ Finalize
    BY <1>16 DEF Finalize
  <1>17. CASE Racing /\ Finalized
    BY <1>17 DEF Finalized, deadlineVars, InAttempt
  <1>18. CASE Racing /\ ParentAbort
    BY <1>18 DEF ParentAbort, AbortLane, LaneAbortTimer, deadlineVars, InAttempt
  <1>19. CASE Racing /\ ExternalAbort
    BY <1>19 DEF ExternalAbort, AbortLane, LaneAbortTimer, attemptVars, deadlineVars
  <1>20. CASE Racing /\ PostCompactionAbort
    BY <1>20 DEF PostCompactionAbort, AbortLane, LaneAbortTimer, deadlineVars
  <1>21. CASE Racing /\ Tick
    BY <1>21 DEF Tick, laneVars, attemptVars, deadlineVars, Due
  <1>22. CASE UNCHANGED vars
    BY <1>22 DEF vars, laneVars, attemptVars, deadlineVars, history
  <1> QED
    BY <1>1, <1>2, <1>3, <1>4, <1>5, <1>6, <1>7, <1>8, <1>9, <1>10, <1>11, <1>12,
       <1>13, <1>14, <1>15, <1>16, <1>17, <1>18, <1>19, <1>20, <1>21, <1>22 DEF Next

\* Work, reviews and compactions draw on one allowance.
LEMMA ClockIsKept == DeadlineInv /\ [Next]_vars => ClockKept'
  <1> SUFFICES ASSUME DeadlineInv, [Next]_vars
               PROVE  ClockKept'
    OBVIOUS
  <1> USE Constants DEF DeadlineInv, Modes, Times, ClockKept, Off, Timer, Allowance
  <1>1. CASE Racing /\ LaneTimer
    BY <1>1 DEF LaneTimer, IdleFor, attemptVars, deadlineVars, history, Due
  <1>2. CASE Racing /\ ReleaseTimer
    BY <1>2 DEF ReleaseTimer, attemptVars, deadlineVars, history, Due
  <1>3. CASE Racing /\ Finish
    BY <1>3 DEF Finish, attemptVars, deadlineVars, history
  <1>4. CASE Racing /\ NoteProgress
    BY <1>4 DEF NoteProgress, attemptVars, deadlineVars
  <1>5. ASSUME NEW t \in Timer, Heartbeat(t) PROVE ClockKept'
    BY <1>5 DEF Heartbeat, attemptVars, deadlineVars, history, Due
  <1>6. CASE Racing /\ AcquireRuntime
    BY <1>6 DEF AcquireRuntime, deadlineVars
  <1>7. CASE Racing /\ RuntimeAcquired
    BY <1>7 DEF RuntimeAcquired, deadlineVars
  <1>8. CASE Racing /\ BeginAttempt
    BY <1>8 DEF BeginAttempt, LaneAbortTimer
  <1>9. CASE Racing /\ Arm
    BY <1>9 DEF Arm, laneVars
  <1>10. CASE Racing /\ Deadline
    BY <1>10 DEF Deadline, TimeOutRun, laneVars, attemptVars, Due
  <1>11. CASE Racing /\ IdleTimeout
    BY <1>11 DEF IdleTimeout, TimeOutRun, laneVars, attemptVars, deadlineVars
  <1>12. CASE Racing /\ ApprovalRequested
    BY <1>12 DEF ApprovalRequested, RemainingMs, laneVars, attemptVars, Larger
  <1>13. CASE Racing /\ ApprovalResolved
    BY <1>13 DEF ApprovalResolved, Resumed, laneVars, attemptVars, history, Larger
  <1>14. CASE Racing /\ Settle
    BY <1>14 DEF Settle, laneVars, deadlineVars, history
  <1>15. CASE Racing /\ Return
    BY <1>15 DEF Return, CleanedUp, laneVars, deadlineVars, InAttempt
  <1>16. CASE Racing /\ Finalize
    BY <1>16 DEF Finalize
  <1>17. CASE Racing /\ Finalized
    BY <1>17 DEF Finalized, deadlineVars, InAttempt
  <1>18. CASE Racing /\ ParentAbort
    BY <1>18 DEF ParentAbort, AbortLane, LaneAbortTimer, deadlineVars, InAttempt
  <1>19. CASE Racing /\ ExternalAbort
    BY <1>19 DEF ExternalAbort, AbortLane, LaneAbortTimer, attemptVars, deadlineVars
  <1>20. CASE Racing /\ PostCompactionAbort
    BY <1>20 DEF PostCompactionAbort, AbortLane, LaneAbortTimer, deadlineVars
  <1>21. CASE Racing /\ Tick
    BY <1>21 DEF Tick, laneVars, attemptVars, deadlineVars, Due
  <1>22. CASE UNCHANGED vars
    BY <1>22 DEF vars, laneVars, attemptVars, deadlineVars, history
  <1> QED
    BY <1>1, <1>2, <1>3, <1>4, <1>5, <1>6, <1>7, <1>8, <1>9, <1>10, <1>11, <1>12,
       <1>13, <1>14, <1>15, <1>16, <1>17, <1>18, <1>19, <1>20, <1>21, <1>22 DEF Next

-----------------------------------------------------------------------------
(* The theorems                                                            *)

\* Before anything has happened only the budget of the lane is armed.
LEMMA InitDeadline == Init => DeadlineInv
  <1> SUFFICES ASSUME Init PROVE DeadlineInv
    OBVIOUS
  <1> USE Constants DEF Init, Off, Timer, LaneBudget
  <1>1. Times
    <2>1. \A t \in Timer : timer[t] = Off \/ timer[t] >= now
      BY DEF Timer
    <2>2. timer \in [Timer -> Int]
      OBVIOUS
    <2> QED
      BY <2>1, <2>2 DEF Times
  <1>0. Modes
    <2>1. attempts \in Nat /\ attempts <= MaxAttempts
      OBVIOUS
    <2> QED
      BY <2>1, Zenon DEF Modes
  <1>2. LaneArmed /\ ReleaseArmed
    BY DEF LaneArmed, ReleaseArmed, Racing, InAttempt
  <1>3. Beats /\ ClockKept
    BY DEF Beats, ClockKept
  <1> QED
    BY <1>0, <1>1, <1>2, <1>3 DEF DeadlineInv

\* The timers belong to the phases that arm them, for every timeout, grace and
\* heartbeat: what the theorems below rest on.
THEOREM DeadlineInvariant == Spec => []DeadlineInv
  <1>1. DeadlineInv /\ [Next]_vars => DeadlineInv'
    BY TimesKept, ModesKept, LaneKept, ReleaseKept, BeatsKept,
       ClockIsKept DEF DeadlineInv
  <1> QED
    BY InitDeadline, <1>1, PTL DEF Spec

\* No timer is set into the past, by whatever wakes first, and an approval leaves
\* the paused deadline some time.
THEOREM TypeCorrect == Spec => []TypeOK
  <1>1. DeadlineInv => TypeOK
    BY Constants DEF DeadlineInv, Times, Modes, ClockKept, TypeOK, Off
  <1> QED
    BY DeadlineInvariant, <1>1, PTL

\* A run that hangs gives its slot back: one grace after an abort or a timeout,
\* one budget of the lane after its last sign of life outside an attempt.
THEOREM HungRunsAreEvicted == Spec => []HungRunEvicted
  <1>1. DeadlineInv => HungRunEvicted
    <2> SUFFICES ASSUME DeadlineInv, Racing PROVE HungRunEvicted
      BY DEF HungRunEvicted
    <2> USE Constants DEF DeadlineInv, Times, Modes, Timer, Off
    <2>1. abortedAt # Off => now <= abortedAt + GraceMs
      BY DEF LaneArmed
    <2>2. timedOutAt # Off /\ InAttempt => now <= timedOutAt + GraceMs
      BY DEF ReleaseArmed
    <2>3. /\ phase \in {"startup", "between", "preflight", "settled"}
          /\ ~finalizing /\ ~laneAborted
          => now <= workedAt + LaneBudget
      BY DEF LaneArmed, Beats, LaneBudget
    <2> QED
      BY <2>1, <2>2, <2>3 DEF HungRunEvicted
  <1> QED
    BY DeadlineInvariant, <1>1, PTL

\* An attempt works for its timeout, one compaction grace and the least timer
\* delay for each review, however the reviews and the deadline interleave.
THEOREM BudgetHolds == Spec => []RunBudgetKept
  <1>1. DeadlineInv => RunBudgetKept
    BY Constants DEF DeadlineInv, Times, Modes, ClockKept, Allowance, Timer, Off,
       RunBudgetKept
  <1> QED
    BY DeadlineInvariant, <1>1, PTL

\* The lane ends no attempt that works: each of the three ways in which it takes
\* a slot follows an abort, a timeout or a silence of the length it promises.
THEOREM WorkingRunsAreKept == Spec => WorkingRunKept
  <1> DEFINE Kept == Racing /\ verdict' \in {"idle", "abort-grace", "release"} =>
          /\ verdict' = "idle" =>
                \/ phase \in {"startup", "between", "preflight", "settled", "closing"}
                \/ phase \in {"prompting", "tail"} /\ now <= workedAt + HeartbeatMs
          /\ verdict' = "abort-grace" => now >= abortedAt + GraceMs
          /\ verdict' = "release" => timedOutAt # Off /\ now >= timedOutAt + GraceMs
  <1>1. DeadlineInv /\ [Next]_vars => [Kept]_vars
    <2> SUFFICES ASSUME DeadlineInv, [Next]_vars PROVE Kept \/ UNCHANGED vars
      OBVIOUS
    <2> USE Constants DEF DeadlineInv, Times, Modes, Timer, Off, Due
    <2>1. CASE Racing /\ LaneTimer
      <3>1. CASE laneAborted
        BY <2>1, <3>1 DEF LaneTimer, LaneArmed
      <3>2. CASE ~laneAborted
        <4>1. verdict' = "idle" => IdleFor >= LaneBudget
          BY <2>1, <3>2 DEF LaneTimer, Racing
        <4>2. verdict' = "idle" => ~(now <= progressAt + HeartbeatMs)
          BY <4>1, HeartbeatAssumption DEF IdleFor, LaneBudget
        <4>3. verdict' = "idle" =>
                \/ phase \in {"startup", "between", "preflight", "settled", "closing"}
                \/ phase \in {"prompting", "tail"} /\ now <= workedAt + HeartbeatMs
          BY <4>2, <3>2 DEF Beats
        <4>4. verdict' \notin {"abort-grace", "release"}
          BY <2>1, <3>2 DEF LaneTimer, Racing
        <4> QED
          BY <4>3, <4>4
      <3> QED
        BY <3>1, <3>2
    <2>2. CASE Racing /\ ReleaseTimer
      BY <2>2 DEF ReleaseTimer, ReleaseArmed
    <2>3. CASE Next /\ ~LaneTimer /\ ~ReleaseTimer
      <3>1. verdict' = verdict \/ verdict' = "done"
        BY <2>3 DEF Next, Finish, NoteProgress, Heartbeat, AcquireRuntime,
           RuntimeAcquired,
           BeginAttempt, Arm, Deadline, IdleTimeout, ApprovalRequested,
           ApprovalResolved,
           Settle, Return, Finalize, Finalized, ParentAbort, ExternalAbort,
           PostCompactionAbort, Tick, laneVars
      <3> QED
        BY <3>1 DEF Racing
    <2> QED
      BY <2>1, <2>2, <2>3 DEF Next, Racing
  <1>2. Spec => [][Kept]_vars
    BY DeadlineInvariant, <1>1, PTL DEF Spec
  <1> QED
    BY <1>2 DEF WorkingRunKept

=============================================================================
