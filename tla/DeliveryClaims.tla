--------------------------- MODULE DeliveryClaims ---------------------------
(***************************************************************************)
(* One durable outbound delivery: its row in the delivery queue, the       *)
(* processes that compete for it (the producer that wrote it, a producer   *)
(* that replays the same stable intent, the recovery drains), and the      *)
(* platform that shows the message to its recipient.                       *)
(*                                                                         *)
(* Every write of the row is one IMMEDIATE SQLite transaction, so every    *)
(* write is one action here; between two of them the processes interleave, *)
(* crash, lose their lease, or are refused by the database.  The batch     *)
(* holds one payload.  Time is abstract: a lease is "held" or "expired".   *)
(***************************************************************************)
EXTENDS Naturals, FiniteSets

CONSTANTS Process,      \* operating system processes that share the database
          Recoverer,    \* the ones that drain the queue (gateways)
          Modes,        \* the kinds of delivery and adapter, see ModeType
          MaxClaims,    \* bound: claim identifiers
          MaxReplay,    \* bound: a producer replays while fewer are given out
          MaxRetries,   \* resolveMaxRetries: the attempt budget of the row
          MaxCrashes,   \* bound: process crashes
          MaxFaults     \* bound: transactions the database refuses

\* exact: requireUnknownSendReconciliation, so no promotion before dispatch;
\* policy: queuePolicy, "default" when the caller gives none; reconciles: the
\* adapter can settle an unknown send; dispatches: the adapter calls
\* onPlatformSendDispatch before its request; reusable:
\* reusePendingDeliveryIntent; callerRetries: deliveryRetryOwner; permanent:
\* completionRetention "permanent", and not a bounded one or none.
ModeType == [exact : BOOLEAN, policy : {"required", "best_effort", "default"},
             reconciles : BOOLEAN, dispatches : BOOLEAN, reusable : BOOLEAN,
             callerRetries : BOOLEAN, permanent : BOOLEAN]

ASSUME DeliveryAssumption ==
    /\ Recoverer \subseteq Process
    /\ \A m \in Modes : /\ m \in ModeType
                        /\ m.exact => m.reconciles
                        /\ m.reconciles => m.dispatches
    /\ {MaxClaims, MaxReplay, MaxRetries, MaxCrashes, MaxFaults} \subseteq Nat

VARIABLES
    mode,     \* the kind of this delivery, fixed when it is admitted
    status,   \* what the table says of the row
    row,      \* the pending entry
    wire,     \* claims whose request is under way to the platform
    seen,     \* claims whose message the recipient has seen
    job,      \* what each process does with the entry
    claims,   \* claim identifiers given out
    crashes, faults

rowVars == <<status, row>>
platform == <<wire, seen>>
vars == <<mode, status, row, wire, seen, job, claims, crashes, faults>>

None == 0
Claim == 1..MaxClaims
RecoveryState == {"none", "producer_claimed", "send_attempt_started", "unknown_after_send"}
\* "withdrawn" is a row deleted without a receipt, "dead" one in failed/, and
\* "suppressed" a completed one whose batch had nothing visible to send (the
\* table does not tell the two kinds of completed rows apart).
Status == {"absent", "pending", "completed", "suppressed", "withdrawn", "dead"}

\* platformSendStartedAt is 0 when undefined, 1 as the promotion of this
\* attempt wrote it and 2 as its dispatch did: the two instants differ.
Entry == [state : RecoveryState, claim : Claim \cup {None}, attempt : Claim \cup {None},
          startedAt : 0..2, lease : {"none", "held", "expired"},
          retries : Nat, attempts : Nat]

NoEntry == [state |-> "none", claim |-> None, attempt |-> None, startedAt |-> 0,
            lease |-> "none", retries |-> 0, attempts |-> 0]

Answers == {"none", "suppressed", "identity", "no_identity", "error", "not_sent", "rejected"}
\* Row writes that settle an attempt; a job whose pc is one is about to do it.
Settling == {"mark", "markFail", "ack", "ackFallback", "ackSent", "ackUnsent", "withdraw",
             "fail", "failBefore", "failAfter", "failFallback", "dead"}
Phase == Settling \cup {"idle", "queued", "leased", "dropping", "started", "sending",
                        "loaded", "reconciled", "claiming", "claimed"}

Job == [pc : Phase, live : BOOLEAN, claim : Claim \cup {None}, snap : Entry,
        lost : BOOLEAN, pre : {"none", "marked", "acked"}, answer : Answers,
        verdict : {"none", "sent", "not_sent", "retry", "give_up"}]

IdleJob == [pc |-> "idle", live |-> FALSE, claim |-> None, snap |-> NoEntry,
            lost |-> FALSE, pre |-> "none", answer |-> "none", verdict |-> "none"]

\* The fields of the row agree: a claim is held before a send can have begun,
\* an attempt and its instant after it, and a lease by an owner only.
RowShape ==
    CASE row.state = "none" ->
            row.claim = None /\ row.attempt = None /\ row.startedAt = 0 /\ row.lease = "none"
      [] row.state = "producer_claimed" ->
            row.claim # None /\ row.attempt = None /\ row.startedAt = 0 /\ row.lease # "none"
      [] OTHER ->
            row.claim = None /\ row.attempt # None /\ row.startedAt # 0

TypeOK ==
    /\ mode \in Modes
    /\ status \in Status
    /\ row \in Entry /\ RowShape
    /\ wire \subseteq Claim
    /\ seen \subseteq Claim
    /\ job \in [Process -> Job]
    /\ claims \in 0..MaxClaims
    /\ crashes \in 0..MaxCrashes
    /\ faults \in 0..MaxFaults

Init ==
    /\ mode \in Modes
    /\ status = "absent"
    /\ row = NoEntry
    /\ wire = {} /\ seen = {}
    /\ job = [p \in Process |-> IdleJob]
    /\ claims = 0 /\ crashes = 0 /\ faults = 0

-----------------------------------------------------------------------------
(* The row and its owner.                                                  *)

\* One transaction, which the database may refuse while faults are left.
Storage(ok) ==
    /\ ok \/ faults < MaxFaults
    /\ faults' = IF ok THEN faults ELSE faults + 1

\* transitionOwnedDeliveryQueueEntry: the row is still the one of this owner,
\* where no owner means that nobody may own it.
Owned(id) ==
    /\ status = "pending"
    /\ IF id = None THEN row.attempt = None /\ row.claim = None
                    ELSE row.attempt = id \/ row.claim = id

\* The row a claim writes: a fresh owner, a fresh lease, no evidence.
ClaimedBy(r, id) ==
    [state |-> "producer_claimed", claim |-> id, attempt |-> None,
     startedAt |-> 0, lease |-> "held",
     retries |-> r.retries, attempts |-> r.attempts]

\* Fault: an expired lease is enough, whatever was sent under it.
ClaimableOnExpiry(r, reconciledAttempt, reconciledAt) ==
    status = "pending" /\ (r.state = "none" \/ r.lease = "expired")

\* claimDeliveryQueueEntryPlatformSend: nobody owns the row, or its producer's
\* lease ran out, or the exact attempt a reconciliation proved unsent holds it.
Claimable(r, reconciledAttempt, reconciledAt) ==
    LET reconciledNotSent ==
            /\ r.state = "send_attempt_started"
            /\ reconciledAttempt # None
            /\ r.attempt = reconciledAttempt
            /\ r.startedAt = reconciledAt
    IN  /\ status = "pending"
        /\ r.startedAt # 0 => /\ r.attempt # None
                              /\ r.attempt = reconciledAttempt
                              /\ r.startedAt = reconciledAt
        /\ \/ r.state = "none"
           \/ reconciledNotSent
           \/ r.state = "producer_claimed" /\ r.lease = "expired"

\* renewDeliveryQueueEntryPlatformSendLease.
Renewable(id) ==
    /\ status = "pending"
    /\ row.lease = "held"
    /\ CASE row.state = "producer_claimed" -> row.claim = id
         [] row.state \in {"send_attempt_started", "unknown_after_send"} -> row.attempt = id
         [] OTHER -> FALSE

\* promoteDeliveryQueueEntryPlatformSend.
Promotable(id) ==
    /\ status = "pending"
    /\ row.startedAt = 0
    /\ row.state = "producer_claimed" /\ row.claim = id /\ row.lease = "held"

Promoted(r, id) ==
    [state |-> "send_attempt_started", claim |-> None, attempt |-> id,
     startedAt |-> 1, lease |-> "held",
     retries |-> r.retries, attempts |-> r.attempts]

\* dispatchDeliveryQueueEntryPlatformSend.
Dispatchable(id) ==
    /\ status = "pending"
    /\ row.lease = "held"
    /\ \/ row.state = "producer_claimed" /\ row.claim = id
       \/ row.state \in {"send_attempt_started", "unknown_after_send"} /\ row.attempt = id

Dispatched(r, id) ==
    [state |-> IF r.state = "unknown_after_send" THEN r.state ELSE "send_attempt_started",
     claim |-> None, attempt |-> id,
     startedAt |-> 2, lease |-> r.lease,
     retries |-> r.retries, attempts |-> r.attempts]

\* Faults: the claim's state outlives the claim; the evidence is dropped.
FailedStale(r) == [r EXCEPT !.retries = @ + 1, !.lease = "none", !.claim = None]
FailedClean(r) ==
    [r EXCEPT !.retries = @ + 1, !.lease = "none", !.claim = None,
              !.attempt = None, !.startedAt = 0, !.state = "none"]

\* failDelivery: release the owner, keep the evidence.
Failed(r) ==
    [state |-> IF r.state = "producer_claimed" THEN "none" ELSE r.state,
     claim |-> None, attempt |-> r.attempt,
     startedAt |-> r.startedAt, lease |-> "none",
     retries |-> r.retries + 1, attempts |-> r.attempts]

\* failDeliveryBeforePlatformSend: release the owner and drop the evidence.
FailedBefore(r) ==
    [state |-> "none", claim |-> None, attempt |-> None,
     startedAt |-> 0, lease |-> "none",
     retries |-> r.retries + 1, attempts |-> r.attempts]

\* failDeliveryAfterPlatformSend: release the owner, record a possible send.
FailedAfter(r) ==
    [state |-> "unknown_after_send", claim |-> None, attempt |-> r.attempt,
     startedAt |-> IF r.startedAt = 0 THEN 2 ELSE r.startedAt, lease |-> "none",
     retries |-> r.retries + 1, attempts |-> r.attempts]

\* markDeliveryPlatformOutcomeUnknown: the attempt keeps its lease.
OutcomeUnknown(r, id) ==
    [state |-> "unknown_after_send", claim |-> None, attempt |-> r.attempt,
     startedAt |-> IF r.startedAt = 0 THEN 2 ELSE r.startedAt,
     lease |-> IF r.attempt = id THEN r.lease ELSE "none",
     retries |-> r.retries, attempts |-> r.attempts]

\* resolveAttemptCount.
AttemptCount(r) == IF r.attempts > r.retries THEN r.attempts ELSE r.retries

NeedsReconciliation(r) == r.state \in {"send_attempt_started", "unknown_after_send"}

\* Fault: an owner is respected for as long as the row names one.
HasOwner(r) == r.state # "none"

\* hasActiveDeliveryOwner, of a row that requires a producer claim.
HasActiveOwner(r) == r.state # "none" /\ r.lease = "held"

-----------------------------------------------------------------------------
(* A producer.                                                             *)

\* stageAndEnqueueOutboundDelivery with claimForLiveDelivery: the row is born
\* owned, and the process enters its own claim of the identifier.
Enqueue(p) ==
    /\ status = "absent" /\ job[p].pc = "idle" /\ claims < MaxClaims
    /\ status' = "pending"
    /\ claims' = claims + 1
    /\ row' = ClaimedBy(NoEntry, claims + 1)
    /\ job' = [job EXCEPT ![p] = [IdleJob EXCEPT !.pc = "queued", !.live = TRUE,
                                                 !.claim = claims + 1]]
    /\ UNCHANGED <<mode, platform, crashes, faults>>

\* A drain of the same process holds the identifier: the producer returns.
YieldToDrain(p) ==
    /\ job[p].pc = "queued" /\ job[p].live /\ p \in Recoverer
    /\ job' = [job EXCEPT ![p] = IdleJob]
    /\ UNCHANGED <<mode, rowVars, platform, claims, crashes, faults>>

\* claimReusableDeliveryPlatformSendAttempt: a replayed stable intent takes
\* over the pending row, if it may.
Reproduce(p, ok) ==
    /\ mode.reusable /\ status = "pending" /\ job[p].pc = "idle"
    /\ claims < MaxReplay /\ claims < MaxClaims
    /\ Storage(ok)
    /\ IF ok /\ Claimable(row, None, 0)
       THEN /\ claims' = claims + 1
            /\ row' = ClaimedBy(row, claims + 1)
            /\ job' = [job EXCEPT ![p] = [IdleJob EXCEPT !.pc = "queued", !.live = TRUE,
                                                         !.claim = claims + 1]]
       ELSE UNCHANGED <<row, job, claims>>
    /\ UNCHANGED <<mode, status, platform, crashes>>

-----------------------------------------------------------------------------
(* The lease that covers preparation and send.                             *)

\* A throw out of the send path: the producer's cleanup, or the drain's catch,
\* records a failure that proves nothing.  A producer whose lease is lost
\* writes nothing any more.
Thrown(j) == IF j.live /\ j.lost THEN IdleJob ELSE [j EXCEPT !.pc = "fail"]

\* startDeliveryProducerLease: the first renewal must succeed.  Its failure
\* reaches the drain's catch, but is thrown before the producer's cleanup.
StartLease(p, ok) ==
    LET j == job[p] IN
    /\ j.pc = "queued"
    /\ Storage(ok)
    /\ job' = [job EXCEPT ![p] = IF ok /\ Renewable(j.claim) THEN [j EXCEPT !.pc = "leased"]
                                 ELSE IF j.live THEN IdleJob ELSE Thrown(j)]
    /\ UNCHANGED <<mode, rowVars, platform, claims, crashes>>

Leasing(j) == j.pc \in {"leased", "dropping", "started", "sending", "mark", "markFail",
                        "ack", "ackUnsent", "failAfter", "failBefore", "withdraw"}
              /\ j.claim # None /\ j.verdict = "none"

\* A heartbeat finds that the exact owner is gone and aborts the send.  (One
\* that succeeds moves the expiry, and a refused one changes nothing.)
HeartbeatLost(p) ==
    /\ Leasing(job[p]) /\ ~job[p].lost /\ ~Renewable(job[p].claim)
    /\ job' = [job EXCEPT ![p].lost = TRUE]
    /\ UNCHANGED <<mode, rowVars, platform, claims, crashes, faults>>

\* The timer of the last confirmed expiry fires: heartbeats were late or were
\* refused.  The row's own lease may have been extended since, by a promotion.
ExpiryTimer(p) ==
    /\ Leasing(job[p]) /\ ~job[p].lost
    /\ job' = [job EXCEPT ![p].lost = TRUE]
    /\ UNCHANGED <<mode, rowVars, platform, claims, crashes, faults>>

\* availableAt passes: nobody renewed it in time.
LeaseExpires ==
    /\ status = "pending" /\ row.lease = "held"
    /\ row' = [row EXCEPT !.lease = "expired"]
    /\ UNCHANGED <<mode, status, platform, job, claims, crashes, faults>>

-----------------------------------------------------------------------------
(* The send.                                                               *)

\* The policy of this attempt: without one a producer takes best effort, and
\* the recovery of its row does not.
Required(j) == mode.policy = "required" \/ (mode.policy = "default" /\ ~j.live)

\* The payload renders to nothing visible: the core skips it, calls no adapter
\* and returns no result.
Suppress(p) ==
    /\ job[p].pc = "leased" /\ ~job[p].lost
    /\ job' = [job EXCEPT ![p].pc = "ackUnsent", ![p].answer = "suppressed"]
    /\ UNCHANGED <<mode, rowVars, platform, claims, crashes, faults>>

\* onPlatformSendStart: unless the adapter reconciles exactly, the claim
\* becomes an attempt before any request.  When that fails, a best-effort
\* send drops its own row first, and any other gives up.
SendStart(p, ok) ==
    LET j == job[p]
        promoted == ok /\ Promotable(j.claim) IN
    /\ j.pc = "leased" /\ ~j.lost
    /\ mode.exact => ok
    /\ Storage(ok)
    /\ \/ /\ mode.exact
          /\ job' = [job EXCEPT ![p].pc = "started"]
          /\ UNCHANGED row
       \/ /\ ~mode.exact /\ promoted
          /\ row' = Promoted(row, j.claim)
          /\ job' = [job EXCEPT ![p].pc = "started", ![p].pre = "marked"]
       \/ /\ ~mode.exact /\ ~promoted
          /\ job' = [job EXCEPT ![p] = IF Required(j) THEN Thrown(j)
                                       ELSE [j EXCEPT !.pc = "dropping"]]
          /\ UNCHANGED row
    /\ UNCHANGED <<mode, status, platform, claims, crashes>>

\* The removal is a transaction of its own, and "a lost claim or failed ack
\* aborts the send instead of erasing a replacement owner".
AckBeforeSend(p, ok) ==
    LET j == job[p]
        dropped == ok /\ Owned(j.claim) IN
    /\ j.pc = "dropping"
    /\ Storage(ok)
    /\ status' = IF dropped THEN "completed" ELSE status
    /\ job' = [job EXCEPT ![p] = IF dropped THEN [j EXCEPT !.pc = "started", !.pre = "acked"]
                                 ELSE Thrown(j)]
    /\ UNCHANGED <<mode, row, platform, claims, crashes>>

\* onPlatformSendDispatch and the request that follows it at once.  An owner
\* that can not refresh its attempt must not send.
Dispatch(p, ok) ==
    LET j == job[p]
        fenced == mode.dispatches /\ j.pre # "acked" IN
    /\ j.pc = "started" /\ ~j.lost
    /\ Storage(ok)
    /\ \/ /\ fenced => ok /\ Dispatchable(j.claim)
          /\ row' = IF fenced THEN Dispatched(row, j.claim) ELSE row
          /\ wire' = wire \cup {j.claim}
          /\ job' = [job EXCEPT ![p].pc = "sending",
                                ![p].pre = IF j.pre = "acked" THEN "acked" ELSE "marked"]
       \/ /\ fenced /\ ~(ok /\ Dispatchable(j.claim))
          /\ job' = [job EXCEPT ![p] = Thrown(j)]
          /\ UNCHANGED <<row, wire>>
    /\ UNCHANGED <<mode, status, seen, claims, crashes>>

\* A lost lease, or the caller's own abort, stops the send between two steps.
\* Without evidence of a send an aborted intent is removed; with it, kept.
Abort(p) ==
    LET j == job[p] IN
    /\ j.pc \in {"leased", "started"}
    /\ j.lost \/ j.live
    /\ job' = [job EXCEPT ![p] =
          CASE j.lost -> Thrown(j)
            [] ~j.lost /\ j.pre = "marked" -> [j EXCEPT !.pc = "failAfter"]
            [] ~j.lost /\ j.pre = "none" -> [j EXCEPT !.pc = "withdraw"]
            [] OTHER -> IdleJob]
    /\ UNCHANGED <<mode, rowVars, platform, claims, crashes, faults>>

\* The platform shows the message, or never will.
Show(c) ==
    /\ c \in wire
    /\ wire' = wire \ {c}
    /\ seen' = seen \cup {c}
    /\ UNCHANGED <<mode, rowVars, job, claims, crashes, faults>>

Drop(c) ==
    /\ c \in wire
    /\ wire' = wire \ {c}
    /\ UNCHANGED <<mode, rowVars, seen, job, claims, crashes, faults>>

\* What an answer must tell the truth about: an identity names a message, and
\* an error that proves nothing was sent does prove it.
Truthful(a, c) ==
    CASE a = "identity" -> c \in seen
      [] a \in {"not_sent", "rejected"} -> c \notin wire \cup seen
      [] a = "no_identity" -> c \notin wire
      [] OTHER -> TRUE

\* The first write of the producer's cleanup after each outcome: none when its
\* lease is lost, a marker as soon as anything may have been sent.
ProducerWrite(j, a) ==
    CASE j.lost -> "idle"
      [] ~j.lost /\ a = "identity" -> "mark"
      [] ~j.lost /\ a = "no_identity" -> "markFail"
      [] ~j.lost /\ a = "error" -> IF mode.dispatches THEN "markFail" ELSE "fail"
      [] ~j.lost /\ a = "not_sent" -> IF mode.callerRetries THEN "dead" ELSE "failBefore"
      [] ~j.lost /\ a = "rejected" -> "withdraw"

\* Fault: a send without an identity is taken for one that never started.
DrainWriteUnsent(j, a) ==
    CASE a = "identity" -> "mark"
      [] a # "identity" /\ j.lost -> "fail"
      [] ~j.lost /\ a = "no_identity" -> "ackUnsent"
      [] ~j.lost /\ a = "error" -> "fail"
      [] ~j.lost /\ a = "not_sent" -> "failBefore"
      [] ~j.lost /\ a = "rejected" -> "dead"

\* The first write of a drain: an identity is marked even if the lease is
\* lost, any other outcome of a lost lease proves nothing.
DrainWrite(j, a) ==
    CASE a = "identity" -> "mark"
      [] a # "identity" /\ j.lost -> "fail"
      [] ~j.lost /\ a = "no_identity" -> "failAfter"
      [] ~j.lost /\ a = "error" -> "fail"
      [] ~j.lost /\ a = "not_sent" -> "failBefore"
      [] ~j.lost /\ a = "rejected" -> "dead"

\* A row that was removed before the send has nothing left to write.
FirstWrite(j, a) ==
    IF j.pre = "acked" THEN "idle"
    ELSE IF j.live THEN ProducerWrite(j, a) ELSE DrainWrite(j, a)

Answer(p, a) ==
    LET j == job[p]
        pc == FirstWrite(j, a) IN
    /\ j.pc = "sending" /\ a \notin {"none", "suppressed"} /\ Truthful(a, j.claim)
    /\ job' = [job EXCEPT ![p] = IF pc = "idle" THEN IdleJob
                                 ELSE [j EXCEPT !.pc = pc, !.answer = a]]
    /\ UNCHANGED <<mode, rowVars, platform, claims, crashes, faults>>

-----------------------------------------------------------------------------
(* Settling an attempt.                                                    *)

\* What a settling write does to the row, and to its status.
Written(op, r, id) ==
    CASE op \in {"mark", "markFail"} -> OutcomeUnknown(r, id)
      [] op = "fail" -> Failed(r)
      [] op = "failBefore" -> FailedBefore(r)
      [] op \in {"failAfter", "failFallback"} -> FailedAfter(r)
      [] OTHER -> r

\* ackDelivery keeps a receipt of the row or removes it.  A bounded receipt is
\* suppressed when nothing was visible, a permanent one is not.
StatusAfter(op) ==
    CASE op \in {"ack", "ackFallback", "ackSent"} -> "completed"
      [] op = "ackUnsent" -> IF mode.permanent THEN "suppressed" ELSE "withdrawn"
      [] op = "withdraw" -> "withdrawn"
      [] op = "dead" -> "dead"
      [] OTHER -> "pending"

\* persistQueuedPostSendState without its marker: a producer without a reusable
\* intent acknowledges directly, any other records a possible send.
Fallback(j) == IF j.live /\ ~mode.reusable THEN "ackFallback" ELSE "failFallback"

\* The write that follows a settling write, done or refused.  A refused
\* fallback throws out of the core: the catch around it, which holds a result,
\* marks once more.  A drain's catch also follows its own refused failAfter
\* and its refused failure of an unsent row.
NextWrite(j, done) ==
    CASE j.pc = "mark" -> IF ~done THEN Fallback(j)
                          ELSE IF j.lost \/ j.answer = "error" THEN "idle" ELSE "ack"
      [] j.pc = "markFail" -> IF done THEN "failAfter" ELSE Fallback(j)
      [] j.pc = "ack" -> IF done THEN "idle" ELSE "failAfter"
      [] j.pc = "ackFallback" -> IF done THEN "idle" ELSE "failFallback"
      [] j.pc = "failFallback" -> IF done \/ j.answer # "identity" THEN "idle"
                                  ELSE IF j.live THEN "markFail" ELSE "mark"
      [] j.pc \in {"ackSent", "ackUnsent"} -> IF done THEN "idle" ELSE "fail"
      [] j.pc = "failAfter" -> IF ~done /\ ~j.live /\ j.answer = "no_identity"
                               THEN "fail" ELSE "idle"
      [] j.pc = "fail" -> IF ~done /\ ~j.live /\ j.answer = "suppressed"
                          THEN "fail" ELSE "idle"
      [] j.pc = "withdraw" -> IF done \/ j.answer # "rejected" THEN "idle"
                              ELSE IF mode.callerRetries THEN "dead" ELSE "failBefore"
      [] OTHER -> "idle"

\* What the catch knows of the send that it settles.
AnswerAfter(j) == IF j.pc \in {"fail", "failAfter", "failFallback"} THEN "error" ELSE j.answer

\* A producer that lost its lease no longer touches the row, except in the
\* fallbacks of a failed post-send marker.
Silenced(j) == j.live /\ j.lost /\ j.pc \notin {"ackFallback", "failFallback"}

Settle(p, ok) ==
    LET j == job[p]
        done == ok /\ Owned(j.claim)
        pc == NextWrite(j, done) IN
    /\ j.pc \in Settling
    /\ Storage(ok)
    /\ IF Silenced(j)
       THEN /\ ok
            /\ job' = [job EXCEPT ![p] = IdleJob]
            /\ UNCHANGED rowVars
       ELSE /\ IF done
               THEN /\ row' = Written(j.pc, row, j.claim)
                    /\ status' = StatusAfter(j.pc)
               ELSE UNCHANGED rowVars
            /\ job' = [job EXCEPT ![p] = IF pc = "idle" THEN IdleJob
                                         ELSE [j EXCEPT !.pc = pc, !.answer = AnswerAfter(j)]]
    /\ UNCHANGED <<mode, platform, claims, crashes>>

-----------------------------------------------------------------------------
(* Recovery.                                                               *)

\* The drain enters the process's claim of the identifier, reloads the row
\* and leaves an owned one alone.  A spent budget goes straight to failed/,
\* under the owner recoveryPlatformAttemptId reads from the snapshot.
Scan(p) ==
    /\ p \in Recoverer /\ job[p].pc = "idle" /\ status = "pending"
    /\ ~HasActiveOwner(row)
    /\ job' = [job EXCEPT ![p] = [IdleJob EXCEPT
          !.pc = IF AttemptCount(row) >= MaxRetries /\ ~NeedsReconciliation(row) THEN "dead"
                 ELSE IF NeedsReconciliation(row) THEN "loaded" ELSE "claiming",
          !.claim = row.attempt,
          !.snap = row]]
    /\ UNCHANGED <<mode, rowVars, platform, claims, crashes, faults>>

\* applyRecoveryDeliveryAdmission: the account no longer takes deferred
\* deliveries; the row is removed only if it is still the one loaded.
RefuseAdmission(p, ok) ==
    LET j == job[p] IN
    /\ j.pc \in {"loaded", "claiming", "dead"} /\ j.snap # NoEntry /\ j.verdict = "none"
    /\ Storage(ok)
    /\ status' = IF ok /\ status = "pending" /\ row = j.snap THEN "dead" ELSE status
    /\ job' = [job EXCEPT ![p] = IdleJob]
    /\ UNCHANGED <<mode, row, platform, claims, crashes>>

\* The adapter's answer about an earlier attempt: "not_sent only when a fresh
\* send is provably safe".  Without a reconciler there is none.
Verdicts ==
    IF ~mode.reconciles THEN {"give_up"}
    ELSE {"retry", "give_up"} \cup (IF seen # {} THEN {"sent"} ELSE {})
                              \cup (IF wire \cup seen = {} THEN {"not_sent"} ELSE {})

Reconcile(p, v) ==
    /\ job[p].pc = "loaded" /\ v \in Verdicts
    /\ job' = [job EXCEPT ![p].pc = "reconciled", ![p].verdict = v]
    /\ UNCHANGED <<mode, rowVars, platform, claims, crashes, faults>>

\* A proven non-send of an attempt replays it; post-send evidence never does.
ActOnVerdict(p) ==
    LET j == job[p]
        replay == j.verdict = "not_sent" /\ j.snap.state = "send_attempt_started"
        later == j.verdict = "retry" /\ AttemptCount(j.snap) < MaxRetries IN
    /\ j.pc = "reconciled"
    /\ job' = [job EXCEPT ![p].pc = IF j.verdict = "sent" THEN "ackSent"
                                    ELSE IF replay THEN "claiming"
                                    ELSE IF later THEN "fail" ELSE "dead"]
    /\ UNCHANGED <<mode, rowVars, platform, claims, crashes, faults>>

\* claimDeliveryPlatformSendAttempt, with what the reconciliation looked at.
ClaimRow(p, ok) ==
    LET j == job[p]
        reconciled == j.verdict = "not_sent" IN
    /\ j.pc = "claiming" /\ claims < MaxClaims
    /\ Storage(ok)
    /\ IF ok /\ Claimable(row, IF reconciled THEN j.snap.attempt ELSE None,
                               IF reconciled THEN j.snap.startedAt ELSE 0)
       THEN /\ claims' = claims + 1
            /\ row' = ClaimedBy(row, claims + 1)
            /\ job' = [job EXCEPT ![p] = [IdleJob EXCEPT !.pc = "claimed", !.live = FALSE,
                                                         !.claim = claims + 1]]
       ELSE /\ job' = [job EXCEPT ![p] = IdleJob]
            /\ UNCHANGED <<row, claims>>
    /\ UNCHANGED <<mode, status, platform, crashes>>

\* reserveDeliveryAttempt: one unit of the budget before the provider is
\* called.  A refused reservation ends the drain and leaves the claim behind.
Reserve(p, ok) ==
    LET j == job[p] IN
    /\ j.pc = "claimed"
    /\ Storage(ok)
    /\ IF ~(ok /\ Owned(j.claim))
       THEN /\ job' = [job EXCEPT ![p] = IdleJob]
            /\ UNCHANGED row
       ELSE IF AttemptCount(row) >= MaxRetries
       THEN /\ job' = [job EXCEPT ![p].pc = "dead"]
            /\ UNCHANGED row
       ELSE /\ row' = [row EXCEPT !.attempts = AttemptCount(row) + 1]
            /\ job' = [job EXCEPT ![p].pc = "queued"]
    /\ UNCHANGED <<mode, status, platform, claims, crashes>>

\* A process dies; what it had in memory is gone, its requests are not.
Crash(p) ==
    /\ job[p] # IdleJob /\ crashes < MaxCrashes
    /\ crashes' = crashes + 1
    /\ job' = [job EXCEPT ![p] = IdleJob]
    /\ UNCHANGED <<mode, rowVars, platform, claims, faults>>

-----------------------------------------------------------------------------
\* What a process does by itself once it has the entry in hand.
Work(p) ==
    \/ \E ok \in BOOLEAN : \/ StartLease(p, ok) \/ SendStart(p, ok) \/ AckBeforeSend(p, ok)
                           \/ Dispatch(p, ok) \/ Settle(p, ok)
                           \/ ClaimRow(p, ok) \/ Reserve(p, ok)
    \/ Suppress(p)
    \/ \E a \in Answers : Answer(p, a)
    \/ \E v \in Verdicts : Reconcile(p, v)
    \/ ActOnVerdict(p)
    \/ Abort(p)

Next ==
    \/ \E p \in Process :
          \/ Enqueue(p) \/ YieldToDrain(p)
          \/ Work(p)
          \/ HeartbeatLost(p) \/ ExpiryTimer(p)
          \/ Scan(p)
          \/ \E ok \in BOOLEAN : Reproduce(p, ok) \/ RefuseAdmission(p, ok)
          \/ Crash(p)
    \/ \E c \in Claim : Show(c) \/ Drop(c)
    \/ LeaseExpires

\* Nobody is left to renew the lease.
Unattended == \A p \in Process : job[p].claim \notin {row.claim, row.attempt} \ {None}

\* Promises settle and requests end; the gateway's retry timer drains again
\* and again; a lease that nobody renews runs out.
Fairness ==
    /\ \A p \in Process : WF_vars(Work(p))
    /\ \A p \in Recoverer : WF_vars(Scan(p))
    /\ \A c \in Claim : WF_vars(Show(c) \/ Drop(c))
    /\ WF_vars(LeaseExpires /\ Unattended)

Spec == Init /\ [][Next]_vars
LiveSpec == Spec /\ Fairness

-----------------------------------------------------------------------------
\* The recipient sees the message at most once: a late request, a replay after
\* a crash and a second producer never show it again.
SeenOnce == Cardinality(seen) <= 1

\* While a request may have reached the platform, the pending row says so, and
\* no blind replay can claim it.
EvidenceKept ==
    status = "pending" /\ wire \cup seen # {} =>
        row.state \in {"send_attempt_started", "unknown_after_send"}

\* A completed row says what happened: with a working database, that of a
\* required delivery stands for a message the recipient has seen, and that of a
\* batch with nothing visible for a send that never was, whatever failed.
ReceiptTruthful ==
    /\ status = "completed" /\ faults = 0 /\ mode.policy = "required" => seen # {}
    /\ status = "suppressed" => wire \cup seen = {}

\* The row whose claim outlived its owner with the budget already spent.
Stranded ==
    /\ status = "pending"
    /\ row.state = "producer_claimed" /\ row.lease = "expired"
    /\ AttemptCount(row) >= MaxRetries

\* Every admitted delivery is settled in the end, whatever crashed or was
\* refused on the way, or its row is stranded.
Settles == status = "pending" ~> status # "pending" \/ Stranded

\* "Uses exponential backoff and moves entries that exhaust their retry budget
\* to failed/": a spent row leaves the queue.
SpentLeavesQueue ==
    status = "pending" /\ AttemptCount(row) >= MaxRetries ~> status # "pending"
=============================================================================
