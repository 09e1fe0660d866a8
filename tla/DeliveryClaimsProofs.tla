------------------------ MODULE DeliveryClaimsProofs ------------------------
(***************************************************************************)
(* For every number of processes, claims, retries, crashes and refused     *)
(* transactions, and for every kind of adapter: the row keeps its shape,   *)
(* the recipient sees the message at most once, a pending row keeps the    *)
(* evidence of a request that may have been sent, and receipts are true.   *)
(***************************************************************************)
EXTENDS DeliveryClaims, FiniteSetTheorems, TLAPS

\* Requests that reached the platform, shown or not yet.
Out == wire \cup seen

\* What a process does under a claim of its own (a drain that only settles an
\* earlier attempt borrows the claim of that attempt).
Unsent == {"claimed", "queued", "leased", "dropping", "ackUnsent"}
AfterSend == {"mark", "markFail", "ack", "ackFallback", "failAfter", "failFallback"}
Owning == Unsent \cup AfterSend \cup {"started", "sending", "withdraw", "failBefore"}

\* A job whose claim has become an attempt.
Past(j) == j.pc \in AfterSend \/ (j.pc \in {"started", "sending"} /\ j.pre = "marked")

\* A job that sends without asking the row again.
Ready(j) == j.pc = "started" /\ (j.pre = "acked" \/ ~mode.dispatches)

\* What holds of the row and of the platform.
RowInv ==
    /\ row.claim <= claims /\ row.attempt <= claims
    /\ \A c \in Out : c <= claims
    /\ status = "absent" => claims = 0
    /\ status = "pending" => Out \subseteq {row.attempt}
    /\ status = "suppressed" => Out = {}
    /\ \A c, d \in Out : c = d

\* What holds of one job.
JobInv(j) ==
    /\ j.claim <= claims /\ j.snap.attempt <= claims
    /\ j.pc \in Owning => j.claim # None /\ j.verdict = "none"
    /\ j.pc \in Unsent => j.pre = "none" /\ row.attempt # j.claim
    /\ Past(j) => row.claim # j.claim
    /\ j.pc \in Unsent \cup {"started"} => j.answer \in {"none", "suppressed"}
    /\ j.pc = "sending" => j.pre # "none"
    /\ j.pc = "started" => j.pre # "none" \/ mode.dispatches
    /\ j.pc = "started" /\ j.pre = "acked" => status # "pending"
    /\ j.verdict = "not_sent" => mode.reconciles
    /\ row.claim # None => j.snap.attempt # row.claim
    /\ status = "pending" /\ row.attempt # None /\ j.snap.attempt = row.attempt =>
          row.lease # "held" /\ (j.verdict = "not_sent" => Out = {})
    /\ j.pc = "failBefore" \/ (j.pc = "withdraw" /\ j.answer = "rejected") =>
          j.claim \notin Out
    /\ Ready(j) => /\ Out = {} /\ status # "suppressed"
                   /\ status = "pending" => row.attempt = j.claim

\* Two jobs never own one claim, and never send blindly at the same time.
Apart(j, k) ==
    /\ ~(j.pc \in Owning /\ k.pc \in Owning /\ j.claim = k.claim)
    /\ ~(Ready(j) /\ Ready(k))

IInv ==
    /\ TypeOK
    /\ RowInv
    /\ \A p \in Process : JobInv(job[p])
    /\ \A p, q \in Process : p # q => Apart(job[p], job[q])

-----------------------------------------------------------------------------
\* The shape of the row settles what each state says about its owner.
LEMMA Shape ==
    ASSUME TypeOK
    PROVE  /\ row.state = "none" \/ row.state = "producer_claimed" <=> row.attempt = None
           /\ row.state = "none" \/ row.state = "producer_claimed" <=> row.startedAt = 0
           /\ row.claim # None <=> row.state = "producer_claimed"
           /\ row.attempt # None <=> NeedsReconciliation(row)
BY DEF TypeOK, RowShape, Entry, RecoveryState, NeedsReconciliation

\* A step of one job that leaves the row and the platform alone keeps the
\* invariant if the job does, and gains neither a claim nor a blind send.
LEMMA JobStep ==
    ASSUME IInv, NEW p \in Process, NEW j \in Job,
           job' = [job EXCEPT ![p] = j],
           UNCHANGED <<mode, rowVars, platform, claims>>,
           crashes' \in 0..MaxCrashes, faults' \in 0..MaxFaults,
           JobInv(j),
           j.pc \in Owning => job[p].pc \in Owning /\ j.claim = job[p].claim,
           Ready(j) => Ready(job[p])
    PROVE  IInv'
<1> USE DEF rowVars, platform
<1>1. TypeOK'
  BY DEF IInv, TypeOK, RowShape
<1>2. RowInv'
  BY DEF IInv, RowInv, Out
<1>3. ASSUME NEW q \in Process PROVE JobInv(job[q])'
  <2>1. JobInv(job'[q])
    BY DEF IInv, TypeOK
  <2>2. QED
    BY <2>1 DEF JobInv, Past, Ready, Out
<1>4. ASSUME NEW q \in Process, NEW r \in Process, q # r PROVE Apart(job[q], job[r])'
  <2>1. Apart(job'[q], job'[r])
    BY <1>4 DEF IInv, TypeOK, Apart
  <2>2. QED
    BY <2>1 DEF Apart, Ready
<1>5. QED
  BY <1>1, <1>2, <1>3, <1>4 DEF IInv

\* An idle process says nothing.
LEMMA IdleFits == ASSUME IInv PROVE IdleJob \in Job /\ JobInv(IdleJob) /\ ~Ready(IdleJob)
                                  /\ IdleJob.pc \notin Owning
BY DEF IInv, TypeOK, IdleJob, NoEntry, Job, Entry, Phase, Settling, Answers, RecoveryState,
       JobInv, Past, Ready, Owning, Unsent, AfterSend, None, Claim

\* A process may drop what it does at any time.
LEMMA IdleStep ==
    ASSUME IInv, NEW p \in Process,
           job' = [job EXCEPT ![p] = IdleJob],
           UNCHANGED <<mode, rowVars, platform, claims>>,
           crashes' \in 0..MaxCrashes, faults' \in 0..MaxFaults
    PROVE  IInv'
BY IdleFits, JobStep

\* A job that learns that its lease is lost changes nothing else.
LEMMA LostFits ==
    ASSUME IInv, NEW p \in Process
    PROVE  LET j == [job[p] EXCEPT !.lost = TRUE]
           IN  j \in Job /\ JobInv(j) /\ j.pc = job[p].pc /\ j.claim = job[p].claim
               /\ j.pre = job[p].pre
BY DEF IInv, TypeOK, Job, JobInv, Past, Ready

\* A throw out of the send path gives up the claim.
LEMMA ThrownFits ==
    ASSUME IInv, NEW p \in Process, job[p].pc \in Owning
    PROVE  LET j == Thrown(job[p])
           IN  j \in Job /\ JobInv(j) /\ j.pc \notin Owning /\ ~Ready(j)
<1>1. CASE job[p].live /\ job[p].lost
  BY <1>1, IdleFits DEF Thrown
<1>2. CASE ~(job[p].live /\ job[p].lost)
  BY <1>2 DEF IInv, TypeOK, Job, Phase, Settling, JobInv, Past, Ready, Thrown, Owning,
               Unsent, AfterSend
<1>3. QED
  BY <1>1, <1>2

\* A drain that loads the row holds an attempt no owner still renews.
LEMMA ScanStep == ASSUME IInv, NEW p \in Process, Scan(p) PROVE IInv'
<1> DEFINE j == [IdleJob EXCEPT
          !.pc = IF AttemptCount(row) >= MaxRetries /\ ~NeedsReconciliation(row) THEN "dead"
                 ELSE IF NeedsReconciliation(row) THEN "loaded" ELSE "claiming",
          !.claim = row.attempt,
          !.snap = row]
<1>1. j.pc \in {"dead", "loaded", "claiming"} /\ j.claim = row.attempt /\ j.snap = row
      /\ j.verdict = "none" /\ j.pre = "none" /\ j.answer = "none"
  BY DEF IdleJob
<1>2. j \in Job
  BY DEF IInv, TypeOK, Job, Entry, IdleJob, Phase, Settling, Answers
<1>3. JobInv(j)
  <2>1. row.attempt # None => row.lease # "held"
    BY Shape DEF Scan, HasActiveOwner, NeedsReconciliation, IInv
  <2>2. row.claim # None => row.attempt # row.claim
    BY Shape DEF IInv
  <2>3. QED
    BY <1>1, <2>1, <2>2 DEF JobInv, Past, Ready, Owning, Unsent, AfterSend, IInv, RowInv
<1>4. j.pc \notin Owning /\ ~Ready(j)
  BY <1>1 DEF Owning, Unsent, AfterSend, Ready
<1>5. job' = [job EXCEPT ![p] = j] /\ UNCHANGED <<mode, rowVars, platform, claims, crashes, faults>>
  BY DEF Scan
<1> HIDE DEF j
<1>6. QED
  BY <1>2, <1>3, <1>4, <1>5, JobStep DEF IInv, TypeOK

\* A reconciliation that finds no send found nothing out.
LEMMA ReconcileStep ==
    ASSUME IInv, NEW p \in Process, NEW v \in Verdicts, Reconcile(p, v) PROVE IInv'
<1> DEFINE j == [job[p] EXCEPT !.pc = "reconciled", !.verdict = v]
<1>1. v \in {"sent", "not_sent", "retry", "give_up"}
      /\ (v = "not_sent" => mode.reconciles /\ Out = {})
  BY DEF Verdicts, Out
<1>2. j \in Job /\ j.pc = "reconciled" /\ j.verdict = v /\ j.snap = job[p].snap
      /\ j.claim = job[p].claim
  BY <1>1 DEF IInv, TypeOK, Job, Phase
<1>3. JobInv(j) /\ j.pc \notin Owning /\ ~Ready(j)
  BY <1>1, <1>2 DEF IInv, JobInv, Past, Ready, Owning, Unsent, AfterSend
<1>4. job' = [job EXCEPT ![p] = j] /\ UNCHANGED <<mode, rowVars, platform, claims, crashes, faults>>
  BY DEF Reconcile, IInv, TypeOK
<1> HIDE DEF j
<1>5. QED
  BY <1>2, <1>3, <1>4, JobStep DEF IInv, TypeOK

\* Acting on a verdict only chooses the next write of the drain.
LEMMA ActOnVerdictStep == ASSUME IInv, NEW p \in Process, ActOnVerdict(p) PROVE IInv'
<1>1. PICK pc \in {"ackSent", "claiming", "fail", "dead"} : job' = [job EXCEPT ![p].pc = pc]
  BY DEF ActOnVerdict
<1> DEFINE j == [job[p] EXCEPT !.pc = pc]
<1>2. j \in Job /\ j.pc = pc /\ j.verdict = job[p].verdict /\ j.snap = job[p].snap
      /\ j.claim = job[p].claim
  BY DEF IInv, TypeOK, Job, Phase, Settling
<1>3. JobInv(j) /\ j.pc \notin Owning /\ ~Ready(j)
  BY <1>2 DEF IInv, JobInv, Past, Ready, Owning, Unsent, AfterSend
<1>4. job' = [job EXCEPT ![p] = j] /\ UNCHANGED <<mode, rowVars, platform, claims, crashes, faults>>
  BY <1>1 DEF ActOnVerdict, IInv, TypeOK
<1> HIDE DEF j
<1>5. QED
  BY <1>2, <1>3, <1>4, JobStep DEF IInv, TypeOK

\* A write that drops evidence follows a truthful "not sent" only.
LEMMA AnswerStep ==
    ASSUME IInv, NEW p \in Process, NEW a \in Answers, Answer(p, a) PROVE IInv'
<1> DEFINE pc == FirstWrite(job[p], a)
           j == [job[p] EXCEPT !.pc = pc, !.answer = a]
<1>1. CASE pc = "idle"
  BY <1>1, IdleStep DEF Answer, IInv, TypeOK
<1>2. CASE pc # "idle"
  <2>1. job[p].pc = "sending" /\ a \notin {"none", "suppressed"} /\ Truthful(a, job[p].claim)
    BY DEF Answer
  <2>2. job[p].pre = "marked" /\ pc \in {"mark", "markFail", "fail", "failAfter", "failBefore",
                                         "dead", "withdraw"}
    BY <1>2, <2>1 DEF FirstWrite, ProducerWrite, DrainWrite, IInv, JobInv, TypeOK, Job, Answers
  <2>3. pc \in {"failBefore", "withdraw"} => a \in {"not_sent", "rejected"}
    BY <1>2, <2>1 DEF FirstWrite, ProducerWrite, DrainWrite, Answers
  <2>4. pc \in {"failBefore", "withdraw"} => job[p].claim \notin Out
    BY <2>1, <2>3 DEF Truthful, Out
  <2>5. job[p].claim # None /\ job[p].verdict = "none" /\ row.claim # job[p].claim
    BY <2>1, <2>2 DEF IInv, JobInv, Past, Owning
  <2> HIDE DEF pc
  <2>6. j \in Job /\ j.pc = pc /\ j.claim = job[p].claim /\ j.verdict = "none"
        /\ j.snap = job[p].snap /\ j.pre = job[p].pre
    BY <2>2, <2>5 DEF IInv, TypeOK, Job, Phase, Settling
  <2>7. JobInv(j) /\ ~Ready(j)
    BY <2>2, <2>4, <2>5, <2>6 DEF IInv, JobInv, Past, Ready, Owning, Unsent, AfterSend
  <2>8. job[p].pc \in Owning
    BY <2>1 DEF Owning
  <2>9. job' = [job EXCEPT ![p] = j]
        /\ UNCHANGED <<mode, rowVars, platform, claims, crashes, faults>>
    BY <1>2 DEF Answer, pc
  <2> HIDE DEF j
  <2>10. QED
    BY <2>6, <2>7, <2>8, <2>9, JobStep DEF IInv, TypeOK
<1>3. QED
  BY <1>1, <1>2

\* An abort withdraws an unsent intent and keeps an attempt.
LEMMA AbortStep == ASSUME IInv, NEW p \in Process, Abort(p) PROVE IInv'
<1>1. job[p].pc \in {"leased", "started"} /\ (job[p].lost \/ job[p].live)
      /\ UNCHANGED <<mode, rowVars, platform, claims, crashes, faults>>
  BY DEF Abort
<1>2. crashes' \in 0..MaxCrashes /\ faults' \in 0..MaxFaults /\ job[p].pc \in Owning
  BY <1>1 DEF IInv, TypeOK, Owning, Unsent
<1>3. CASE job[p].lost
  <2>1. job' = [job EXCEPT ![p] = Thrown(job[p])]
    BY <1>3 DEF Abort
  <2>2. QED
    BY <1>1, <1>2, <2>1, ThrownFits, JobStep
<1>4. CASE ~job[p].lost /\ job[p].pre \in {"marked", "none"}
  <2> DEFINE pc == IF job[p].pre = "marked" THEN "failAfter" ELSE "withdraw"
             j == [job[p] EXCEPT !.pc = pc]
  <2>1. job' = [job EXCEPT ![p] = j]
    BY <1>4 DEF Abort
  <2>2. j \in Job /\ j.pc = pc /\ j.claim = job[p].claim /\ j.verdict = job[p].verdict
        /\ j.snap = job[p].snap /\ j.answer = job[p].answer
    BY DEF IInv, TypeOK, Job, Phase, Settling
  <2>3. job[p].answer # "rejected"
    BY <1>1 DEF IInv, JobInv, Unsent
  <2>4. JobInv(j) /\ ~Ready(j)
    BY <1>1, <1>4, <2>2, <2>3 DEF IInv, JobInv, Past, Ready, Owning, Unsent, AfterSend
  <2> HIDE DEF j
  <2>5. QED
    BY <1>1, <1>2, <2>1, <2>2, <2>4, JobStep
<1>5. CASE ~job[p].lost /\ job[p].pre = "acked"
  BY <1>1, <1>2, <1>5, IdleStep DEF Abort
<1>6. QED
  BY <1>3, <1>4, <1>5 DEF IInv, TypeOK, Job

\* The first renewal keeps the claim, or the job gives it up.
LEMMA StartLeaseStep ==
    ASSUME IInv, NEW p \in Process, NEW ok \in BOOLEAN, StartLease(p, ok) PROVE IInv'
<1>1. job[p].pc = "queued" /\ job[p].pc \in Owning
      /\ UNCHANGED <<mode, rowVars, platform, claims, crashes>>
      /\ faults' \in 0..MaxFaults /\ crashes' \in 0..MaxCrashes
  BY DeliveryAssumption DEF StartLease, Storage, IInv, TypeOK, Owning, Unsent
<1> DEFINE j == [job[p] EXCEPT !.pc = "leased"]
<1>2. j \in Job /\ JobInv(j) /\ ~Ready(j) /\ j.pc = "leased" /\ j.claim = job[p].claim
  BY <1>1 DEF IInv, TypeOK, Job, Phase, JobInv, Past, Ready, Owning, Unsent, AfterSend
<1>3. \E k \in {j, IdleJob, Thrown(job[p])} : job' = [job EXCEPT ![p] = k]
  BY DEF StartLease
<1> HIDE DEF j
<1>4. QED
  BY <1>1, <1>2, <1>3, IdleStep, ThrownFits, JobStep

\* Yielding, losing a lease and crashing touch one job's memory.
LEMMA QuietStep ==
    ASSUME IInv, NEW p \in Process,
           YieldToDrain(p) \/ HeartbeatLost(p) \/ ExpiryTimer(p) \/ Crash(p)
    PROVE  IInv'
<1>1. UNCHANGED <<mode, rowVars, platform, claims>>
      /\ faults' \in 0..MaxFaults /\ crashes' \in 0..MaxCrashes
  BY DeliveryAssumption DEF YieldToDrain, HeartbeatLost, ExpiryTimer, Crash, IInv, TypeOK
<1> DEFINE j == [job[p] EXCEPT !.lost = TRUE]
<1>2. job' = [job EXCEPT ![p] = IdleJob] \/ job' = [job EXCEPT ![p] = j]
  BY DEF YieldToDrain, HeartbeatLost, ExpiryTimer, Crash, IInv, TypeOK
<1>3. j \in Job /\ JobInv(j) /\ j.pc = job[p].pc /\ j.claim = job[p].claim
               /\ j.pre = job[p].pre
  BY LostFits
<1> HIDE DEF j
<1>4. QED
  BY <1>1, <1>2, <1>3, IdleStep, JobStep DEF Ready

-----------------------------------------------------------------------------
\* What a claim writes.
LEMMA ClaimedFits ==
    ASSUME NEW r \in Entry, NEW id \in Claim
    PROVE  /\ ClaimedBy(r, id) \in Entry
           /\ ClaimedBy(r, id).state = "producer_claimed" /\ ClaimedBy(r, id).claim = id
           /\ ClaimedBy(r, id).attempt = None /\ ClaimedBy(r, id).startedAt = 0
           /\ ClaimedBy(r, id).lease = "held"
BY DEF ClaimedBy, Entry, RecoveryState

\* A fresh claim of a row that nothing was sent for.
LEMMA ClaimStep ==
    ASSUME IInv, NEW p \in Process, NEW j \in Job, claims < MaxClaims,
           j.pc \in {"queued", "claimed"}, j.claim = claims + 1, j.snap.attempt = None,
           j.verdict = "none", j.pre = "none", j.answer = "none",
           Out = {}, \A q \in Process : ~Ready(job[q]),
           status \in {"absent", "pending"}, status' = "pending",
           NEW r \in Entry, row' = ClaimedBy(r, claims + 1), claims' = claims + 1,
           job' = [job EXCEPT ![p] = j],
           UNCHANGED <<mode, platform>>,
           crashes' \in 0..MaxCrashes, faults' \in 0..MaxFaults
    PROVE  IInv'
<1>1. claims + 1 \in Claim /\ claims + 1 # None /\ claims' \in 0..MaxClaims /\ claims \in Nat
  BY DeliveryAssumption DEF IInv, TypeOK, Claim, None
<1>2. row' \in Entry /\ row'.state = "producer_claimed" /\ row'.claim = claims + 1
      /\ row'.attempt = None /\ row'.startedAt = 0 /\ row'.lease = "held"
  BY <1>1, ClaimedFits
<1>3. wire' = wire /\ seen' = seen /\ Out' = {} /\ mode' = mode
  BY DEF platform, Out
<1>4. TypeOK'
  BY <1>1, <1>2, <1>3 DEF IInv, TypeOK, RowShape, Status
<1>5. RowInv'
  BY <1>1, <1>2, <1>3 DEF RowInv, None
<1>6. job'[p] = j /\ \A q \in Process : q # p => job'[q] = job[q]
  BY DEF IInv, TypeOK
<1>7. ASSUME NEW q \in Process PROVE JobInv(job[q])'
  <2>1. CASE q = p
    BY <1>1, <1>2, <1>3, <1>6, <2>1 DEF JobInv, Past, Ready, Owning, Unsent, AfterSend, None
  <2>2. CASE q # p
    <3>1. JobInv(job[q]) /\ job[q] \in Job
      BY DEF IInv, TypeOK
    <3>2. job[q].claim \in Nat /\ job[q].snap.attempt \in Nat
          /\ job[q].claim < claims + 1 /\ job[q].snap.attempt < claims + 1
      BY <1>1, <3>1 DEF JobInv, Job, Entry, Claim, None
    <3>3. status = "absent" => job[q].pc \notin Owning
      BY <3>1, <3>2 DEF IInv, RowInv, JobInv, None
    <3>4. job[q].pc = "started" /\ job[q].pre = "acked" => FALSE
      BY <3>1, <3>3 DEF JobInv, Owning
    <3>5. ~Ready(job[q])'
      BY <1>3 DEF Ready
    <3>6. job'[q] = job[q] /\ wire' \cup seen' = {}
      BY <1>3, <1>6, <2>2 DEF Out
    <3>7. QED
      BY <1>1, <1>2, <1>3, <3>1, <3>2, <3>4, <3>5, <3>6 DEF JobInv, Past, Owning, Out, None
  <2>3. QED
    BY <2>1, <2>2
<1>8. ASSUME NEW q \in Process, NEW s \in Process, q # s PROVE Apart(job[q], job[s])'
  <2>1. \A u \in Process : u # p => job[u].claim < claims + 1
    BY <1>1 DEF IInv, JobInv, TypeOK, Job, Claim, None
  <2>2. \A u \in Process : ~Ready(job[u])'
    BY <1>3, <1>6 DEF Ready
  <2>3. ~(job'[q].pc \in Owning /\ job'[s].pc \in Owning /\ job'[q].claim = job'[s].claim)
    BY <1>1, <1>6, <1>8, <2>1 DEF IInv, Apart, TypeOK, Job, Claim, None
  <2>4. QED
    BY <2>2, <2>3 DEF Apart
<1>9. QED
  BY <1>4, <1>5, <1>7, <1>8 DEF IInv

\* The job of a process that has just claimed the row.
LEMMA FreshFits ==
    ASSUME IInv, claims < MaxClaims, NEW pc \in {"queued", "claimed"}, NEW live \in BOOLEAN
    PROVE  LET j == [IdleJob EXCEPT !.pc = pc, !.live = live, !.claim = claims + 1]
           IN  /\ j \in Job
               /\ j.pc = pc /\ j.claim = claims + 1 /\ j.snap.attempt = None
               /\ j.verdict = "none" /\ j.pre = "none" /\ j.answer = "none"
<1>1. claims + 1 \in Claim
  BY DeliveryAssumption DEF IInv, TypeOK, Claim
<1>2. NoEntry \in Entry /\ NoEntry.attempt = None
  BY DEF NoEntry, Entry, RecoveryState
<1>3. QED
  BY <1>1, <1>2 DEF IdleJob, Job, Phase, Answers

\* A claim that the row grants says that nothing was sent.
LEMMA ClaimableIsUnsent ==
    ASSUME IInv, NEW a \in Claim \cup {None}, NEW t \in 0..2, Claimable(row, a, t),
           a # None => mode.reconciles /\ (row.attempt = a => Out = {})
    PROVE  Out = {} /\ status = "pending" /\ \A q \in Process : ~Ready(job[q])
<1>1. status = "pending"
  BY DEF Claimable
<1>2. row.startedAt = 0 => row.attempt = None
  BY Shape DEF IInv
<1>3. row.attempt = None => Out = {}
  BY <1>1 DEF IInv, RowInv, TypeOK, Out, Claim, None
<1>4. row.startedAt # 0 => row.attempt = a /\ a # None
  BY DEF Claimable
<1>5. Out = {}
  BY <1>2, <1>3, <1>4
<1>6. ASSUME NEW q \in Process, Ready(job[q]) PROVE FALSE
  <2>1. JobInv(job[q]) /\ job[q].claim # None /\ job[q].pre # "acked" /\ row.attempt = job[q].claim
    BY <1>1, <1>6 DEF IInv, JobInv, Ready, Owning
  <2>2. ~mode.dispatches /\ ~mode.reconciles
    BY <1>6, <2>1, DeliveryAssumption DEF Ready, IInv, TypeOK
  <2>3. QED
    BY <1>2, <1>4, <2>1, <2>2
<1>7. QED
  BY <1>1, <1>5, <1>6

\* The first claim comes with the row.
LEMMA EnqueueStep == ASSUME IInv, NEW p \in Process, Enqueue(p) PROVE IInv'
<1> DEFINE j == [IdleJob EXCEPT !.pc = "queued", !.live = TRUE, !.claim = claims + 1]
<1>1. status = "absent" /\ claims < MaxClaims /\ status' = "pending" /\ claims' = claims + 1
      /\ row' = ClaimedBy(NoEntry, claims + 1) /\ job' = [job EXCEPT ![p] = j]
      /\ UNCHANGED <<mode, platform, crashes, faults>>
  BY DEF Enqueue
<1>2. claims = 0 /\ Out = {}
  BY <1>1 DEF IInv, RowInv, TypeOK, Out, Claim
<1>3. \A q \in Process : ~Ready(job[q])
  <2>1. \A q \in Process : job[q].claim \in Claim \cup {None} /\ job[q].claim <= 0
    BY <1>2 DEF IInv, JobInv, TypeOK, Job
  <2>2. \A q \in Process : job[q].claim = None
    BY <2>1 DEF Claim, None
  <2>3. QED
    BY <2>2 DEF IInv, JobInv, Ready, Owning
<1>4. NoEntry \in Entry
  BY DEF NoEntry, Entry, RecoveryState
<1>5. j \in Job /\ j.pc = "queued" /\ j.claim = claims + 1 /\ j.snap.attempt = None
      /\ j.verdict = "none" /\ j.pre = "none" /\ j.answer = "none"
  BY <1>1, FreshFits
<1> HIDE DEF j
<1>6. QED
  BY <1>1, <1>2, <1>3, <1>4, <1>5, ClaimStep DEF IInv, TypeOK

\* A replayed intent takes the row only when nothing was sent.
LEMMA ReproduceStep ==
    ASSUME IInv, NEW p \in Process, NEW ok \in BOOLEAN, Reproduce(p, ok) PROVE IInv'
<1> DEFINE j == [IdleJob EXCEPT !.pc = "queued", !.live = TRUE, !.claim = claims + 1]
<1>1. claims < MaxClaims /\ UNCHANGED <<mode, status, platform, crashes>>
      /\ crashes' \in 0..MaxCrashes /\ faults' \in 0..MaxFaults /\ job[p].pc = "idle"
  BY DeliveryAssumption DEF Reproduce, Storage, IInv, TypeOK
<1>2. CASE ok /\ Claimable(row, None, 0)
  <2>1. claims' = claims + 1 /\ row' = ClaimedBy(row, claims + 1) /\ job' = [job EXCEPT ![p] = j]
    BY <1>2 DEF Reproduce
  <2>2. Out = {} /\ status = "pending" /\ \A q \in Process : ~Ready(job[q])
    BY <1>2, ClaimableIsUnsent DEF None
  <2>3. j \in Job /\ j.pc = "queued" /\ j.claim = claims + 1 /\ j.snap.attempt = None
        /\ j.verdict = "none" /\ j.pre = "none" /\ j.answer = "none"
    BY <1>1, FreshFits
  <2> HIDE DEF j
  <2>4. QED
    BY <1>1, <2>1, <2>2, <2>3, ClaimStep DEF IInv, TypeOK
<1>3. CASE ~(ok /\ Claimable(row, None, 0))
  <2>1. job' = [job EXCEPT ![p] = job[p]] /\ UNCHANGED <<mode, rowVars, platform, claims>>
    BY <1>1, <1>3 DEF Reproduce, rowVars, IInv, TypeOK
  <2>2. job[p] \in Job /\ JobInv(job[p])
    BY DEF IInv, TypeOK
  <2>3. QED
    BY <1>1, <2>1, <2>2, JobStep
<1>4. QED
  BY <1>2, <1>3

\* A drain claims the row only when nothing was sent.
LEMMA ClaimRowStep ==
    ASSUME IInv, NEW p \in Process, NEW ok \in BOOLEAN, ClaimRow(p, ok) PROVE IInv'
<1> DEFINE j == [IdleJob EXCEPT !.pc = "claimed", !.live = FALSE, !.claim = claims + 1]
           reconciled == job[p].verdict = "not_sent"
           a == IF reconciled THEN job[p].snap.attempt ELSE None
           t == IF reconciled THEN job[p].snap.startedAt ELSE 0
<1>1. claims < MaxClaims /\ UNCHANGED <<mode, status, platform, crashes>>
      /\ crashes' \in 0..MaxCrashes /\ faults' \in 0..MaxFaults
  BY DeliveryAssumption DEF ClaimRow, Storage, IInv, TypeOK
<1>2. CASE ok /\ Claimable(row, a, t)
  <2>1. claims' = claims + 1 /\ row' = ClaimedBy(row, claims + 1)
        /\ job' = [job EXCEPT ![p] = j]
    BY <1>2 DEF ClaimRow
  <2>3. a \in Claim \cup {None} /\ t \in 0..2
    BY DEF IInv, TypeOK, Job, Entry
  <2>4. status = "pending"
    BY <1>2 DEF Claimable
  <2>5. a # None => mode.reconciles /\ (row.attempt = a => Out = {})
    BY <2>4 DEF IInv, JobInv
  <2>6. Out = {} /\ \A q \in Process : ~Ready(job[q])
    BY <1>2, <2>3, <2>5, ClaimableIsUnsent
  <2>7. j \in Job /\ j.pc = "claimed" /\ j.claim = claims + 1 /\ j.snap.attempt = None
        /\ j.verdict = "none" /\ j.pre = "none" /\ j.answer = "none"
    BY <1>1, FreshFits
  <2> HIDE DEF j, a, t
  <2>8. QED
    BY <1>1, <2>1, <2>4, <2>6, <2>7, ClaimStep DEF IInv, TypeOK
<1>3. CASE ~(ok /\ Claimable(row, a, t))
  <2>1. job' = [job EXCEPT ![p] = IdleJob] /\ UNCHANGED <<mode, rowVars, platform, claims>>
    BY <1>1, <1>3 DEF ClaimRow, rowVars
  <2>2. QED
    BY <1>1, <2>1, IdleStep
<1>4. QED
  BY <1>2, <1>3

-----------------------------------------------------------------------------
\* A write that moves the row towards its end (a lease runs out, the owner is
\* released, the row leaves the queue) keeps the invariant, if it forgets an
\* attempt only when nothing was sent and nobody is about to.
LEMMA RowStep ==
    ASSUME IInv,
           row' \in Entry, RowShape', status' \in Status,
           status' = "absent" => status = "absent",
           status' = "pending" => status = "pending",
           \/ status' # "suppressed" \/ status = "suppressed"
           \/ Out = {} /\ \A q \in Process : ~Ready(job'[q]),
           row'.claim \in {row.claim, None}, row'.lease = "held" => row.lease = "held",
           \/ row'.attempt = row.attempt
           \/ /\ row'.attempt = None /\ Out = {}
              /\ \A q \in Process : ~Ready(job'[q]),
           wire' \subseteq Claim, seen' \subseteq Claim, Out' \subseteq Out,
           UNCHANGED <<mode, claims>>,
           crashes' \in 0..MaxCrashes, faults' \in 0..MaxFaults,
           job' \in [Process -> Job],
           \A q \in Process : /\ JobInv(job'[q])
                              /\ job'[q].pc \in Owning => /\ job[q].pc \in Owning
                                                          /\ job'[q].claim = job[q].claim
                              /\ Ready(job'[q]) => Ready(job[q])
    PROVE  IInv'
<1>1. TypeOK'
  BY DEF IInv, TypeOK
<1>2. RowInv'
  BY DEF IInv, RowInv, TypeOK, Entry, Claim, None
<1>3. ASSUME NEW q \in Process PROVE JobInv(job[q])'
  <2>1. JobInv(job'[q]) /\ job'[q] \in Job
    OBVIOUS
  <2>2. Ready(job'[q]) <=> Ready(job[q])'
    BY DEF Ready
  <2>3. row'.attempt \in {row.attempt, None} /\ (Out = {} => Out' = {})
    OBVIOUS
  <2>4. Past(job'[q]) <=> Past(job[q])'
    BY DEF Past
  <2>5. Past(job'[q]) => job'[q].pc \in Owning
    BY DEF Past, Owning
  <2> DEFINE k == job'[q]
  <2>6. k.claim <= claims' /\ k.snap.attempt <= claims'
        /\ (k.pc \in Owning => k.claim # None /\ k.verdict = "none")
        /\ (k.pc \in Unsent \cup {"started"} => k.answer \in {"none", "suppressed"})
        /\ (k.pc = "sending" => k.pre # "none")
        /\ (k.pc = "started" => k.pre # "none" \/ mode'.dispatches)
        /\ (k.verdict = "not_sent" => mode'.reconciles)
    BY <2>1 DEF JobInv
  <2>7. k.pc \in Unsent => k.pre = "none" /\ row'.attempt # k.claim
    BY <2>1, <2>3 DEF JobInv, Owning
  <2>8. Past(k) => row'.claim # k.claim
    BY <2>1, <2>5 DEF JobInv
  <2>9. k.pc = "started" /\ k.pre = "acked" => status' # "pending"
    BY <2>1 DEF JobInv
  <2>10. row'.claim # None => k.snap.attempt # row'.claim
    BY <2>1 DEF JobInv
  <2>11. status' = "pending" /\ row'.attempt # None /\ k.snap.attempt = row'.attempt =>
            row'.lease # "held" /\ (k.verdict = "not_sent" => Out' = {})
    BY <2>1, <2>3 DEF JobInv
  <2>12. k.pc = "failBefore" \/ (k.pc = "withdraw" /\ k.answer = "rejected") =>
            k.claim \notin Out'
    BY <2>1 DEF JobInv
  <2>13. Ready(k) => /\ Out' = {} /\ status' # "suppressed"
                     /\ status' = "pending" => row'.attempt = k.claim
    BY <2>1, <2>3 DEF JobInv
  <2>14. QED
    BY <2>2, <2>4, <2>6, <2>7, <2>8, <2>9, <2>10, <2>11, <2>12, <2>13 DEF JobInv
<1>4. ASSUME NEW q \in Process, NEW r \in Process, q # r PROVE Apart(job[q], job[r])'
  <2>1. Apart(job'[q], job'[r])
    BY <1>4 DEF IInv, Apart
  <2>2. QED
    BY <2>1 DEF Apart, Ready
<1>5. QED
  BY <1>1, <1>2, <1>3, <1>4 DEF IInv

\* The jobs that did not move satisfy what RowStep asks of a job.
LEMMA OneJob ==
    ASSUME IInv, NEW p \in Process, NEW j \in Job, job' = [job EXCEPT ![p] = j],
           JobInv(j), j.pc \in Owning => job[p].pc \in Owning /\ j.claim = job[p].claim,
           Ready(j) => Ready(job[p])
    PROVE  /\ job' \in [Process -> Job]
           /\ \A q \in Process : /\ JobInv(job'[q])
                                 /\ job'[q].pc \in Owning => /\ job[q].pc \in Owning
                                                             /\ job'[q].claim = job[q].claim
                                 /\ Ready(job'[q]) => Ready(job[q])
           /\ job'[p] = j /\ \A q \in Process : q # p => job'[q] = job[q]
BY DEF IInv, TypeOK

\* A lease that runs out changes nothing else of the row.
LEMMA LeaseExpiresStep == ASSUME IInv, LeaseExpires PROVE IInv'
<1>1. row' = [row EXCEPT !.lease = "expired"] /\ row.lease = "held" /\ job' = job
      /\ UNCHANGED <<mode, status, wire, seen, claims, crashes, faults>>
  BY DEF LeaseExpires, platform
<1>2. row' \in Entry /\ row'.claim = row.claim /\ row'.attempt = row.attempt
      /\ row'.lease = "expired" /\ row'.state = row.state /\ row'.startedAt = row.startedAt
  BY <1>1 DEF IInv, TypeOK, Entry
<1>3. RowShape'
  BY <1>1, <1>2 DEF IInv, TypeOK, RowShape
<1>4. \A q \in Process : JobInv(job'[q]) /\ job'[q] = job[q]
  BY <1>1 DEF IInv
<1>5. Out' = Out
  BY <1>1 DEF Out
<1>6. QED
  BY <1>1, <1>2, <1>3, <1>4, <1>5, RowStep DEF IInv, TypeOK

\* A request that is shown or dropped is out no longer, or still is.
LEMMA PlatformStep == ASSUME IInv, NEW c \in Claim, Show(c) \/ Drop(c) PROVE IInv'
<1>1. job' = job /\ UNCHANGED <<mode, rowVars, claims, crashes, faults>> /\ Out' \subseteq Out
      /\ wire' \subseteq Claim /\ seen' \subseteq Claim
  BY DEF Show, Drop, Out, IInv, TypeOK
<1>2. row' = row /\ status' = status
  BY <1>1 DEF rowVars
<1>3. RowShape'
  BY <1>2 DEF RowShape, IInv, TypeOK
<1>4. \A q \in Process : JobInv(job'[q]) /\ job'[q] = job[q]
  BY <1>1 DEF IInv
<1>5. QED
  BY <1>1, <1>2, <1>3, <1>4, RowStep DEF IInv, TypeOK

\* A refused admission removes the row.
LEMMA RefuseAdmissionStep ==
    ASSUME IInv, NEW p \in Process, NEW ok \in BOOLEAN, RefuseAdmission(p, ok) PROVE IInv'
<1>1. row' = row /\ status' \in {status, "dead"} /\ job' = [job EXCEPT ![p] = IdleJob]
      /\ UNCHANGED <<mode, wire, seen, claims, crashes>> /\ faults' \in 0..MaxFaults
  BY DeliveryAssumption DEF RefuseAdmission, Storage, platform, IInv, TypeOK
<1>2. RowShape' /\ Out' = Out
  BY <1>1 DEF RowShape, IInv, TypeOK, Out
<1>3. QED
  BY <1>1, <1>2, IdleFits, OneJob, RowStep DEF IInv, TypeOK, Status

\* Reserving an attempt changes the budget only.
LEMMA ReserveStep ==
    ASSUME IInv, NEW p \in Process, NEW ok \in BOOLEAN, Reserve(p, ok) PROVE IInv'
<1>1. job[p].pc = "claimed" /\ UNCHANGED <<mode, status, wire, seen, claims, crashes>>
      /\ faults' \in 0..MaxFaults /\ crashes' \in 0..MaxCrashes
  BY DeliveryAssumption DEF Reserve, Storage, platform, IInv, TypeOK
<1>2. CASE ~(ok /\ Owned(job[p].claim))
  <2>1. job' = [job EXCEPT ![p] = IdleJob] /\ UNCHANGED <<mode, rowVars, platform, claims>>
    BY <1>1, <1>2 DEF Reserve, rowVars, platform
  <2>2. QED
    BY <1>1, <2>1, IdleStep
<1>3. CASE ok /\ Owned(job[p].claim)
  <2>1. PICK pc \in {"dead", "queued"} : job' = [job EXCEPT ![p] = [job[p] EXCEPT !.pc = pc]]
    BY <1>3 DEF Reserve, IInv, TypeOK
  <2> DEFINE j == [job[p] EXCEPT !.pc = pc]
  <2>2. j \in Job /\ j.pc = pc /\ j.claim = job[p].claim /\ ~Ready(j) /\ JobInv(j)
    BY <1>1 DEF IInv, TypeOK, Job, Phase, Settling, JobInv, Past, Ready, Owning, Unsent, AfterSend
  <2>3. row' \in Entry /\ row'.claim = row.claim /\ row'.attempt = row.attempt
        /\ row'.lease = row.lease /\ row'.state = row.state /\ row'.startedAt = row.startedAt
    <3>1. AttemptCount(row) + 1 \in Nat
      BY DEF AttemptCount, IInv, TypeOK, Entry
    <3>2. row' = row \/ row' = [row EXCEPT !.attempts = AttemptCount(row) + 1]
      BY <1>3 DEF Reserve
    <3> HIDE DEF j
    <3>3. QED
      BY <3>1, <3>2 DEF IInv, TypeOK, Entry
  <2>4. RowShape' /\ Out' = Out
    BY <1>1, <2>3 DEF RowShape, IInv, TypeOK, Out
  <2>5. job[p].pc \in Owning
    BY <1>1 DEF Owning, Unsent
  <2> HIDE DEF j
  <2>6. job' = [job EXCEPT ![p] = j]
    BY <2>1 DEF j
  <2>7. QED
    BY <1>1, <2>2, <2>3, <2>4, <2>5, <2>6, OneJob, RowStep DEF IInv, TypeOK
<1>4. QED
  BY <1>2, <1>3

\* A claim becomes an attempt, or the attempt is dispatched: the only steps
\* after which the row names a new attempt.
LEMMA AttemptStep ==
    ASSUME IInv, NEW p \in Process, NEW j \in Job, job' = [job EXCEPT ![p] = j],
           job[p].pc \in Owning, j.claim = job[p].claim, j.snap = job[p].snap,
           j.verdict = job[p].verdict, j.pre = "marked", j.pc \in {"started", "sending"},
           j.pc = "started" => j.answer \in {"none", "suppressed"},
           status = "pending", status' = "pending",
           row' \in Entry, RowShape', row'.claim = None, row'.attempt = j.claim,
           row.claim = j.claim \/ (row.attempt = j.claim /\ row.lease = "held"),
           wire' \subseteq Claim, seen' \subseteq Claim, Out' \subseteq Out \cup {j.claim},
           j.pc = "started" => Out' = {},
           UNCHANGED <<mode, claims>>,
           crashes' \in 0..MaxCrashes, faults' \in 0..MaxFaults
    PROVE  IInv'
<1>1. j.claim \in Claim /\ j.claim # None /\ j.claim <= claims /\ j.verdict = "none"
      /\ j.snap.attempt <= claims
  BY DEF IInv, JobInv, TypeOK, Job
<1>2. Out \subseteq {j.claim} /\ Out' \subseteq {j.claim}
  <2>1. Out \subseteq {row.attempt} /\ Out \subseteq Claim
    BY DEF IInv, RowInv, TypeOK, Out
  <2>2. row.claim = j.claim => row.attempt = None
    BY <1>1, Shape DEF IInv
  <2>3. None \notin Claim
    BY DEF None, Claim
  <2>4. QED
    BY <2>1, <2>2, <2>3
<1>3. \A q \in Process : job[q].snap.attempt # j.claim
  BY <1>1 DEF IInv, JobInv
<1>4. TypeOK'
  BY DEF IInv, TypeOK, Status
<1>5. RowInv'
  BY <1>1, <1>2 DEF IInv, RowInv, TypeOK, None
<1>6. job'[p] = j /\ \A q \in Process : q # p => job'[q] = job[q]
  BY DEF IInv, TypeOK
<1>7. ASSUME NEW q \in Process, q # p
      PROVE  /\ ~Ready(job[q])
             /\ job[q].pc \in Owning => job[q].claim # j.claim
  <2>1. job[q].pc \in Owning => job[q].claim # j.claim
    BY <1>7 DEF IInv, Apart
  <2>2. Ready(job[q]) => job[q].pc \in Owning /\ row.attempt = job[q].claim
    BY DEF IInv, JobInv, Ready, Owning
  <2>3. row.attempt \in {None, j.claim}
    BY <1>1, Shape DEF IInv
  <2>4. job[q].pc \in Owning => job[q].claim # None
    BY DEF IInv, JobInv
  <2>5. QED
    BY <2>1, <2>2, <2>3, <2>4
<1>8. ASSUME NEW q \in Process PROVE JobInv(job[q])'
  <2>1. CASE q = p
    <3>1. job'[q] = j
      BY <1>6, <2>1
    <3>2. j.snap.attempt # j.claim
      BY <1>3
    <3>3. QED
      BY <1>1, <3>1, <3>2 DEF JobInv, Past, Ready, Owning, Unsent, AfterSend
  <2>2. CASE q # p
    <3>1. JobInv(job[q]) /\ job'[q] = job[q]
      BY <1>6, <2>2 DEF IInv
    <3>2. ~Ready(job[q])' /\ (Past(job[q])' <=> Past(job[q]))
      BY <1>7, <2>2, <3>1 DEF Ready, Past
    <3>3. Past(job[q]) => job[q].pc \in Owning
      BY DEF Past, Owning
    <3>4. job[q].snap.attempt # row'.attempt
      BY <1>3
    <3>5. job[q].pc \in Owning => job[q].claim # j.claim
      BY <1>7, <2>2
    <3>6. job[q].pc = "failBefore" \/ (job[q].pc = "withdraw" /\ job[q].answer = "rejected") =>
            job[q].claim \notin Out'
      BY <1>2, <3>5 DEF Owning
    <3>7. ~(job[q].pc = "started" /\ job[q].pre = "acked")
      BY <3>1 DEF JobInv
    <3>8. job[q].pc \in Unsent => job[q].pre = "none" /\ row'.attempt # job[q].claim
      BY <3>1, <3>5 DEF JobInv, Owning
    <3>9. QED
      BY <3>1, <3>2, <3>3, <3>4, <3>5, <3>6, <3>7, <3>8 DEF JobInv
  <2>3. QED
    BY <2>1, <2>2
<1>9. ASSUME NEW q \in Process, NEW s \in Process, q # s PROVE Apart(job[q], job[s])'
  <2>1. ~(job'[q].pc \in Owning /\ job'[s].pc \in Owning /\ job'[q].claim = job'[s].claim)
    BY <1>6, <1>7, <1>9 DEF IInv, Apart
  <2>2. ~(Ready(job[q])' /\ Ready(job[s])')
    BY <1>6, <1>7, <1>9 DEF Ready
  <2>3. QED
    BY <2>1, <2>2 DEF Apart
<1>10. QED
  BY <1>4, <1>5, <1>8, <1>9 DEF IInv

\* While the claim is still a claim, nothing was sent and nobody is about to.
LEMMA OwnedIsUnsent ==
    ASSUME IInv, NEW c \in Claim, status = "pending", row.claim = c
    PROVE  row.attempt = None /\ Out = {} /\ \A q \in Process : ~Ready(job[q])
<1>0. c # None
  BY DEF Claim, None
<1>1. row.attempt = None
  BY <1>0, Shape DEF IInv
<1>2. Out = {}
  BY <1>1 DEF IInv, RowInv, TypeOK, Out, Claim, None
<1>3. ASSUME NEW q \in Process, Ready(job[q]) PROVE FALSE
  BY <1>1, <1>3 DEF IInv, JobInv, Ready, Owning
<1>4. QED
  BY <1>1, <1>2, <1>3

\* A batch with nothing visible keeps its claim.
LEMMA SuppressStep == ASSUME IInv, NEW p \in Process, Suppress(p) PROVE IInv'
<1> DEFINE j == [job[p] EXCEPT !.pc = "ackUnsent", !.answer = "suppressed"]
<1>1. job[p].pc = "leased" /\ job[p].pc \in Owning /\ job' = [job EXCEPT ![p] = j]
      /\ UNCHANGED <<mode, rowVars, platform, claims, crashes, faults>>
  BY DEF Suppress, IInv, TypeOK, Owning, Unsent
<1>2. j \in Job /\ j.pc = "ackUnsent" /\ j.claim = job[p].claim /\ j.verdict = job[p].verdict
      /\ j.snap = job[p].snap /\ j.pre = job[p].pre /\ j.answer = "suppressed"
  BY DEF IInv, TypeOK, Job, Phase, Settling, Answers
<1> HIDE DEF j
<1>3. JobInv(j) /\ ~Ready(j)
  BY <1>1, <1>2 DEF IInv, JobInv, Past, Ready, Owning, Unsent, AfterSend
<1>4. QED
  BY <1>1, <1>2, <1>3, JobStep DEF IInv, TypeOK

\* Before the request: promote the claim, drop the row, or give up.
LEMMA SendStartStep ==
    ASSUME IInv, NEW p \in Process, NEW ok \in BOOLEAN, SendStart(p, ok) PROVE IInv'
<1> DEFINE c == job[p].claim
<1>1. job[p].pc = "leased" /\ job[p].pc \in Owning /\ job[p].pre = "none"
      /\ job[p].answer \in {"none", "suppressed"} /\ c # None /\ c \in Claim /\ row.attempt # c
      /\ UNCHANGED <<mode, status, wire, seen, claims, crashes>>
      /\ faults' \in 0..MaxFaults /\ crashes' \in 0..MaxCrashes
  <2>1. job[p].pc = "leased" /\ job[p].pc \in Owning /\ job[p].pc \in Unsent
    BY DEF SendStart, Owning, Unsent
  <2>2. UNCHANGED <<mode, status, wire, seen, claims, crashes>>
        /\ faults' \in 0..MaxFaults /\ crashes' \in 0..MaxCrashes
    BY DeliveryAssumption DEF SendStart, Storage, platform, IInv, TypeOK
  <2>3. QED
    BY <2>1, <2>2 DEF IInv, JobInv, TypeOK, Job
<1>2. Out' = Out
  BY <1>1 DEF Out
<1>4. CASE mode.exact /\ job' = [job EXCEPT ![p].pc = "started"] /\ UNCHANGED row
  <2> DEFINE j == [job[p] EXCEPT !.pc = "started"]
  <2>1. mode.dispatches
    BY <1>4, DeliveryAssumption DEF IInv, TypeOK
  <2>2. j \in Job /\ j.pc = "started" /\ j.pre = "none" /\ j.answer = job[p].answer
        /\ j.claim = c /\ j.verdict = job[p].verdict /\ j.snap = job[p].snap
    BY <1>1 DEF IInv, TypeOK, Job, Phase
  <2>3. JobInv(j) /\ ~Ready(j)
    BY <1>1, <2>1, <2>2 DEF IInv, JobInv, Past, Ready, Owning, Unsent, AfterSend
  <2>4. job' = [job EXCEPT ![p] = j]
    BY <1>4 DEF IInv, TypeOK
  <2> HIDE DEF j
  <2>5. QED
    BY <1>1, <1>4, <2>2, <2>3, <2>4, JobStep DEF platform, rowVars
<1>5. CASE /\ Promotable(c) /\ row' = Promoted(row, c)
           /\ job' = [job EXCEPT ![p].pc = "started", ![p].pre = "marked"]
  <2> DEFINE j == [job[p] EXCEPT !.pc = "started", !.pre = "marked"]
  <2>1. j \in Job /\ j.pc = "started" /\ j.pre = "marked" /\ j.answer = job[p].answer
        /\ j.claim = c /\ j.verdict = job[p].verdict /\ j.snap = job[p].snap
    BY <1>1 DEF IInv, TypeOK, Job, Phase
  <2>2. job' = [job EXCEPT ![p] = j]
    BY <1>5 DEF IInv, TypeOK
  <2>3. row' \in Entry /\ row'.state = "send_attempt_started" /\ row'.claim = None
        /\ row'.attempt = c /\ row'.startedAt = 1
    BY <1>1, <1>5 DEF Promoted, IInv, TypeOK, Entry, RecoveryState
  <2>4. RowShape'
    BY <1>1, <2>3 DEF RowShape
  <2>5. status = "pending" /\ row.claim = c
    BY <1>5 DEF Promotable
  <2>6. Out' = {} /\ wire' \subseteq Claim /\ seen' \subseteq Claim /\ status' = "pending"
    BY <1>1, <1>2, <1>5, <2>5, OwnedIsUnsent DEF IInv, TypeOK
  <2> HIDE DEF j
  <2>7. QED
    BY <1>1, <2>1, <2>2, <2>3, <2>4, <2>5, <2>6, AttemptStep
<1>6. CASE job' = [job EXCEPT ![p] = [job[p] EXCEPT !.pc = "dropping"]] /\ UNCHANGED row
  <2> DEFINE j == [job[p] EXCEPT !.pc = "dropping"]
  <2>1. j \in Job /\ j.pc = "dropping" /\ j.pre = job[p].pre /\ j.answer = job[p].answer
        /\ j.claim = c /\ j.verdict = job[p].verdict /\ j.snap = job[p].snap
    BY <1>1 DEF IInv, TypeOK, Job, Phase
  <2>2. JobInv(j) /\ ~Ready(j)
    BY <1>1, <2>1 DEF IInv, JobInv, Past, Ready, Owning, Unsent, AfterSend
  <2>3. job' = [job EXCEPT ![p] = j]
    BY <1>6
  <2> HIDE DEF j
  <2>4. QED
    BY <1>1, <1>6, <2>1, <2>2, <2>3, JobStep DEF platform, rowVars
<1>7. CASE job' = [job EXCEPT ![p] = Thrown(job[p])] /\ UNCHANGED row
  BY <1>1, <1>7, ThrownFits, JobStep DEF platform, rowVars
<1>8. QED
  BY <1>4, <1>5, <1>6, <1>7 DEF SendStart

\* Dropping the row: the send that follows has no row to write any more.
LEMMA AckBeforeSendStep ==
    ASSUME IInv, NEW p \in Process, NEW ok \in BOOLEAN, AckBeforeSend(p, ok) PROVE IInv'
<1> DEFINE c == job[p].claim
<1>1. job[p].pc = "dropping" /\ job[p].pc \in Owning /\ job[p].pre = "none"
      /\ job[p].answer \in {"none", "suppressed"} /\ c # None /\ c \in Claim /\ row.attempt # c
      /\ UNCHANGED <<mode, row, wire, seen, claims, crashes>>
      /\ faults' \in 0..MaxFaults /\ crashes' \in 0..MaxCrashes
  <2>1. job[p].pc = "dropping" /\ job[p].pc \in Owning /\ job[p].pc \in Unsent
    BY DEF AckBeforeSend, Owning, Unsent
  <2>2. UNCHANGED <<mode, row, wire, seen, claims, crashes>>
        /\ faults' \in 0..MaxFaults /\ crashes' \in 0..MaxCrashes
    BY DeliveryAssumption DEF AckBeforeSend, Storage, platform, IInv, TypeOK
  <2>3. QED
    BY <2>1, <2>2 DEF IInv, JobInv, TypeOK, Job
<1>2. Out' = Out
  BY <1>1 DEF Out
<1>3. CASE ok /\ Owned(c)
  <2> DEFINE j == [job[p] EXCEPT !.pc = "started", !.pre = "acked"]
  <2>1. j \in Job /\ j.pc = "started" /\ j.pre = "acked" /\ j.answer = job[p].answer
        /\ j.claim = c /\ j.verdict = job[p].verdict /\ j.snap = job[p].snap
    BY <1>1 DEF IInv, TypeOK, Job, Phase
  <2>2. job' = [job EXCEPT ![p] = j] /\ status' = "completed"
    BY <1>3 DEF AckBeforeSend
  <2>3. status = "pending" /\ Out = {} /\ \A q \in Process : ~Ready(job[q])
    BY <1>1, <1>3, OwnedIsUnsent DEF Owned
  <2> HIDE DEF j
  <2>4. TypeOK' /\ RowInv'
    BY <1>1, <1>2, <2>1, <2>2 DEF IInv, TypeOK, RowShape, RowInv, Status
  <2>5. job'[p] = j /\ \A q \in Process : q # p => job'[q] = job[q]
    BY <2>2 DEF IInv, TypeOK
  <2>6. ASSUME NEW q \in Process PROVE JobInv(job[q])'
    <3>1. CASE q = p
      <4>1. JobInv(job[p]) /\ job'[q] = j
        BY <2>5, <3>1 DEF IInv
      <4>2. QED
        BY <1>1, <1>2, <2>1, <2>2, <2>3, <4>1
        DEF JobInv, Past, Ready, Owning, Unsent, AfterSend
    <3>2. CASE q # p
      <4>1. JobInv(job[q]) /\ job'[q] = job[q]
        BY <2>5, <3>2 DEF IInv
      <4>2. ~Ready(job[q])' /\ (Past(job[q])' <=> Past(job[q]))
        BY <1>1, <2>3, <4>1 DEF Ready, Past
      <4>3. status' # "pending" /\ row' = row /\ claims' = claims /\ mode' = mode /\ Out' = Out
        BY <1>1, <1>2, <2>2
      <4>4. QED
        BY <4>1, <4>2, <4>3 DEF JobInv
    <3>3. QED
      BY <3>1, <3>2
  <2>7. ASSUME NEW q \in Process, NEW s \in Process, q # s PROVE Apart(job[q], job[s])'
    <3>1. ~(job'[q].pc \in Owning /\ job'[s].pc \in Owning /\ job'[q].claim = job'[s].claim)
      BY <1>1, <2>1, <2>5, <2>7 DEF IInv, Apart
    <3>2. ~(Ready(job[q])' /\ Ready(job[s])')
      BY <1>1, <2>3, <2>5, <2>7 DEF Ready
    <3>3. QED
      BY <3>1, <3>2 DEF Apart
  <2>8. QED
    BY <2>4, <2>6, <2>7 DEF IInv
<1>4. CASE ~(ok /\ Owned(c))
  <2>1. job' = [job EXCEPT ![p] = Thrown(job[p])] /\ status' = status
    BY <1>4 DEF AckBeforeSend
  <2>2. QED
    BY <1>1, <2>1, ThrownFits, JobStep DEF platform, rowVars
<1>5. QED
  BY <1>3, <1>4

\* The request leaves under the attempt the row names, or under none.
LEMMA DispatchStep ==
    ASSUME IInv, NEW p \in Process, NEW ok \in BOOLEAN, Dispatch(p, ok) PROVE IInv'
<1> DEFINE c == job[p].claim
           fenced == mode.dispatches /\ job[p].pre # "acked"
           j == [job[p] EXCEPT !.pc = "sending",
                               !.pre = IF job[p].pre = "acked" THEN "acked" ELSE "marked"]
<1>1. job[p].pc = "started" /\ job[p].pc \in Owning
      /\ c # None /\ c \in Claim /\ c <= claims /\ job[p].verdict = "none"
      /\ UNCHANGED <<mode, status, seen, claims, crashes>>
      /\ faults' \in 0..MaxFaults /\ crashes' \in 0..MaxCrashes
  <2>1. job[p].pc = "started" /\ job[p].pc \in Owning
    BY DEF Dispatch, Owning
  <2>2. UNCHANGED <<mode, status, seen, claims, crashes>>
        /\ faults' \in 0..MaxFaults /\ crashes' \in 0..MaxCrashes
    BY DeliveryAssumption DEF Dispatch, Storage, IInv, TypeOK
  <2>3. QED
    BY <2>1, <2>2 DEF IInv, JobInv, TypeOK, Job
<1>2. j \in Job /\ j.pc = "sending" /\ j.claim = c /\ j.verdict = job[p].verdict
      /\ j.snap = job[p].snap /\ j.answer = job[p].answer
      /\ j.pre = IF job[p].pre = "acked" THEN "acked" ELSE "marked"
  BY DEF IInv, TypeOK, Job, Phase
<1>3. CASE /\ fenced /\ Dispatchable(c) /\ row' = Dispatched(row, c)
           /\ wire' = wire \cup {c} /\ job' = [job EXCEPT ![p] = j]
  <2>1. row' \in Entry /\ row'.state \in {"send_attempt_started", "unknown_after_send"}
        /\ row'.claim = None /\ row'.attempt = c /\ row'.startedAt = 2
    BY <1>1, <1>3 DEF Dispatched, IInv, TypeOK, Entry, RecoveryState
  <2>2. RowShape'
    BY <1>1, <2>1 DEF RowShape
  <2>3. status = "pending" /\ (row.claim = c \/ (row.attempt = c /\ row.lease = "held"))
    BY <1>3 DEF Dispatchable
  <2>4. Out' = Out \cup {c} /\ wire' \subseteq Claim /\ seen' \subseteq Claim
    BY <1>1, <1>3 DEF Out, IInv, TypeOK
  <2> HIDE DEF j
  <2>5. QED
    BY <1>1, <1>2, <1>3, <2>1, <2>2, <2>3, <2>4, AttemptStep
<1>4. CASE /\ ~fenced /\ row' = row
           /\ wire' = wire \cup {c} /\ job' = [job EXCEPT ![p] = j]
  <2>1. Ready(job[p])
    BY <1>1, <1>4 DEF Ready
  <2>2. Out = {} /\ status # "suppressed"
        /\ (status = "pending" => row.attempt = c /\ ~mode.dispatches /\ ~mode.reconciles)
    <3>1. Out = {} /\ (status = "pending" => row.attempt = c) /\ status # "suppressed"
          /\ (job[p].pre = "acked" => status # "pending")
      BY <1>1, <2>1 DEF IInv, JobInv
    <3>2. ~mode.dispatches => ~mode.reconciles
      BY DeliveryAssumption DEF IInv, TypeOK
    <3>3. QED
      BY <1>4, <3>1, <3>2
  <2>3. Out' = {c}
    BY <1>1, <1>4, <2>2 DEF Out
  <2> HIDE DEF j
  <2>4. TypeOK' /\ RowInv'
    BY <1>1, <1>2, <1>4, <2>2, <2>3 DEF IInv, TypeOK, RowShape, RowInv, None
  <2>5. job'[p] = j /\ \A q \in Process : q # p => job'[q] = job[q]
    BY <1>4 DEF IInv, TypeOK
  <2>6. ASSUME NEW q \in Process, q # p
        PROVE  ~Ready(job[q]) /\ (job[q].pc \in Owning => job[q].claim # c)
    BY <1>1, <2>1, <2>6 DEF IInv, Apart
  <2>7. ASSUME NEW q \in Process PROVE JobInv(job[q])'
    <3>1. CASE q = p
      <4>1. JobInv(job[p]) /\ job'[q] = j
        BY <2>5, <3>1 DEF IInv
      <4>2. j.pre = "marked" => Past(job[p])
        BY <1>1, <1>2, <1>4, <4>1 DEF Past, JobInv, IInv, TypeOK, Job
      <4>3. QED
        BY <1>1, <1>2, <1>4, <2>2, <4>1, <4>2
        DEF JobInv, Past, Ready, Owning, Unsent, AfterSend
    <3>2. CASE q # p
      <4>1. JobInv(job[q]) /\ job'[q] = job[q]
        BY <2>5, <3>2 DEF IInv
      <4>2. ~Ready(job[q])' /\ (Past(job[q])' <=> Past(job[q]))
        BY <1>1, <2>6, <3>2, <4>1 DEF Ready, Past
      <4>3. job[q].pc \in Owning => job[q].claim \notin Out'
        BY <2>3, <2>6, <3>2
      <4>4. QED
        BY <1>1, <1>4, <2>2, <4>1, <4>2, <4>3 DEF JobInv, Owning
    <3>3. QED
      BY <3>1, <3>2
  <2>8. ASSUME NEW q \in Process, NEW s \in Process, q # s PROVE Apart(job[q], job[s])'
    <3>1. ~(job'[q].pc \in Owning /\ job'[s].pc \in Owning /\ job'[q].claim = job'[s].claim)
      BY <1>1, <1>2, <2>5, <2>8 DEF IInv, Apart
    <3>2. ~(Ready(job[q])' /\ Ready(job[s])')
      BY <1>1, <1>2, <2>5, <2>6, <2>8 DEF Ready
    <3>3. QED
      BY <3>1, <3>2 DEF Apart
  <2>9. QED
    BY <2>4, <2>7, <2>8 DEF IInv
<1>5. CASE job' = [job EXCEPT ![p] = Thrown(job[p])] /\ UNCHANGED <<row, wire>>
  <2>1. UNCHANGED <<mode, rowVars, platform, claims>>
    BY <1>1, <1>5 DEF rowVars, platform
  <2>2. QED
    BY <1>1, <1>5, <2>1, ThrownFits, JobStep
<1>6. QED
  <2>1. job' = [job EXCEPT ![p].pc = "sending",
                           ![p].pre = IF job[p].pre = "acked" THEN "acked" ELSE "marked"]
        => job' = [job EXCEPT ![p] = j]
    BY DEF IInv, TypeOK
  <2>2. QED
    BY <1>3, <1>4, <1>5, <2>1 DEF Dispatch

\* The write that follows a settling write is made under the same claim, and a
\* write that drops the evidence follows only a proof that nothing was sent.
LEMMA NextWriteFits ==
    ASSUME IInv, NEW p \in Process, NEW done \in BOOLEAN, job[p].pc \in Settling,
           NextWrite(job[p], done) # "idle"
    PROVE  LET j == [job[p] EXCEPT !.pc = NextWrite(job[p], done), !.answer = AnswerAfter(job[p])]
           IN  /\ j \in Job /\ JobInv(j) /\ ~Ready(j)
               /\ j.pc \in Owning => job[p].pc \in Owning /\ j.claim = job[p].claim
<1> DEFINE pc == NextWrite(job[p], done)
           answer == AnswerAfter(job[p])
           j == [job[p] EXCEPT !.pc = pc, !.answer = answer]
<1>1. \/ /\ pc \in AfterSend
         /\ job[p].pc \in {"mark", "markFail", "ack", "ackFallback", "failFallback"}
      \/ pc \in {"fail", "dead"}
      \/ pc = "failBefore" /\ job[p].pc = "withdraw" /\ job[p].answer = "rejected"
  BY DEF NextWrite, Fallback, AfterSend
<1>2. answer \in Answers
  BY DEF AnswerAfter, Answers, IInv, TypeOK, Job
<1> HIDE DEF pc, answer
<1>3. j \in Job /\ j.pc = pc /\ j.claim = job[p].claim /\ j.verdict = job[p].verdict
      /\ j.snap = job[p].snap /\ j.pre = job[p].pre
  BY <1>1, <1>2 DEF IInv, TypeOK, Job, Phase, Settling, AfterSend
<1> HIDE DEF j
<1>4. JobInv(job[p])
  BY DEF IInv
<1>5. JobInv(j) /\ ~Ready(j)
  BY <1>1, <1>3, <1>4 DEF JobInv, Past, Ready, Owning, Unsent, AfterSend
<1>6. j.pc \in Owning => job[p].pc \in Owning
  BY <1>1, <1>3 DEF Owning, Unsent, AfterSend
<1>7. QED
  BY <1>3, <1>5, <1>6 DEF j, pc, answer

\* What a settling write leaves of the row.
LEMMA WrittenFits ==
    ASSUME IInv, NEW p \in Process, job[p].pc \in Settling, Owned(job[p].claim),
           row' = Written(job[p].pc, row, job[p].claim)
    PROVE  /\ row' \in Entry /\ RowShape'
           /\ row'.claim \in {row.claim, None}
           /\ row'.lease = "held" => row.lease = "held"
           /\ job[p].pc # "failBefore" => row'.attempt = row.attempt
           /\ job[p].pc = "failBefore" => row'.attempt = None
<1> DEFINE op == job[p].pc
           c == job[p].claim
<1>1. row \in Entry /\ RowShape
  BY DEF IInv, TypeOK
<1>2. op \in AfterSend => row.attempt = c /\ c # None
  <2>1. op \in AfterSend => c # None /\ row.claim # c
    BY DEF IInv, JobInv, Past, Owning
  <2>2. QED
    BY <2>1 DEF Owned
<1>3. CASE op \in {"mark", "markFail"}
  <2>1. row' = OutcomeUnknown(row, c) /\ row.attempt # None
    BY <1>2, <1>3 DEF Written, AfterSend
  <2>2. QED
    BY <1>1, <1>3, <2>1 DEF OutcomeUnknown, Entry, RowShape, RecoveryState, None
<1>4. CASE op = "fail"
  <2>1. row' = Failed(row)
    BY <1>4 DEF Written
  <2>2. QED
    BY <1>1, <1>4, <2>1 DEF Failed, Entry, RowShape, RecoveryState, None
<1>5. CASE op = "failBefore"
  <2>1. row' = FailedBefore(row)
    BY <1>5 DEF Written
  <2>2. QED
    BY <1>1, <1>5, <2>1 DEF FailedBefore, Entry, RowShape, RecoveryState, None
<1>6. CASE op \in {"failAfter", "failFallback"}
  <2>1. row' = FailedAfter(row) /\ row.attempt # None
    BY <1>2, <1>6 DEF Written, AfterSend
  <2>2. QED
    BY <1>1, <1>6, <2>1 DEF FailedAfter, Entry, RowShape, RecoveryState, None
<1>7. CASE op \notin {"mark", "markFail", "fail", "failBefore", "failAfter", "failFallback"}
  <2>1. row' = row
    BY <1>7 DEF Written
  <2>2. QED
    BY <1>1, <1>7, <2>1 DEF RowShape
<1>8. QED
  BY <1>3, <1>4, <1>5, <1>6, <1>7

\* Each settling write, done or refused, keeps the invariant.
LEMMA SettleStep ==
    ASSUME IInv, NEW p \in Process, NEW ok \in BOOLEAN, Settle(p, ok) PROVE IInv'
<1> DEFINE c == job[p].claim
           done == ok /\ Owned(c)
           pc == NextWrite(job[p], done)
           j == IF pc = "idle" THEN IdleJob
                ELSE [job[p] EXCEPT !.pc = pc, !.answer = AnswerAfter(job[p])]
<1>1. job[p].pc \in Settling /\ UNCHANGED <<mode, wire, seen, claims, crashes>>
      /\ faults' \in 0..MaxFaults /\ crashes' \in 0..MaxCrashes
  BY DeliveryAssumption DEF Settle, Storage, platform, IInv, TypeOK
<1>2. Out' = Out /\ wire' \subseteq Claim /\ seen' \subseteq Claim
  BY <1>1 DEF Out, IInv, TypeOK
<1>3. CASE Silenced(job[p])
  <2>1. job' = [job EXCEPT ![p] = IdleJob] /\ UNCHANGED <<mode, rowVars, platform, claims>>
    BY <1>1, <1>3 DEF Settle, platform
  <2>2. QED
    BY <1>1, <2>1, IdleStep
<1>4. ASSUME ~Silenced(job[p]) PROVE IInv'
  <2>1. done \in BOOLEAN
    BY DEF Owned
  <2>2. j \in Job /\ JobInv(j) /\ ~Ready(j)
        /\ (j.pc \in Owning => job[p].pc \in Owning /\ j.claim = job[p].claim)
    BY <1>1, <2>1, IdleFits, NextWriteFits
  <2>3. job' = [job EXCEPT ![p] = j]
    BY <1>4 DEF Settle
  <2>4. CASE ~done
    <3>1. UNCHANGED <<mode, rowVars, platform, claims>>
      BY <1>1, <1>4, <2>4 DEF Settle, platform
    <3> HIDE DEF j
    <3>2. QED
      BY <1>1, <2>2, <2>3, <3>1, JobStep
  <2>5. CASE done
    <3>1. row' = Written(job[p].pc, row, c) /\ status' = StatusAfter(job[p].pc)
      BY <1>4, <2>5 DEF Settle
    <3>2. status = "pending" /\ status' \in Status \ {"absent"}
      BY <2>5, <3>1 DEF Owned, StatusAfter, Status
    <3>3. /\ row' \in Entry /\ RowShape'
          /\ row'.claim \in {row.claim, None}
          /\ row'.lease = "held" => row.lease = "held"
          /\ job[p].pc # "failBefore" => row'.attempt = row.attempt
          /\ job[p].pc = "failBefore" => row'.attempt = None
      BY <1>1, <2>5, <3>1, WrittenFits
    <3> HIDE DEF j
    <3>4. /\ job' \in [Process -> Job]
          /\ \A q \in Process : /\ JobInv(job'[q])
                                /\ job'[q].pc \in Owning => /\ job[q].pc \in Owning
                                                            /\ job'[q].claim = job[q].claim
                                /\ Ready(job'[q]) => Ready(job[q])
          /\ job'[p] = j /\ \A q \in Process : q # p => job'[q] = job[q]
      BY <2>2, <2>3, OneJob
    <3>5. ASSUME job[p].pc = "failBefore"
          PROVE  Out = {} /\ \A q \in Process : ~Ready(job'[q])
      <4>1. c # None /\ c \notin Out /\ job[p].pc \in Owning
        BY <3>5 DEF IInv, JobInv, Owning
      <4>2. row.attempt \in {c, None}
        BY <2>5, <4>1, Shape DEF Owned, IInv
      <4>3. Out = {}
        BY <3>2, <4>1, <4>2 DEF IInv, RowInv, TypeOK, Out, Claim, None
      <4>4. ASSUME NEW q \in Process, q # p, Ready(job[q]) PROVE FALSE
        <5>1. job[q].pc \in Owning /\ job[q].claim # None /\ row.attempt = job[q].claim
          BY <3>2, <4>4 DEF IInv, JobInv, Ready, Owning
        <5>2. QED
          BY <4>1, <4>2, <4>4, <5>1 DEF IInv, Apart
      <4>5. QED
        BY <2>2, <3>4, <4>3, <4>4
    <3>6. ASSUME status' = "suppressed"
          PROVE  Out = {} /\ \A q \in Process : ~Ready(job'[q])
      <4>1. job[p].pc = "ackUnsent"
        BY <1>1, <3>1, <3>6 DEF StatusAfter
      <4>2. c \in Claim /\ row.attempt # c
        BY <4>1 DEF IInv, JobInv, TypeOK, Job, Owning, Unsent
      <4>3. row.claim = c
        BY <2>5, <4>2 DEF Owned, Claim, None
      <4>4. QED
        BY <3>2, <3>4, <4>2, <4>3, OwnedIsUnsent
    <3>7. QED
      BY <1>1, <1>2, <3>2, <3>3, <3>4, <3>5, <3>6, RowStep
  <2>6. QED
    BY <2>4, <2>5
<1>5. QED
  BY <1>3, <1>4

-----------------------------------------------------------------------------
\* The invariant holds when nothing was admitted yet.
LEMMA InitInv == ASSUME Init PROVE IInv
<1>1. NoEntry \in Entry /\ IdleJob \in Job
  BY DEF NoEntry, Entry, RecoveryState, IdleJob, Job, Phase, Settling, Answers
<1>2. TypeOK
  BY <1>1, DeliveryAssumption DEF Init, TypeOK, Status, RowShape, NoEntry
<1>3. RowInv
  BY DEF Init, RowInv, Out, NoEntry, None
<1>4. \A p \in Process : job[p] = IdleJob
  BY DEF Init
<1>5. JobInv(IdleJob) /\ \A p, q \in Process : Apart(job[p], job[q])
  BY <1>4 DEF Init, JobInv, Apart, IdleJob, NoEntry, Past, Ready, Owning, Unsent, AfterSend, None
<1>6. QED
  BY <1>2, <1>3, <1>4, <1>5 DEF IInv

\* Every step keeps it, one lemma for each action.
LEMMA NextInv == ASSUME IInv, [Next]_vars PROVE IInv'
<1>1. CASE UNCHANGED vars
  <2>1. TypeOK' /\ RowInv'
    BY <1>1 DEF vars, IInv, TypeOK, RowShape, RowInv, Out
  <2>2. \A p \in Process : JobInv(job[p])'
    BY <1>1 DEF vars, IInv, JobInv, Past, Ready, Out
  <2>3. \A p, q \in Process : p # q => Apart(job[p], job[q])'
    BY <1>1 DEF vars, IInv, Apart, Ready
  <2>4. QED
    BY <2>1, <2>2, <2>3 DEF IInv
<1>2. ASSUME NEW p \in Process, Work(p) PROVE IInv'
  BY <1>2, StartLeaseStep, SuppressStep, SendStartStep, AckBeforeSendStep, DispatchStep, SettleStep, ClaimRowStep, ReserveStep,
     AnswerStep, ReconcileStep, ActOnVerdictStep, AbortStep DEF Work
<1>3. ASSUME NEW c \in Claim, Show(c) \/ Drop(c) PROVE IInv'
  BY <1>3, PlatformStep
<1>4. QED
  BY <1>1, <1>2, <1>3, EnqueueStep, QuietStep, ScanStep, ReproduceStep, RefuseAdmissionStep,
     LeaseExpiresStep DEF Next

\* The inductive invariant of the delivery row.
THEOREM DeliveryInvariant == Spec => []IInv
BY InitInv, NextInv, PTL DEF Spec

\* The row never mixes the claim of one owner with the evidence of another:
\* delivery-queue-sqlite-claim.ts writes each state with the fields it means.
THEOREM TypeCorrect == Spec => []TypeOK
<1>1. IInv => TypeOK
  BY DEF IInv
<1>2. QED
  BY <1>1, DeliveryInvariant, PTL

\* However many producers and gateways share the queue, and whatever crashes,
\* expires or is refused, the recipient sees the message at most once.
THEOREM SeenAtMostOnce == Spec => []SeenOnce
<1>1. ASSUME IInv PROVE SeenOnce
  <2>1. \A c, d \in seen : c = d
    BY <1>1 DEF IInv, RowInv, Out
  <2>2. CASE seen = {}
    BY <2>2, FS_EmptySet DEF SeenOnce
  <2>3. CASE seen # {}
    <3>1. PICK c : seen = {c}
      BY <2>1, <2>3
    <3>2. QED
      BY <3>1, FS_Singleton DEF SeenOnce
  <2>4. QED
    BY <2>2, <2>3
<1>2. QED
  BY <1>1, DeliveryInvariant, PTL

\* While a request may have reached the platform, a pending row says so, so
\* that recovery never replays it blindly.
THEOREM EvidenceSurvives == Spec => []EvidenceKept
<1>1. ASSUME IInv PROVE EvidenceKept
  <2>1. ASSUME status = "pending", wire \cup seen # {} PROVE row.attempt # None
    <3>1. PICK c \in Out : c \in Claim /\ c = row.attempt
      BY <1>1, <2>1 DEF IInv, RowInv, TypeOK, Out
    <3>2. QED
      BY <3>1 DEF Claim, None
  <2>2. QED
    BY <1>1, <2>1, Shape DEF EvidenceKept, IInv, NeedsReconciliation
<1>2. QED
  BY <1>1, DeliveryInvariant, PTL

-----------------------------------------------------------------------------
(* A receipt is true.                                                      *)

\* What a job must know before it may write a receipt.
ReceiptJob(j) ==
    /\ j.pc \in {"mark", "ack"} => seen # {}
    /\ j.answer = "identity" \/ j.verdict = "sent" => seen # {}
    /\ j.pc = "ackSent" => j.verdict = "sent"
    /\ j.pc = "dropping" => mode.policy # "required"
    /\ j.pc = "ackFallback" /\ faults = 0 => ~Owned(j.claim)

\* The receipts of what was sent.
SentTruthful == status = "completed" /\ faults = 0 /\ mode.policy = "required" => seen # {}

ReceiptInv == SentTruthful /\ \A p \in Process : ReceiptJob(job[p])

\* What every step leaves behind: a message seen stays seen, and a refusal
\* stays counted.
Onward == mode' = mode /\ seen \subseteq seen' /\ (faults' = 0 => faults = 0)

\* What a job may be after the step.
Fits(j) ==
    /\ j.pc \in {"mark", "ack"} => seen' # {}
    /\ j.answer = "identity" \/ j.verdict = "sent" => seen' # {}
    /\ j.pc = "ackSent" => j.verdict = "sent"
    /\ j.pc = "dropping" => mode.policy # "required"
    /\ j.pc = "ackFallback" /\ faults' = 0 => ~Owned(j.claim) /\ UNCHANGED rowVars

\* The row changes hands only from its owner, or to a fresh claim.
HandedBy(p) ==
    /\ \/ row'.claim \in {row.claim, None, claims + 1}
       \/ job[p].pc \in Owning /\ row'.claim = job[p].claim
    /\ \/ row'.attempt \in {row.attempt, None}
       \/ job[p].pc \in Owning /\ row'.attempt = job[p].claim
    /\ status' = "pending" =>
          status = "pending" \/ (row'.claim = claims + 1 /\ row'.attempt = None)

\* A job that lost the row never gets it back.
LEMMA StaysLost ==
    ASSUME IInv, NEW p \in Process, NEW q \in Process, q # p, HandedBy(p),
           job[q].pc = "ackFallback", ~Owned(job[q].claim)
    PROVE  job'[q] = job[q] => ~Owned(job[q].claim)'
<1>1. job[q].claim # None /\ job[q].claim <= claims /\ job[q].pc \in Owning
      /\ job[q].claim \in Nat /\ claims \in Nat
  BY DEF IInv, JobInv, Owning, AfterSend, TypeOK, Job, Claim, None
<1>2. job[p].pc \in Owning => job[p].claim # job[q].claim
  BY <1>1 DEF IInv, Apart
<1>3. job[q].claim # claims + 1
  BY <1>1
<1>4. QED
  BY <1>1, <1>2, <1>3 DEF HandedBy, Owned

\* A step of one process keeps the receipts true if its own job does.
LEMMA ReceiptStep ==
    ASSUME IInv, ReceiptInv, NEW p \in Process, NEW j, job' = [job EXCEPT ![p] = j],
           Onward, HandedBy(p), Fits(j),
           status' = "completed" => status = "completed" \/ SentTruthful'
    PROVE  ReceiptInv'
<1>1. job'[p] = j /\ \A q \in Process : q # p => job'[q] = job[q]
  BY DEF IInv, TypeOK
<1>2. SentTruthful'
  BY DEF ReceiptInv, SentTruthful, Onward
<1>3. ASSUME NEW q \in Process PROVE ReceiptJob(job[q])'
  <2>1. CASE q = p
    BY <1>1, <2>1 DEF ReceiptJob, Fits, Owned, rowVars, Onward
  <2>2. CASE q # p
    <3>1. job'[q] = job[q] /\ ReceiptJob(job[q])
      BY <1>1, <2>2 DEF ReceiptInv
    <3>2. job[q].pc = "ackFallback" /\ faults' = 0 => ~Owned(job[q].claim)'
      BY <2>2, <3>1, StaysLost DEF ReceiptJob, Onward
    <3>3. QED
      BY <3>1, <3>2 DEF ReceiptJob, Onward, Owned
  <2>3. QED
    BY <2>1, <2>2
<1>4. QED
  BY <1>2, <1>3 DEF ReceiptInv

\* A job that is not about to write a receipt, and learned nothing, is fit.
LEMMA NoReceipt ==
    ASSUME ReceiptInv, NEW p \in Process, NEW j, Onward,
           j.pc \notin {"mark", "ack", "ackSent", "ackFallback"},
           j.verdict \in {job[p].verdict, "none"},
           j.answer = "identity" => job[p].answer = "identity",
           j.pc = "dropping" => mode.policy # "required"
    PROVE  Fits(j)
BY DEF ReceiptInv, ReceiptJob, Fits, Onward

\* A refused transaction is counted.
LEMMA FaultsCount ==
    ASSUME IInv, NEW ok \in BOOLEAN, Storage(ok)
    PROVE  (faults' = 0 => faults = 0) /\ (faults' = 0 => ok)
BY DEF Storage, IInv, TypeOK

\* Giving up, or doing nothing that ends in a receipt.
LEMMA QuietReceipt ==
    ASSUME IInv, ReceiptInv, NEW p \in Process, NEW j, job' = [job EXCEPT ![p] = j],
           Onward, HandedBy(p), status' = status,
           j.pc \notin {"mark", "ack", "ackSent", "ackFallback"},
           j.verdict \in {job[p].verdict, "none"},
           j.answer = "identity" => job[p].answer = "identity",
           j.pc = "dropping" => mode.policy # "required"
    PROVE  ReceiptInv'
BY NoReceipt, ReceiptStep

\* A job that ends forgets what it knew; what the others know does not depend on it.
LEMMA IdleReceipt ==
    ASSUME IInv, ReceiptInv, NEW p \in Process, job' = [job EXCEPT ![p] = IdleJob],
           UNCHANGED <<mode, rowVars, seen>>, faults' = 0 => faults = 0
    PROVE  ReceiptInv'
<1>1. IdleJob.pc = "idle" /\ IdleJob.verdict = "none" /\ IdleJob.answer = "none" /\ Onward /\ HandedBy(p) /\ status' = status
  BY DEF IdleJob, Onward, HandedBy, rowVars
<1>2. QED
  BY <1>1, QuietReceipt

\* A throw ends in no receipt.
LEMMA ThrownQuiet ==
    ASSUME IInv, NEW p \in Process
    PROVE  /\ Thrown(job[p]).pc \in {"idle", "fail"}
           /\ Thrown(job[p]).verdict \in {job[p].verdict, "none"}
           /\ Thrown(job[p]).answer \in {job[p].answer, "none"}
BY DEF Thrown, IdleJob, IInv, TypeOK, Job

\* Taking the row.
LEMMA ClaimReceipt ==
    ASSUME IInv, ReceiptInv, NEW p \in Process, NEW ok \in BOOLEAN,
           Enqueue(p) \/ Reproduce(p, ok) \/ ClaimRow(p, ok)
    PROVE  ReceiptInv'
<1>1. Onward
  BY FaultsCount DEF Enqueue, Reproduce, ClaimRow, Onward, platform, IInv
<1>2. ASSUME row' = ClaimedBy(row, claims + 1) \/ row' = ClaimedBy(NoEntry, claims + 1),
             NEW pc \in {"queued", "claimed"}, NEW live \in BOOLEAN,
             job' = [job EXCEPT ![p] = [IdleJob EXCEPT !.pc = pc, !.live = live,
                                                       !.claim = claims + 1]],
             status' # "completed" \/ status' = status
      PROVE  ReceiptInv'
  <2> DEFINE j == [IdleJob EXCEPT !.pc = pc, !.live = live, !.claim = claims + 1]
  <2>1. j.pc = pc /\ j.verdict = "none" /\ j.answer = "none"
    BY DEF IdleJob
  <2>2. HandedBy(p)
    BY <1>2 DEF HandedBy, ClaimedBy
  <2>3. job' = [job EXCEPT ![p] = j]
    BY <1>2
  <2> HIDE DEF j
  <2>4. Fits(j)
    BY <1>1, <2>1, NoReceipt
  <2>5. QED
    BY <1>1, <1>2, <2>2, <2>3, <2>4, ReceiptStep
<1>3. CASE Enqueue(p)
  BY <1>2, <1>3 DEF Enqueue
<1>4. CASE Reproduce(p, ok)
  <2>1. CASE ok /\ Claimable(row, None, 0)
    BY <1>2, <1>4, <2>1 DEF Reproduce
  <2>2. CASE ~(ok /\ Claimable(row, None, 0))
    <3>1. UNCHANGED <<row, status, job>>
      BY <1>4, <2>2 DEF Reproduce
    <3>2. QED
      BY <1>1, <3>1 DEF ReceiptInv, SentTruthful, ReceiptJob, Onward, Owned
  <2>3. QED
    BY <2>1, <2>2
<1>5. CASE ClaimRow(p, ok)
  <2>1. CASE job' = [job EXCEPT ![p] = IdleJob] /\ UNCHANGED row
    BY <1>1, <1>5, <2>1, IdleReceipt DEF ClaimRow, platform, rowVars, Onward
  <2>2. CASE ~(job' = [job EXCEPT ![p] = IdleJob] /\ UNCHANGED row)
    BY <1>2, <1>5, <2>2 DEF ClaimRow
  <2>3. QED
    BY <2>1, <2>2
<1>6. QED
  BY <1>3, <1>4, <1>5

\* Sending: only a delivery that is not required drops its row beforehand.
LEMMA SendReceipt ==
    ASSUME IInv, ReceiptInv, NEW p \in Process, NEW ok \in BOOLEAN,
           \/ StartLease(p, ok) \/ SendStart(p, ok) \/ AckBeforeSend(p, ok)
           \/ Dispatch(p, ok) \/ Reserve(p, ok)
    PROVE  ReceiptInv'
<1> DEFINE Sendable == {"idle", "fail", "leased", "dropping", "started", "sending",
                         "dead", "queued"}
<1>1. Onward /\ job[p].pc \in Owning /\ job \in [Process -> Job] /\ row \in Entry
  BY FaultsCount DEF StartLease, SendStart, AckBeforeSend, Dispatch, Reserve, Onward, platform, IInv, TypeOK,
                     Owning, Unsent
<1>2. PICK j : /\ job' = [job EXCEPT ![p] = j]
               /\ j.pc \in Sendable /\ (j.pc = "dropping" => mode.policy # "required")
               /\ j.verdict \in {job[p].verdict, "none"}
               /\ j.answer \in {job[p].answer, "none"}
  <2>1. CASE job' = [job EXCEPT ![p] = Thrown(job[p])]
    BY <2>1, ThrownQuiet
  <2>2. CASE job' = [job EXCEPT ![p] = IdleJob]
    <3>1. IdleJob.pc = "idle" /\ IdleJob.verdict = "none" /\ IdleJob.answer = "none"
      BY DEF IdleJob
    <3>2. QED
      BY <2>2, <3>1
  <2>3. ASSUME NEW pc \in Sendable,
               NEW pre \in {"none", "marked", "acked"},
               pc = "dropping" => mode.policy # "required",
               job' = [job EXCEPT ![p] = [job[p] EXCEPT !.pc = pc, !.pre = pre]]
        PROVE  \E j : /\ job' = [job EXCEPT ![p] = j]
                      /\ j.pc \in Sendable /\ (j.pc = "dropping" => mode.policy # "required")
                      /\ j.verdict \in {job[p].verdict, "none"}
                      /\ j.answer \in {job[p].answer, "none"}
    <3> DEFINE k == [job[p] EXCEPT !.pc = pc, !.pre = pre]
    <3>1. k.pc = pc /\ k.verdict = job[p].verdict /\ k.answer = job[p].answer
      BY <1>1 DEF Job
    <3>2. QED
      BY <2>3, <3>1
  <2>4. ASSUME NEW pc \in Sendable
        PROVE  [job[p] EXCEPT !.pc = pc] = [job[p] EXCEPT !.pc = pc, !.pre = job[p].pre]
               /\ job[p].pre \in {"none", "marked", "acked"}
               /\ [job EXCEPT ![p].pc = pc] = [job EXCEPT ![p] = [job[p] EXCEPT !.pc = pc]]
    BY <1>1 DEF Job
  <2>5. ASSUME NEW pc \in {"started", "sending"}, NEW pre
        PROVE  [job EXCEPT ![p].pc = pc, ![p].pre = pre]
                 = [job EXCEPT ![p] = [job[p] EXCEPT !.pc = pc, !.pre = pre]]
    BY <1>1
  <2>6. CASE StartLease(p, ok)
    BY <2>1, <2>2, <2>3, <2>4, <2>6 DEF StartLease
  <2>7. CASE SendStart(p, ok) \/ AckBeforeSend(p, ok)
    <3>1. \/ job' = [job EXCEPT ![p] = Thrown(job[p])]
          \/ job' = [job EXCEPT ![p].pc = "started"]
          \/ /\ job' = [job EXCEPT ![p] = [job[p] EXCEPT !.pc = "dropping"]]
             /\ mode.policy # "required"
          \/ job' = [job EXCEPT ![p].pc = "started", ![p].pre = "marked"]
          \/ job' = [job EXCEPT ![p] = [job[p] EXCEPT !.pc = "started", !.pre = "acked"]]
      BY <2>7 DEF SendStart, AckBeforeSend, Required
    <3>2. CASE job' = [job EXCEPT ![p].pc = "started"]
      BY <2>3, <2>4, <3>2
    <3>3. CASE /\ job' = [job EXCEPT ![p] = [job[p] EXCEPT !.pc = "dropping"]]
               /\ mode.policy # "required"
      BY <2>3, <2>4, <3>3
    <3>4. CASE job' = [job EXCEPT ![p].pc = "started", ![p].pre = "marked"]
      <4>1. job' = [job EXCEPT ![p] = [job[p] EXCEPT !.pc = "started", !.pre = "marked"]]
        BY <2>5, <3>4
      <4>2. QED
        BY <2>3, <4>1
    <3>5. CASE job' = [job EXCEPT ![p] = [job[p] EXCEPT !.pc = "started", !.pre = "acked"]]
      BY <2>3, <3>5
    <3>6. QED
      BY <2>1, <3>1, <3>2, <3>3, <3>4, <3>5
  <2>8. CASE Dispatch(p, ok)
    <3> DEFINE pre == IF job[p].pre = "acked" THEN "acked" ELSE "marked"
    <3>1. \/ job' = [job EXCEPT ![p] = Thrown(job[p])]
          \/ job' = [job EXCEPT ![p].pc = "sending", ![p].pre = pre]
      BY <2>8 DEF Dispatch
    <3>2. pre \in {"none", "marked", "acked"}
      OBVIOUS
    <3> HIDE DEF pre
    <3>3. CASE job' = [job EXCEPT ![p].pc = "sending", ![p].pre = pre]
      <4>1. job' = [job EXCEPT ![p] = [job[p] EXCEPT !.pc = "sending", !.pre = pre]]
        BY <2>5, <3>3
      <4>2. QED
        BY <2>3, <3>2, <4>1
    <3>4. QED
      BY <2>1, <3>1, <3>3
  <2>9. CASE Reserve(p, ok)
    <3>1. \/ job' = [job EXCEPT ![p] = IdleJob]
          \/ \E pc \in {"dead", "queued"} : job' = [job EXCEPT ![p].pc = pc]
      BY <2>9 DEF Reserve
    <3>2. ASSUME NEW pc \in {"dead", "queued"}, job' = [job EXCEPT ![p].pc = pc]
          PROVE  job' = [job EXCEPT ![p] = [job[p] EXCEPT !.pc = pc, !.pre = job[p].pre]]
                 /\ job[p].pre \in {"none", "marked", "acked"}
      BY <2>4, <3>2
    <3>3. QED
      BY <2>2, <2>3, <3>1, <3>2
  <2>10. QED
    BY <2>6, <2>7, <2>8, <2>9
<1>3. HandedBy(p)
  <2>1. ASSUME row' = Promoted(row, job[p].claim) \/ row' = Dispatched(row, job[p].claim),
               status' = status
        PROVE  HandedBy(p)
    BY <1>1, <2>1 DEF HandedBy, Promoted, Dispatched
  <2>2. ASSUME row' = row, status' # "pending" \/ status' = status PROVE HandedBy(p)
    BY <2>2 DEF HandedBy
  <2>3. ASSUME NEW n, row' = [row EXCEPT !.attempts = n], status' = status PROVE HandedBy(p)
    BY <1>1, <2>3 DEF HandedBy, Entry
  <2>4. CASE StartLease(p, ok)
    BY <2>2, <2>4 DEF StartLease, rowVars
  <2>5. CASE SendStart(p, ok) \/ AckBeforeSend(p, ok)
    BY <2>1, <2>2, <2>5 DEF SendStart, AckBeforeSend, rowVars
  <2>6. CASE Dispatch(p, ok)
    BY <2>1, <2>2, <2>6 DEF Dispatch, rowVars
  <2>7. CASE Reserve(p, ok)
    BY <2>2, <2>3, <2>7 DEF Reserve
  <2>8. QED
    BY <2>4, <2>5, <2>6, <2>7
<1>4. status' = status \/ (status' = "completed" /\ mode.policy # "required")
  <2>1. CASE AckBeforeSend(p, ok)
    <3>1. job[p].pc = "dropping"
      BY <2>1 DEF AckBeforeSend
    <3>2. QED
      BY <2>1, <3>1 DEF AckBeforeSend, ReceiptInv, ReceiptJob
  <2>2. QED
    BY <2>1 DEF StartLease, SendStart, Dispatch, Reserve, rowVars
<1>5. Fits(j)
  BY <1>1, <1>2, NoReceipt
<1>6. QED
  BY <1>1, <1>2, <1>3, <1>4, <1>5, ReceiptStep DEF SentTruthful, Onward

\* What touches one job's memory, or buries a row.
LEMMA MemoryReceipt ==
    ASSUME IInv, ReceiptInv, NEW p \in Process, NEW ok \in BOOLEAN,
           \/ Abort(p) \/ Scan(p) \/ YieldToDrain(p) \/ Crash(p) \/ RefuseAdmission(p, ok)
           \/ HeartbeatLost(p) \/ ExpiryTimer(p)
    PROVE  ReceiptInv'
<1>0. job \in [Process -> Job]
  BY DEF IInv, TypeOK
<1>1. Onward /\ row' = row /\ (status' = status \/ status' = "dead")
  BY FaultsCount DEF Abort, Scan, YieldToDrain, Crash, RefuseAdmission, HeartbeatLost,
                     ExpiryTimer, Onward, platform, rowVars, IInv
<1>2. HandedBy(p)
  BY <1>1 DEF HandedBy
<1>3. PICK j : job' = [job EXCEPT ![p] = j] /\ Fits(j)
  <2>1. CASE job' = [job EXCEPT ![p] = IdleJob]
    BY <1>1, <2>1, NoReceipt DEF IdleJob
  <2>2. CASE Abort(p)
    <3>1. CASE job' = [job EXCEPT ![p] = Thrown(job[p])]
      BY <1>1, <3>1, ThrownQuiet, NoReceipt
    <3>2. ASSUME NEW pc \in {"failAfter", "withdraw"},
                 job' = [job EXCEPT ![p] = [job[p] EXCEPT !.pc = pc]]
          PROVE  \E j : job' = [job EXCEPT ![p] = j] /\ Fits(j)
      <4> DEFINE k == [job[p] EXCEPT !.pc = pc]
      <4>1. k.pc = pc /\ k.verdict = job[p].verdict /\ k.answer = job[p].answer
        BY <1>0 DEF Job
      <4> HIDE DEF k
      <4>2. Fits(k)
        BY <1>1, <4>1, NoReceipt
      <4>3. QED
        BY <3>2, <4>2 DEF k
    <3>3. QED
      BY <2>1, <2>2, <3>1, <3>2 DEF Abort
  <2>3. CASE Scan(p)
    <3>1. PICK pc \in {"dead", "loaded", "claiming"} :
              job' = [job EXCEPT ![p] = [IdleJob EXCEPT !.pc = pc, !.claim = row.attempt,
                                                        !.snap = row]]
      BY <2>3 DEF Scan
    <3> DEFINE k == [IdleJob EXCEPT !.pc = pc, !.claim = row.attempt, !.snap = row]
    <3>2. k.pc = pc /\ k.verdict = "none" /\ k.answer = "none"
      BY DEF IdleJob
    <3> HIDE DEF k
    <3>3. Fits(k)
      BY <1>1, <3>2, NoReceipt
    <3>4. QED
      BY <3>1, <3>3 DEF k
  <2>4. CASE HeartbeatLost(p) \/ ExpiryTimer(p)
    <3> DEFINE k == [job[p] EXCEPT !.lost = TRUE]
    <3>1. job' = [job EXCEPT ![p] = k] /\ Leasing(job[p])
      BY <2>4, <1>0 DEF HeartbeatLost, ExpiryTimer
    <3>2. k.pc = job[p].pc /\ k.verdict = job[p].verdict /\ k.answer = job[p].answer /\ k.pc \notin {"ackSent", "ackFallback"}
      BY <1>0, <3>1 DEF Job, Leasing
    <3> HIDE DEF k
    <3>3. Fits(k)
      BY <1>1, <3>2 DEF Fits, ReceiptInv, ReceiptJob, Onward
    <3>4. QED
      BY <3>1, <3>3
  <2>5. QED
    BY <2>1, <2>2, <2>3, <2>4 DEF YieldToDrain, Crash, RefuseAdmission
<1>4. QED
  BY <1>1, <1>2, <1>3, ReceiptStep

\* An identity names a message that was seen, and a reconciliation that
\* answers "sent" found one.
LEMMA AnswerReceipt ==
    ASSUME IInv, ReceiptInv, NEW p \in Process,
           \/ \E a \in Answers : Answer(p, a)
           \/ \E v \in Verdicts : Reconcile(p, v)
           \/ ActOnVerdict(p) \/ Suppress(p)
    PROVE  ReceiptInv'
<1>0. job \in [Process -> Job]
  BY DEF IInv, TypeOK
<1>1. Onward /\ HandedBy(p) /\ UNCHANGED <<rowVars, seen>> /\ status' = status
  BY DEF Answer, Reconcile, ActOnVerdict, Suppress, Onward, HandedBy, platform, rowVars
<1>2. ASSUME NEW a \in Answers, Answer(p, a) PROVE ReceiptInv'
  <2> DEFINE pc == FirstWrite(job[p], a)
             j == [job[p] EXCEPT !.pc = pc, !.answer = a]
  <2>1. CASE pc = "idle"
    BY <1>1, <1>2, <2>1, IdleReceipt DEF Answer
  <2>2. CASE pc # "idle"
    <3>1. a \notin {"none", "suppressed"} /\ Truthful(a, job[p].claim) /\ job' = [job EXCEPT ![p] = j]
      BY <1>2, <2>2 DEF Answer
    <3>2. pc \notin {"ack", "ackSent", "ackFallback", "dropping"} /\ (pc = "mark" => a = "identity")
      BY <2>2, <3>1 DEF FirstWrite, ProducerWrite, DrainWrite, Answers
    <3>3. pc = "mark" \/ a = "identity" => seen # {}
      BY <3>1, <3>2 DEF Truthful
    <3> HIDE DEF pc
    <3>4. j.pc = pc /\ j.verdict = job[p].verdict /\ j.answer = a
      BY <1>0 DEF Job
    <3> HIDE DEF j
    <3>5. Fits(j)
      BY <1>1, <3>2, <3>3, <3>4 DEF Fits, ReceiptInv, ReceiptJob
    <3>6. QED
      BY <1>1, <3>1, <3>5, ReceiptStep
  <2>3. QED
    BY <2>1, <2>2
<1>3. ASSUME NEW v \in Verdicts, Reconcile(p, v) PROVE ReceiptInv'
  <2> DEFINE j == [job[p] EXCEPT !.pc = "reconciled", !.verdict = v]
  <2>1. job' = [job EXCEPT ![p] = j]
    BY <1>0, <1>3 DEF Reconcile
  <2>2. j.pc = "reconciled" /\ j.verdict = v /\ j.answer = job[p].answer
    BY <1>0 DEF Job
  <2>3. v = "sent" => seen # {}
    BY DEF Verdicts
  <2> HIDE DEF j
  <2>4. Fits(j)
    BY <1>1, <2>2, <2>3 DEF Fits, ReceiptInv, ReceiptJob
  <2>5. QED
    BY <1>1, <2>1, <2>4, ReceiptStep
<1>4. ASSUME ActOnVerdict(p) PROVE ReceiptInv'
  <2>1. PICK pc \in {"ackSent", "claiming", "fail", "dead"} :
            job' = [job EXCEPT ![p].pc = pc] /\ (pc = "ackSent" => job[p].verdict = "sent")
    BY <1>4 DEF ActOnVerdict
  <2> DEFINE j == [job[p] EXCEPT !.pc = pc]
  <2>2. job' = [job EXCEPT ![p] = j] /\ j.pc = pc /\ j.verdict = job[p].verdict
        /\ j.answer = job[p].answer
    BY <1>0, <2>1 DEF Job
  <2> HIDE DEF j
  <2>3. Fits(j)
    BY <1>1, <2>1, <2>2 DEF Fits, ReceiptInv, ReceiptJob
  <2>4. QED
    BY <1>1, <2>2, <2>3, ReceiptStep
<1>5. ASSUME Suppress(p) PROVE ReceiptInv'
  <2> DEFINE j == [job[p] EXCEPT !.pc = "ackUnsent", !.answer = "suppressed"]
  <2>1. job' = [job EXCEPT ![p] = j] /\ j.pc = "ackUnsent" /\ j.verdict = job[p].verdict
        /\ j.answer = "suppressed"
    BY <1>0, <1>5 DEF Suppress, Job
  <2> HIDE DEF j
  <2>2. QED
    BY <1>1, <2>1, QuietReceipt
<1>6. QED
  BY <1>2, <1>3, <1>4, <1>5

\* A receipt is written after a message was seen, or under an ownership that
\* only a refused transaction can leave to a failed marker.
LEMMA SettleReceipt ==
    ASSUME IInv, ReceiptInv, NEW p \in Process, NEW ok \in BOOLEAN, Settle(p, ok)
    PROVE  ReceiptInv'
<1> DEFINE c == job[p].claim
           done == ok /\ Owned(c)
           pc == NextWrite(job[p], done)
           answer == AnswerAfter(job[p])
           j == [job[p] EXCEPT !.pc = pc, !.answer = answer]
<1>1. job[p].pc \in Settling /\ mode' = mode /\ seen' = seen /\ Storage(ok)
      /\ job \in [Process -> Job] /\ ReceiptJob(job[p])
  BY DEF Settle, platform, IInv, TypeOK, ReceiptInv
<1>2. Onward /\ (faults' = 0 => ok /\ faults = 0)
  BY <1>1, FaultsCount DEF Onward
<1>3. CASE Silenced(job[p])
  BY <1>1, <1>2, <1>3, IdleReceipt DEF Settle
<1>4. ASSUME ~Silenced(job[p]) PROVE ReceiptInv'
  <2>1. HandedBy(p)
    <3>1. CASE ~done
      BY <1>4, <3>1 DEF Settle, HandedBy, rowVars
    <3>2. CASE done
      <4>1. row' = Written(job[p].pc, row, c) /\ status = "pending"
        BY <1>4, <3>2 DEF Settle, Owned
      <4>2. row'.claim \in {row.claim, None} /\ row'.attempt \in {row.attempt, None}
        BY <1>1, <3>2, <4>1, WrittenFits
      <4>3. QED
        BY <4>1, <4>2 DEF HandedBy
    <3>3. QED
      BY <3>1, <3>2
  <2>2. status' = "completed" => status = "completed" \/ SentTruthful'
    <3>1. CASE ~done
      BY <1>4, <3>1 DEF Settle, rowVars
    <3>2. CASE done
      <4>1. status' = StatusAfter(job[p].pc)
        BY <1>4, <3>2 DEF Settle
      <4>2. ASSUME status' = "completed"
            PROVE  job[p].pc \in {"ack", "ackFallback", "ackSent"}
        BY <1>1, <4>1, <4>2 DEF StatusAfter
      <4>3. ASSUME job[p].pc \in {"ack", "ackFallback", "ackSent"}, faults' = 0 PROVE seen # {}
        BY <1>1, <1>2, <3>2, <4>3 DEF ReceiptJob
      <4>4. QED
        BY <1>1, <4>2, <4>3 DEF SentTruthful
    <3>3. QED
      BY <3>1, <3>2
  <2>3. CASE pc = "idle"
    <3>1. job' = [job EXCEPT ![p] = IdleJob] /\ IdleJob.pc = "idle" /\ IdleJob.verdict = "none"
          /\ IdleJob.answer = "none"
      BY <1>4, <2>3 DEF Settle, IdleJob
    <3>2. Fits(IdleJob)
      BY <1>2, <3>1, NoReceipt
    <3>3. QED
      BY <1>2, <2>1, <2>2, <3>1, <3>2, ReceiptStep
  <2>4. CASE pc # "idle"
    <3>1. job' = [job EXCEPT ![p] = j]
      BY <1>4, <2>4 DEF Settle
    <3>2. pc \notin {"ackSent", "dropping"} /\ (pc = "ack" => job[p].pc = "mark")
          /\ (pc = "mark" => job[p].answer = "identity")
          /\ (pc = "ackFallback" => ~done) /\ (answer = "identity" => job[p].answer = "identity")
      BY <2>4 DEF NextWrite, Fallback, AnswerAfter
    <3>3. ~done => UNCHANGED rowVars
      BY <1>4 DEF Settle
    <3> HIDE DEF pc, answer
    <3>4. j.pc = pc /\ j.verdict = job[p].verdict /\ j.claim = c /\ j.answer = answer
      BY <1>1 DEF Job
    <3> HIDE DEF j
    <3>5. Fits(j)
      BY <1>1, <1>2, <3>2, <3>3, <3>4 DEF Fits, ReceiptJob
    <3>6. QED
      BY <1>2, <2>1, <2>2, <3>1, <3>5, ReceiptStep
  <2>5. QED
    BY <2>3, <2>4
<1>5. QED
  BY <1>3, <1>4

\* Every step keeps the receipts true.
LEMMA NextReceipt == ASSUME IInv, ReceiptInv, [Next]_vars PROVE ReceiptInv'
<1>1. ASSUME UNCHANGED <<mode, status, job, faults>>, seen \subseteq seen',
             row'.claim = row.claim, row'.attempt = row.attempt
      PROVE  ReceiptInv'
  BY <1>1 DEF ReceiptInv, SentTruthful, ReceiptJob, Owned
<1>2. CASE UNCHANGED vars
  BY <1>1, <1>2 DEF vars
<1>3. ASSUME NEW c \in Claim, Show(c) \/ Drop(c) PROVE ReceiptInv'
  BY <1>1, <1>3 DEF Show, Drop, rowVars
<1>4. CASE LeaseExpires
  BY <1>1, <1>4 DEF LeaseExpires, platform, IInv, TypeOK, Entry
<1>5. ASSUME NEW p \in Process, Work(p) PROVE ReceiptInv'
  BY <1>5, SendReceipt, SettleReceipt, ClaimReceipt, AnswerReceipt, MemoryReceipt DEF Work
<1>6. QED
  BY <1>2, <1>3, <1>4, <1>5, ClaimReceipt, MemoryReceipt DEF Next

\* With a working database, the receipt of what a required delivery sent stands
\* for a message the recipient has seen: ackDelivery is called after an
\* identity, after a "sent" verdict, or from a fallback that finds no row.  The
\* receipt of a batch with nothing visible is written under a claim that never
\* became an attempt, so no process sent it, or will.
THEOREM ReceiptsAreTrue == Spec => []ReceiptTruthful
<1>1. Init => ReceiptInv
  BY DEF Init, ReceiptInv, SentTruthful, ReceiptJob, IdleJob
<1>2. IInv /\ ReceiptInv /\ [Next]_vars => ReceiptInv'
  BY NextReceipt
<1>3. IInv /\ ReceiptInv => ReceiptTruthful
  BY DEF ReceiptInv, SentTruthful, ReceiptTruthful, IInv, RowInv, Out
<1>4. QED
  BY <1>1, <1>2, <1>3, DeliveryInvariant, PTL DEF Spec
=============================================================================
