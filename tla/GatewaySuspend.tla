--------------------------- MODULE GatewaySuspend ---------------------------
(***************************************************************************)
(* Cooperative host suspension, src/src/infra/gateway-suspend-coordinator: *)
(* the RPC methods prepare, status and resume over the admission gate and  *)
(* the cron scheduler, the expiry and recovery timers, and the restart     *)
(* that supersedes a suspension (cli/gateway-cli/run-loop.ts 1005-1008).   *)
(*                                                                         *)
(* One RPC is one step: between its await-free calls nothing else runs.    *)
(* No callback of src/ that the coordinator calls (pausing and resuming    *)
(* the cron timer, counting work) reaches the gate again, so the tests of  *)
(* the file for an invalidation in the middle of a call are always         *)
(* negative and left out.  Counting work and resuming can throw.           *)
(***************************************************************************)
EXTENDS WorkAdmission

CONSTANT Request   \* what identifies a prepare: requestId and terminal policy

VARIABLES current,   \* COORDINATOR_STATE.current
          retired,   \* COORDINATOR_STATE.retiredForLifecycleReset
          paused,    \* the cron service's schedulingPaused
          expired,   \* Date.now() has reached the current entry's expiresAtMs
          due        \* timer callbacks the event loop has queued

coordVars == <<current, retired, paused, expired, due>>
vars == <<adm, workVars, coordVars>>

\* An entry of the coordinator.  Its owner is named by the generation of its
\* admission lease; armed says that its timer is set and has not run out; excused
\* is the root of the caller that the inspection which found the gateway idle did
\* not count.
Entry == [kind : {"held", "recovering"}, owner : Nat, request : Request,
          drain : BOOLEAN, phase : {"preparing", "draining", "ready"},
          armed : BOOLEAN, excused : Root \cup {NoRoot}]
NoEntry == [kind |-> "none", owner |-> 0, armed |-> FALSE]

Init == /\ AdmInit /\ WorkInit
        /\ current = NoEntry /\ retired = NoEntry
        /\ paused = FALSE /\ expired = FALSE /\ due = {}

-----------------------------------------------------------------------------
(* One call of the coordinator is a function on this part of the state.    *)

Now == [adm |-> adm, current |-> current, retired |-> retired,
        paused |-> paused, expired |-> expired, due |-> due]

Becomes(s) == /\ adm' = s.adm /\ current' = s.current /\ retired' = s.retired
              /\ paused' = s.paused /\ expired' = s.expired /\ due' = s.due

\* clearEntryTimer: a callback that is queued already runs, of an old generation.
TimerCleared(s, e) ==
    [s EXCEPT !.due = {[t EXCEPT !.live = @ /\ ~(t.owner = e.owner /\ t.kind = e.kind)]
                         : t \in s.due}]

\* release() of a held lease, and of what became of one; rollback() when the
\* preparation itself could not resume the scheduler.
CanReopen(s, e) ==
    \E from \in IF e.phase = "preparing" THEN {"preparing"} ELSE {"draining", "prepared"} :
        CanMove(s.adm, e.owner, from)

\* Fault: the recovering entry is installed and never retried.
EnterRecoveryUnarmed(s) ==
    [TimerCleared(s, s.current) EXCEPT !.current.kind = "recovering",
                                       !.current.armed = FALSE, !.expired = FALSE]

EnterRecovery(s) ==
    [TimerCleared(s, s.current) EXCEPT !.current.kind = "recovering",
                                       !.current.armed = TRUE, !.expired = FALSE]

\* Fault: the gate opens whether or not the scheduler resumed.
ResumeAndReopenRegardless(s, resumes) ==
    [TimerCleared(s, s.current) EXCEPT
        !.paused = ~resumes, !.adm = Move(@, "accepting"), !.current = NoEntry,
        !.expired = FALSE]

\* resumeAndReopen of the current entry; resumes tells whether the scheduler's
\* resumeScheduling returns or throws.
ResumeAndReopen(s, resumes) ==
    IF ~resumes THEN EnterRecovery(s)
    ELSE IF CanReopen(s, s.current)
         THEN [TimerCleared(s, s.current) EXCEPT
                  !.paused = FALSE, !.adm = Move(@, "accepting"),
                  !.current = NoEntry, !.expired = FALSE]
         ELSE [EnterRecovery(s) EXCEPT !.paused = FALSE]

\* normalizeExpiredHeldSuspension, the first thing every RPC does.
Normalized(resumes) ==
    IF current.kind = "held" /\ expired THEN ResumeAndReopen(Now, resumes) ELSE Now

Idle(caller, other) == ~other /\ active \subseteq {caller}

\* refreshHeldSuspension: a drain that finds the gateway idle is promoted.
Refreshed(s, caller, other) ==
    IF /\ s.current.phase = "draining" /\ Idle(caller, other)
       /\ \E from \in {"preparing", "draining"} : CanMove(s.adm, s.current.owner, from)
    THEN [s EXCEPT !.adm = Move(@, "prepared"), !.current.phase = "ready",
                   !.current.excused = caller]
    ELSE s

\* renewHeldSuspension pushes the deadline and rearms the timer.
Renewed(s) == [TimerCleared(s, s.current) EXCEPT !.current.armed = TRUE, !.expired = FALSE]

\* resumeSchedulingBeforeReopen: the scheduler first, and nothing opens if it fails.
RolledBack(s, e, resumes) ==
    IF resumes THEN [s EXCEPT !.paused = FALSE, !.adm = Move(@, "accepting")]
    ELSE [s EXCEPT !.current = [e EXCEPT !.kind = "recovering"]]

\* The rest of prepareGatewaySuspend when no lease is held.
Prepared(s, e, other, inspects, resumes) ==
    LET closed == [s EXCEPT !.adm = Suspend(@), !.paused = TRUE]
        idle == Idle(e.excused, other)
    IN  IF ~CanSuspend(s.adm) THEN s
        ELSE IF ~inspects \/ (~idle /\ ~e.drain)
        THEN RolledBack(closed, [e EXCEPT !.phase = "preparing"], resumes)
        ELSE [closed EXCEPT
                !.adm = Move(@, IF idle THEN "prepared" ELSE "draining"),
                !.current = [e EXCEPT !.phase = IF idle THEN "ready" ELSE "draining"],
                !.expired = FALSE]

-----------------------------------------------------------------------------
(* The RPCs.  Their caller runs under a root of its own, under one it       *)
(* inherited, or, when the gate is closed, under none.                     *)

RunningUnder(root) == \E c \in Chain : chains[c].pc = "running" /\ chains[c].store = root

\* Preparation is refused to a nested request.
PrepareCaller(root) ==
    IF root = NoRoot THEN Closed(adm)
    ELSE \E c \in Chain : /\ chains[c].pc = "running" /\ chains[c].kind = "request"
                          /\ chains[c].lease = root

\* prepare by the holder of the lease: it renews it.
Renew(request, drain, caller) ==
    \E other, inspects \in BOOLEAN :
        /\ PrepareCaller(caller)
        /\ current.kind = "held" /\ ~expired
        /\ current.request = request /\ current.drain = drain
        /\ Becomes(IF inspects THEN Refreshed(Renewed(Now), caller, other) ELSE Renewed(Now))
        /\ UNCHANGED workVars

\* prepare in every other situation.
Prepare(request, drain, caller) ==
    \E other, inspects, resumes, again \in BOOLEAN :
        LET s == Normalized(resumes)
            e == [kind |-> "held", owner |-> s.adm.suspendGen + 1, request |-> request,
                  drain |-> drain, phase |-> "draining", armed |-> TRUE,
                  excused |-> caller]
        IN  /\ PrepareCaller(caller) /\ adm.suspendGen < MaxGeneration
            /\ s.current.kind = "held" => current.request # request \/ current.drain # drain
            /\ Becomes(IF s.current.kind = "none" THEN Prepared(s, e, other, inspects, again)
                       ELSE s)
            /\ UNCHANGED workVars

Status(owner, caller) ==
    \E other, resumes \in BOOLEAN :
        LET s == Normalized(resumes)
        IN  /\ caller = NoRoot \/ RunningUnder(caller)
            /\ Becomes(IF s.current.kind = "held" /\ s.current.owner = owner
                       THEN Refreshed(s, caller, other) ELSE s)
            /\ UNCHANGED workVars

Resume(owner) ==
    \E resumes, again \in BOOLEAN :
        LET s == Normalized(resumes)
        IN  /\ Becomes(IF s.current.kind = "held" /\ s.current.owner = owner
                       THEN ResumeAndReopen(s, again) ELSE s)
            /\ UNCHANGED workVars

-----------------------------------------------------------------------------
(* Time.  The wall clock and the event loop's timers are two clocks.       *)

WallClock == /\ current.kind = "held" /\ ~expired
             /\ expired' = TRUE
             /\ UNCHANGED <<adm, workVars, current, retired, paused, due>>

\* The TTL of a held entry, or the retry delay of a recovering one, has run out.
TimerDue == /\ current.armed
            /\ current' = [current EXCEPT !.armed = FALSE]
            /\ due' = due \cup {[owner |-> current.owner, kind |-> current.kind,
                                  live |-> TRUE]}
            /\ UNCHANGED <<adm, workVars, retired, paused, expired>>

\* Fault: the timer generation is not compared.
RunTimerStale(t, resumes) ==
    LET s == [Now EXCEPT !.due = @ \ {t}]
    IN  /\ t \in due
        /\ Becomes(IF t.owner = current.owner /\ t.kind = current.kind
                   THEN ResumeAndReopen(s, resumes) ELSE s)
        /\ UNCHANGED workVars

\* The callback of scheduleEntry, and in it that of its caller.
RunTimer(t, resumes) ==
    LET s == [Now EXCEPT !.due = @ \ {t}]
    IN  /\ t \in due
        /\ Becomes(IF t.live /\ t.owner = current.owner /\ t.kind = current.kind
                   THEN ResumeAndReopen(s, resumes) ELSE s)
        /\ UNCHANGED workVars

-----------------------------------------------------------------------------
(* Restarts.                                                               *)

\* Fault: the coordinator is not told.
MarkDrainingUntold ==
    /\ ~adm.draining /\ adm.signalGen < MaxGeneration
    /\ adm.phase # "accepting" => adm.suspendGen < MaxGeneration
    /\ Becomes([Now EXCEPT !.adm = Drain(@)])
    /\ UNCHANGED workVars

\* markGatewayRestartDraining with the callback that prepare registered: the
\* entry is put aside and the scheduler stays as it is.
MarkDraining ==
    /\ ~adm.draining /\ adm.signalGen < MaxGeneration
    /\ adm.phase # "accepting" => adm.suspendGen < MaxGeneration
    /\ Becomes(IF adm.guarded /\ current.owner = adm.suspendGen /\ current.kind # "none"
               THEN [TimerCleared(Now, current) EXCEPT
                        !.adm = Drain(@), !.current = NoEntry, !.retired = current,
                        !.expired = FALSE]
               ELSE [Now EXCEPT !.adm = Drain(@)])
    /\ UNCHANGED workVars

\* beginGatewayRestartSignalAdmission, called by the emitter of restart signals;
\* a signal that the run loop rejects gives the fence back.
RaiseFence ==
    /\ adm.signalGen < MaxGeneration /\ CanBeginSignal(adm)
    /\ adm' = BeginSignal(adm) /\ UNCHANGED <<workVars, coordVars>>

LowerFence ==
    /\ CanClearFence(adm)
    /\ adm' = ClearFence(adm) /\ UNCHANGED <<workVars, coordVars>>

\* The next in-process lifecycle: the put-aside entry resumes its scheduler and
\* is dropped, the gate is reset and roots are retired.  The server that starts
\* next builds a scheduler of its own.
LifecycleRestart ==
    /\ adm.draining
    /\ adm.signalGen < MaxGeneration /\ adm.suspendGen < MaxGeneration
    /\ Becomes([TimerCleared(TimerCleared(Now, current), retired) EXCEPT
                  !.adm = Reopen(@), !.current = NoEntry, !.retired = NoEntry,
                  !.paused = FALSE, !.expired = FALSE])
    /\ RetireRoots

Owners == 0 .. MaxGeneration

Next ==
    \/ WorkStep /\ UNCHANGED coordVars
    \/ \E request \in Request, drain \in BOOLEAN, caller \in Root \cup {NoRoot} :
           Renew(request, drain, caller) \/ Prepare(request, drain, caller)
    \/ \E owner \in Owners : \/ Resume(owner)
                             \/ \E caller \in Root \cup {NoRoot} : Status(owner, caller)
    \/ WallClock \/ TimerDue
    \/ \E t \in due, resumes \in BOOLEAN : RunTimer(t, resumes)
    \/ MarkDraining \/ RaiseFence \/ LowerFence \/ LifecycleRestart

Spec == Init /\ [][Next]_vars

\* The event loop runs the timers that are due; chains that can go on do; the run
\* loop answers every restart signal, by a drain or by giving the fence back; and
\* a scheduler that is retried every second is at last resumed.
Fairness ==
    /\ WF_vars(TimerDue)
    /\ \A owner \in Owners, kind \in {"held", "recovering"}, live \in BOOLEAN :
         LET t == [owner |-> owner, kind |-> kind, live |-> live]
         IN  /\ WF_vars(\E resumes \in BOOLEAN : RunTimer(t, resumes))
             /\ SF_vars(RunTimer(t, TRUE))
    /\ \A c \in Chain : WF_vars(Retry(c) /\ UNCHANGED coordVars)
    /\ WF_vars(LowerFence \/ MarkDraining)

FairSpec == Spec /\ Fairness

-----------------------------------------------------------------------------
TypeOK ==
    /\ AdmType /\ WorkType
    /\ current \in Entry \cup {NoEntry} /\ retired \in Entry \cup {NoEntry}
    /\ paused \in BOOLEAN /\ expired \in BOOLEAN
    /\ due \in SUBSET [owner : Nat, kind : {"held", "recovering"}, live : BOOLEAN]

\* The coordinator and the gate never disagree: the gate is closed for a
\* suspension exactly while there is an entry, the entry holds the current
\* generation, so its release will work, and the status that the host polls is
\* the phase of the gate.  Every RPC, timer and restart changes both.
CoordinatorAgrees ==
    /\ adm.phase # "accepting" <=> current.kind # "none"
    /\ current.kind # "none" => current.owner = adm.suspendGen /\ adm.guarded
    /\ current.kind = "held" =>
           adm.phase = IF current.phase = "ready" THEN "prepared" ELSE "draining"

\* A stopped scheduler always has somebody who will start it, and the scheduler
\* of a gateway that a host may freeze is stopped: paused work leaks into no
\* later lease and no old retry starts it under a newer one.
SchedulerOwned == paused <=> current.kind # "none" \/ retired.kind # "none"

\* "ready" means what the host takes it to mean: while the gateway is prepared
\* all roots at work come from one line, that of the call whose inspection found
\* the rest idle or of the restart that a prepared gateway lets in.  Work admitted
\* before, work parked behind the gate and continuations of either must all be
\* over or stay out.
PreparedIsQuiet ==
    adm.phase = "prepared" /\ active # {} =>
        \E line \in Root :
            /\ \A r \in active : roots[r].origin = line
            /\ \/ /\ current.excused # NoRoot /\ roots[current.excused].origin = line
               \/ \E c \in Chain : chains[c].lease = line /\ chains[c].kind = "restart"

\* A lease that its holder renewed ends when the holder says so, when a restart
\* supersedes it or when it has run out since: an expiry callback that was queued
\* before the renewal ends nothing.
LeaseKept ==
    [][current.kind = "held" /\ current'.kind # "held" =>
         expired \/ ~current.armed \/ adm'.draining \/ Resume(current.owner)]_vars

Renewing == \E request \in Request, drain \in BOOLEAN, caller \in Root \cup {NoRoot} :
                Renew(request, drain, caller)
Abandoned == <>[][~Renewing]_vars

\* A host that takes a lease and is never heard of again does not stop the
\* gateway for good: its lease runs out, also when resuming the scheduler fails
\* at first, and the work that was parked meanwhile gets its answer.
AbandonedReopens == Abandoned => [](adm.phase # "accepting" => <>(adm.phase = "accepting"))
NobodyParkedForever ==
    Abandoned => \A c \in Chain : [](chains[c].pc = "waiting" => <>(chains[c].pc # "waiting"))
=============================================================================
