---------------------------- MODULE CronLifecycle ----------------------------
(***************************************************************************)
(* The life of the cron scheduler behind its lazy proxy: the import of the *)
(* real service on first use, overlapping starts and stops of several      *)
(* generations, the pause and resume of the suspend coordinator, a hot     *)
(* reload that takes the exit watchers over, and the timer that all of     *)
(* them arm or clear.                                                      *)
(*                                                                         *)
(* A step is one callback of the event loop.  Continuations of settled     *)
(* promises (microtasks) run before the next event, so an event waits for  *)
(* them (Settled).  Generations are compared for equality only, so a call  *)
(* remembers whether its generation is over, not its number.  Cron is      *)
(* enabled and some job is due later, so that an armed timer is visible.   *)
(***************************************************************************)
EXTENDS Naturals, FiniteSets

CONSTANTS Starter,      \* slots for calls of start that overlap
          Drainer,      \* slots for calls of stopAndDrain that overlap
          None

ASSUME CronAssumption == IsFiniteSet(Starter) /\ None \notin Starter

VARIABLES
    import,      \* cronStateLoader: the dynamic import of the service
    stopped,     \* the proxy's own flag
    paused,      \* the proxy's schedulingPaused
    owed,        \* the last resume threw, and the coordinator tries again
    handed,      \* preserveExitWatchersOnStop
    handoff,     \* exitWatcherHandoffStop exists
    tidy,        \* a stop waits for the import to stop what it brings
    loaded,      \* LoadedGatewayCronState
    svc,         \* the service's state and its starts in progress
    call,        \* the calls of start
    drain,       \* the calls of stopAndDrain
    tick         \* a timer tick that waits for admission, and one that runs

proxy == <<stopped, paused, owed, handed, handoff>>
vars == <<import, proxy, tidy, loaded, svc, call, drain, tick>>

Phase == {"idle", "starting", "started", "stopped"}
\* The part of a start that owns startPromise.
Promised == {"waiting", "repair", "catchup", "tail", "reconcile", "cleanup"}
InService == {"repair", "catchup"}

Loaded == [phase : Phase, owner : Starter \cup {None}, held : BOOLEAN,
           inFlight : BOOLEAN, up : BOOLEAN]
\* refused: a restart drain has turned a tick away, and is one-way.
Tick == [waiting : BOOLEAN, retired : BOOLEAN, running : BOOLEAN, refused : BOOLEAN]
Service == [stopped : BOOLEAN, paused : BOOLEAN, started : BOOLEAN, timer : BOOLEAN,
            starts : Nat, superseded : BOOLEAN]
\* stale: lifecycleGeneration moved on since the call read it; of, same: the
\* start it joined, and whether that start has its generation; ended: how that
\* start settled; released: nothing left to wait for.
Call == [pc : {"idle", "loading", "joining"} \cup Promised, stale : BOOLEAN,
         of : Starter \cup {None}, same : BOOLEAN, ended : {"no", "ok", "error"},
         released : BOOLEAN]

IdleCall == [pc |-> "idle", stale |-> FALSE, of |-> None, same |-> FALSE,
             ended |-> "no", released |-> FALSE]

TypeOK ==
    /\ import \in {"none", "pending", "done", "failed"}
    /\ {stopped, paused, owed, handed, handoff, tidy} \subseteq BOOLEAN
    /\ loaded \in Loaded
    /\ svc \in Service /\ svc.starts <= Cardinality(Starter)
    /\ call \in [Starter -> Call]
    /\ drain \in [Drainer -> {"idle", "loading", "draining"}]
    /\ tick \in Tick

Init ==
    /\ import = "none"
    /\ stopped = FALSE /\ paused = FALSE /\ owed = FALSE
    /\ handed = FALSE /\ handoff = FALSE /\ tidy = FALSE
    /\ loaded = [phase |-> "idle", owner |-> None, held |-> FALSE,
                 inFlight |-> FALSE, up |-> FALSE]
    /\ svc = [stopped |-> FALSE, paused |-> FALSE, started |-> FALSE, timer |-> FALSE,
              starts |-> 0, superseded |-> FALSE]
    /\ call = [c \in Starter |-> IdleCall]
    /\ drain = [d \in Drainer |-> "idle"]
    /\ tick = [waiting |-> FALSE, retired |-> FALSE, running |-> FALSE, refused |-> FALSE]

Imported == import \in {"done", "failed"}

\* No continuation is left to run.
Settled ==
    /\ ~(Imported /\ (tidy \/ \E d \in Drainer : drain[d] = "loading"))
    /\ \A c \in Starter : /\ ~(Imported /\ call[c].pc = "loading")
                          /\ ~(call[c].pc = "joining" /\ call[c].ended # "no")
                          /\ ~(call[c].pc = "waiting" /\ call[c].released)

-----------------------------------------------------------------------------
(* The service.                                                            *)

SvcStop(s) ==
    [stopped |-> TRUE, paused |-> s.paused, started |-> FALSE, timer |-> FALSE,
     starts |-> s.starts, superseded |-> TRUE]

SvcPause(s) == [s EXCEPT !.paused = TRUE, !.timer = FALSE]

\* resumeScheduling arms the timer of a scheduler that has started.
SvcResume(s) ==
    IF ~s.paused THEN s
    ELSE [s EXCEPT !.paused = FALSE, !.timer = s.started /\ ~s.stopped]

\* startOnce and the synchronous part of start.
SvcBegin(s) ==
    [stopped |-> FALSE, paused |-> s.paused, started |-> FALSE, timer |-> s.timer,
     starts |-> s.starts + 1, superseded |-> FALSE]

\* armTimer.
SvcArm(s) == [s EXCEPT !.timer = ~s.stopped /\ ~s.paused]

\* The rest of startOnce: a start whose generation is over stops again.
SvcReturn(s) ==
    LET r == [s EXCEPT !.starts = @ - 1]
    IN  IF s.superseded THEN SvcStop(r) ELSE [r EXCEPT !.started = ~r.stopped]

\* Fault: startInProgress is lowered after a start, but not in a finally.
SvcThrowLeaks(s) == s

SvcThrow(s) == [s EXCEPT !.starts = @ - 1]

\* getSuspensionBlockerCount, of the proxy over the service: starts in progress
\* and reconciliations of watchers.
Blockers ==
    LET own == svc.starts + Cardinality({c \in Starter : call[c].pc = "reconcile"})
    IN  IF loaded.phase = "starting" /\ own = 0 THEN 1 ELSE own

\* The timer fires, waits for the gate, and works.  A retired tick does
\* nothing; one that is admitted keeps the timer armed and re-arms it.
TickFires ==
    /\ Settled /\ svc.timer /\ ~tick.waiting
    /\ svc' = [svc EXCEPT !.timer = FALSE]
    /\ tick' = [tick EXCEPT !.waiting = TRUE, !.retired = FALSE]
    /\ UNCHANGED <<import, proxy, tidy, loaded, call, drain>>

TickAdmitted ==
    /\ Settled /\ tick.waiting /\ ~tick.running /\ ~tick.refused
    /\ LET works == ~tick.retired /\ ~svc.stopped /\ ~svc.paused
       IN  /\ svc' = IF works THEN SvcArm(svc) ELSE svc
           /\ tick' = [tick EXCEPT !.waiting = FALSE, !.retired = FALSE, !.running = works]
    /\ UNCHANGED <<import, proxy, tidy, loaded, call, drain>>

\* The gate drains for a restart: the tick is dropped and nothing re-arms.
TickRefused ==
    /\ Settled /\ tick.waiting
    /\ tick' = [tick EXCEPT !.waiting = FALSE, !.retired = FALSE, !.refused = TRUE]
    /\ UNCHANGED <<import, proxy, tidy, loaded, svc, call, drain>>

TickEnds ==
    /\ Settled /\ tick.running
    /\ svc' = SvcArm(svc)
    /\ tick' = [tick EXCEPT !.running = FALSE]
    /\ UNCHANGED <<import, proxy, tidy, loaded, call, drain>>

\* What a stop of the service does to a tick that waits.
Retired(t) == [t EXCEPT !.retired = t.waiting]

-----------------------------------------------------------------------------
(* Calls of start.                                                         *)

startCancelled(c) == stopped \/ call[c].stale

\* The proxy's start up to its first await.  A proxy that was handed over is
\* not started again: the reload replaced it.
Start(c) ==
    /\ Settled /\ call[c].pc = "idle" /\ ~handed
    /\ stopped' = FALSE
    /\ import' = IF import = "none" THEN "pending" ELSE import
    /\ call' = [call EXCEPT ![c] = [IdleCall EXCEPT !.pc = "loading"]]
    /\ UNCHANGED <<paused, owed, handed, handoff, tidy, loaded, svc, drain, tick>>

\* Any other use of the proxy imports the service too.
Use ==
    /\ Settled /\ import = "none"
    /\ import' = "pending"
    /\ UNCHANGED <<proxy, tidy, loaded, svc, call, drain, tick>>

Import(ok) ==
    /\ Settled /\ import = "pending"
    /\ import' = IF ok THEN "done" ELSE "failed"
    /\ loaded' = [loaded EXCEPT !.held = ok /\ paused]
    /\ svc' = IF ok /\ paused THEN SvcPause(svc) ELSE svc
    /\ UNCHANGED <<proxy, tidy, call, drain, tick>>

\* The call becomes the owner of startPromise.
Own(c) ==
    /\ loaded' = [loaded EXCEPT !.phase = "starting", !.owner = c]
    /\ call' = [call EXCEPT ![c] = [@ EXCEPT !.pc = "waiting", !.released = ~paused]]

Return(c) ==
    /\ call' = [call EXCEPT ![c] = IdleCall]
    /\ UNCHANGED loaded

Join(c) ==
    /\ call' = [call EXCEPT ![c] = [@ EXCEPT !.pc = "joining", !.of = loaded.owner,
                                             !.same = ~call[loaded.owner].stale,
                                             !.ended = "no"]]
    /\ UNCHANGED loaded

\* Fault: a start that is under way is not looked at.
StartLoadedAlone(c) ==
    /\ call[c].pc = "loading" /\ Imported
    /\ ~tidy /\ \A d \in Drainer : drain[d] # "loading"
    /\ IF import = "failed" \/ startCancelled(c) \/ loaded.phase = "started"
       THEN Return(c) ELSE Own(c)
    /\ UNCHANGED <<import, proxy, tidy, svc, drain, tick>>

\* Stops that wait for the import settle before starts that wait for it.
StartLoaded(c) ==
    /\ call[c].pc = "loading" /\ Imported
    /\ ~tidy /\ \A d \in Drainer : drain[d] # "loading"
    /\ IF import = "failed" \/ startCancelled(c) \/ loaded.phase = "started"
       THEN Return(c)
       ELSE IF loaded.owner # None THEN Join(c) ELSE Own(c)
    /\ UNCHANGED <<import, proxy, tidy, svc, drain, tick>>

\* The start it joined has settled: throw, return, or start again.
Joined(c) ==
    LET failed == call[c].ended = "error" /\ call[c].same IN
    /\ call[c].pc = "joining" /\ call[c].ended # "no"
    /\ IF failed \/ startCancelled(c) \/ loaded.phase = "started" THEN Return(c)
       ELSE IF call[c].same THEN Own(c)
       ELSE /\ call' = [call EXCEPT ![c] = [IdleCall EXCEPT !.pc = "loading"]]
            /\ UNCHANGED loaded
    /\ UNCHANGED <<import, proxy, tidy, svc, drain, tick>>

\* startPromise settles: the calls that joined it go on.
Finished(c, result) ==
    [d \in Starter |->
        IF d = c THEN IdleCall
        ELSE IF call[d].pc = "joining" /\ call[d].of = c /\ call[d].ended = "no"
             THEN [call[d] EXCEPT !.ended = result] ELSE call[d]]

Disowned(l, c) == [l EXCEPT !.owner = IF @ = c THEN None ELSE @]

\* Fault: nobody asks whether a stop came while scheduling was paused.
ProceedAnyway(c) ==
    /\ call[c].pc = "waiting" /\ call[c].released
    /\ loaded' = [loaded EXCEPT !.held = FALSE, !.inFlight = TRUE]
    /\ svc' = SvcBegin(IF loaded.held THEN SvcResume(svc) ELSE svc)
    /\ call' = [call EXCEPT ![c] = [@ EXCEPT !.pc = "repair", !.released = FALSE]]
    /\ UNCHANGED <<import, proxy, tidy, drain, tick>>

\* waitForSchedulingResume is over: start the service.
Proceed(c) ==
    /\ call[c].pc = "waiting" /\ call[c].released
    /\ IF startCancelled(c)
       THEN /\ loaded' = [Disowned(loaded, c) EXCEPT !.phase = "stopped"]
            /\ call' = Finished(c, "ok")
            /\ UNCHANGED svc
       ELSE /\ loaded' = [loaded EXCEPT !.held = FALSE, !.inFlight = TRUE]
            /\ svc' = SvcBegin(IF loaded.held THEN SvcResume(svc) ELSE svc)
            /\ call' = [call EXCEPT ![c] = [@ EXCEPT !.pc = "repair", !.released = FALSE]]
    /\ UNCHANGED <<import, proxy, tidy, drain, tick>>

\* stopResolvedCron under stopResolvedCronOnce: a handover stops only once.
Halted(l) == [l EXCEPT !.phase = "stopped", !.up = FALSE]

StopOnce(preserve, l, s) ==
    LET done == preserve /\ handoff IN
    /\ loaded' = IF done THEN l ELSE Halted(l)
    /\ svc' = IF done THEN s ELSE SvcStop(s)
    /\ tick' = IF done THEN tick ELSE Retired(tick)
    /\ handoff' = (handoff \/ preserve)

\* Fault: a pause that came during the start is forgotten.
ReturnedUnpaused(c, r) ==
    LET l == [loaded EXCEPT !.inFlight = FALSE, !.up = TRUE]
    IN  \/ /\ startCancelled(c)
           /\ StopOnce(handed, l, r)
           /\ call' = [call EXCEPT ![c] = [@ EXCEPT !.pc = "cleanup"]]
        \/ /\ ~startCancelled(c)
           /\ loaded' = l /\ svc' = r
           /\ call' = [call EXCEPT ![c] = [@ EXCEPT !.pc = "reconcile"]]
           /\ UNCHANGED <<handoff, tick>>

\* The start that the proxy awaits has returned, and left the service as r.
Returned(c, r) ==
    LET l == [loaded EXCEPT !.inFlight = FALSE, !.up = TRUE]
    IN  \/ /\ startCancelled(c)
           /\ StopOnce(handed, l, r)
           /\ call' = [call EXCEPT ![c] = [@ EXCEPT !.pc = "cleanup"]]
        \/ /\ ~startCancelled(c)
           /\ loaded' = [l EXCEPT !.held = @ \/ paused]
           /\ svc' = IF paused THEN SvcPause(r) ELSE r
           /\ call' = [call EXCEPT ![c] = [@ EXCEPT !.pc = "reconcile"]]
           /\ UNCHANGED <<handoff, tick>>

\* It has thrown, and left the service as r.
Threw(c, r) ==
    /\ svc' = r
    /\ loaded' = [Disowned(loaded, c) EXCEPT !.inFlight = FALSE, !.up = FALSE,
                      !.phase = IF startCancelled(c) THEN "stopped" ELSE "idle"]
    /\ call' = Finished(c, "error")
    /\ UNCHANGED <<handoff, tick>>

\* The first lock of the service's start repairs interrupted runs.
Repair(c, ok) ==
    /\ Settled /\ call[c].pc = "repair"
    /\ \/ ~ok /\ Threw(c, SvcThrow(svc))
       \/ ok /\ svc.stopped /\ Returned(c, SvcReturn(svc))
       \/ /\ ok /\ ~svc.stopped
          /\ call' = [call EXCEPT ![c] = [@ EXCEPT !.pc = "catchup"]]
          /\ UNCHANGED <<loaded, svc, handoff, tick>>
    /\ UNCHANGED <<import, stopped, paused, owed, handed, tidy, drain>>

\* Missed jobs have run; the second lock arms the timer, and the service's
\* start returns to its wrapper, which gives up if a stop came meanwhile.
CatchUp(c, ok) ==
    /\ Settled /\ call[c].pc = "catchup"
    /\ \/ ~ok /\ Threw(c, SvcThrow(svc))
       \/ ok /\ svc.superseded /\ Returned(c, SvcReturn(svc))
       \/ /\ ok /\ ~svc.superseded
          /\ svc' = SvcReturn(IF svc.stopped THEN svc ELSE SvcArm(svc))
          /\ call' = [call EXCEPT ![c] = [@ EXCEPT !.pc = "tail"]]
          /\ UNCHANGED <<loaded, handoff, tick>>
    /\ UNCHANGED <<import, stopped, paused, owed, handed, tidy, drain>>

\* The wrapper's tail reconciles stream watchers and heartbeat jobs.  A throw
\* leaves the started service as it is, its timer included.
Tail(c, ok) ==
    /\ Settled /\ call[c].pc = "tail"
    /\ IF ok THEN Returned(c, svc) ELSE Threw(c, svc)
    /\ UNCHANGED <<import, stopped, paused, owed, handed, tidy, drain>>

\* The watchers of persisted jobs are armed, or that fails.
Reconciled(c, ok) ==
    /\ Settled /\ call[c].pc = "reconcile"
    /\ \/ /\ ~ok \/ ~startCancelled(c)
          /\ loaded' = [Disowned(loaded, c) EXCEPT
                            !.phase = IF startCancelled(c) THEN "stopped" ELSE "started"]
          /\ call' = Finished(c, IF ok THEN "ok" ELSE "error")
          /\ UNCHANGED <<svc, handoff, tick>>
       \/ /\ ok /\ startCancelled(c)
          /\ StopOnce(handed, loaded, svc)
          /\ call' = [call EXCEPT ![c] = [@ EXCEPT !.pc = "cleanup"]]
    /\ UNCHANGED <<import, stopped, paused, owed, handed, tidy, drain>>

CleanedUp(c, ok) ==
    /\ Settled /\ call[c].pc = "cleanup"
    /\ loaded' = Disowned(loaded, c)
    /\ call' = Finished(c, IF ok THEN "ok" ELSE "error")
    /\ UNCHANGED <<import, proxy, tidy, svc, drain, tick>>

-----------------------------------------------------------------------------
(* Stop, drain, pause and resume.                                          *)

\* Fault: a start that waits for the scheduler is left waiting.
OutdatedOnly(f) ==
    [c \in Starter |-> IF f[c].pc = "idle" THEN f[c] ELSE [f[c] EXCEPT !.stale = TRUE]]

\* lifecycleGeneration moves on, and starts that wait for a resume go on.
Outdated(f) ==
    [c \in Starter |-> IF f[c].pc = "idle" THEN f[c]
                       ELSE [f[c] EXCEPT !.stale = TRUE,
                                         !.released = f[c].pc = "waiting"]]

Stop ==
    /\ Settled
    /\ stopped' = TRUE
    /\ call' = Outdated(call)
    /\ IF import = "done"
       THEN loaded' = Halted(loaded) /\ svc' = SvcStop(svc) /\ tick' = Retired(tick)
       ELSE UNCHANGED <<loaded, svc, tick>>
    /\ tidy' = (import = "pending")
    /\ UNCHANGED <<import, paused, owed, handed, handoff, drain>>

\* The import has settled after a stop.
Tidy ==
    /\ tidy /\ Imported
    /\ tidy' = FALSE
    /\ IF import = "done" /\ stopped
       THEN loaded' = Halted(loaded) /\ svc' = SvcStop(svc) /\ tick' = Retired(tick)
       ELSE UNCHANGED <<loaded, svc, tick>>
    /\ UNCHANGED <<import, proxy, call, drain>>

\* stopLoadedCronAndDrain; with preserve it is the stop of an owner whose exit
\* watchers a reload has taken over, which needs a loaded service.
StopAndDrain(d, preserve) ==
    /\ Settled /\ drain[d] = "idle" /\ preserve => import = "done"
    /\ stopped' = TRUE
    /\ handed' = (handed \/ preserve)
    /\ call' = Outdated(call)
    /\ IF import = "done"
       THEN StopOnce(handed', loaded, svc) ELSE UNCHANGED <<loaded, svc, tick, handoff>>
    /\ drain' = [drain EXCEPT ![d] = CASE import = "done" -> "draining"
                                       [] import = "pending" -> "loading"
                                       [] OTHER -> "idle"]
    /\ UNCHANGED <<import, paused, owed, tidy>>

DrainLoaded(d) ==
    /\ drain[d] = "loading" /\ Imported
    /\ IF import = "done"
       THEN StopOnce(handed, loaded, svc) ELSE UNCHANGED <<loaded, svc, tick, handoff>>
    /\ drain' = [drain EXCEPT ![d] = IF import = "done" THEN "draining" ELSE "idle"]
    /\ UNCHANGED <<import, stopped, paused, owed, handed, tidy, call>>

Drained(d) ==
    /\ Settled /\ drain[d] = "draining"
    /\ drain' = [drain EXCEPT ![d] = "idle"]
    /\ UNCHANGED <<import, proxy, tidy, loaded, svc, call, tick>>

PauseScheduling ==
    /\ Settled /\ ~paused /\ ~owed
    /\ paused' = TRUE
    /\ loaded' = [loaded EXCEPT !.held = @ \/ import = "done"]
    /\ svc' = IF import = "done" THEN SvcPause(svc) ELSE svc
    /\ UNCHANGED <<import, stopped, owed, handed, handoff, tidy, call, drain, tick>>

\* releaseSchedulingResumeWaiters.
Released(f) ==
    [c \in Starter |-> IF f[c].pc = "waiting" THEN [f[c] EXCEPT !.released = TRUE] ELSE f[c]]

\* Fault: only a start that has come to its end is resumed.
ResumableStarted == loaded.held /\ loaded.phase = "started"

Resumable == loaded.held /\ (loaded.up \/ loaded.inFlight)

\* The coordinator resumes what it paused, and again if arming the timer threw.
ResumeScheduling(ok) ==
    /\ Settled /\ (paused \/ owed)
    /\ ok \/ (Resumable /\ svc.paused /\ svc.started)
    /\ paused' = FALSE
    /\ owed' = ~ok
    /\ call' = Released(call)
    /\ svc' = IF ok /\ Resumable THEN SvcResume(svc) ELSE svc
    /\ loaded' = IF ok /\ Resumable THEN [loaded EXCEPT !.held = FALSE] ELSE loaded
    /\ UNCHANGED <<import, stopped, handed, handoff, tidy, drain, tick>>

\* prepareGatewaySuspend meets a lease that ran out: it resumes and pauses
\* without giving the continuations a turn between the two.
PauseAnew ==
    /\ Settled /\ paused
    /\ call' = Released(call)
    /\ loaded' = [loaded EXCEPT !.held = @ \/ import = "done"]
    /\ svc' = IF import = "done" THEN SvcPause(svc) ELSE svc
    /\ UNCHANGED <<import, proxy, tidy, drain, tick>>

-----------------------------------------------------------------------------
\* Continuations, and the ends of what was begun.
Step(c) ==
    \/ StartLoaded(c) \/ Joined(c) \/ Proceed(c)
    \/ \E ok \in BOOLEAN : Repair(c, ok) \/ CatchUp(c, ok) \/ Tail(c, ok)
                           \/ Reconciled(c, ok) \/ CleanedUp(c, ok)

Next ==
    \/ \E c \in Starter : Start(c) \/ Step(c)
    \/ \E d \in Drainer : \/ \E preserve \in BOOLEAN : StopAndDrain(d, preserve)
                          \/ DrainLoaded(d) \/ Drained(d)
    \/ \E ok \in BOOLEAN : Import(ok) \/ ResumeScheduling(ok)
    \/ Use \/ Stop \/ Tidy \/ PauseScheduling \/ PauseAnew
    \/ TickFires \/ TickAdmitted \/ TickRefused \/ TickEnds

\* The event loop serves every callback that is ready, and imports, locks and
\* drains end.  Nobody has to call anything.
Fairness ==
    /\ \A c \in Starter : SF_vars(Step(c))
    /\ \A d \in Drainer : SF_vars(DrainLoaded(d)) /\ SF_vars(Drained(d))
    /\ SF_vars(\E ok \in BOOLEAN : Import(ok))
    /\ SF_vars(Tidy)

Spec == Init /\ [][Next]_vars
LiveSpec == Spec /\ Fairness

-----------------------------------------------------------------------------
\* A stop that nothing followed leaves no timer behind, whatever start it met
\* on the way, and whichever of them settles last.
StoppedIsQuiet == stopped => ~svc.timer /\ ~svc.started

\* The proxy hands its starts to the service one at a time, whatever stops came
\* between them: the service's own guard against overlapping starts (startState)
\* is never needed.
OneStart == svc.starts <= 1

\* When the scheduler is paused and counts no blocker, as a prepared suspension
\* requires, no timer is armed and no missed job is run.  Left aside: a start
\* that a renewed pause let go and that failed has taken the pause off.
PausedIsQuiet ==
    paused /\ Blockers = 0 /\ (loaded.phase = "idle" => loaded.held) =>
        ~svc.timer /\ \A c \in Starter : call[c].pc \notin InService

\* Every interleaving of pause and resume with a start ends with a timer: a
\* scheduler that has started and is not paused wakes up again, unless the
\* process drains for a restart that replaces it.
ResumedIsArmed ==
    Settled /\ loaded.phase = "started" /\ ~paused /\ ~owed =>
        svc.timer \/ tick.waiting \/ tick.running \/ tick.refused

\* A start comes to its end, unless it is current and waits for a resume.
StartsEnd ==
    \A c \in Starter :
        call[c].pc # "idle" ~>
            \/ call[c].pc = "idle"
            \/ paused /\ ~call[c].stale /\ call[c].pc \in {"waiting", "joining"}

\* "Already-admitted work and its owned completions continue naturally": a
\* start that was admitted before a draining suspension comes to its end.
AdmittedContinues ==
    \A c \in Starter : ~paused /\ call[c].pc # "idle" ~> call[c].pc = "idle"
=============================================================================
